------------------------ MODULE TaskPositionsProofs ------------------------
(***************************************************************************)
(* The order of a view, for any tasks, requests and sizes.  The argument,  *)
(* part by part: the step a request is at says what it has written so far  *)
(* and what it holds (PathInv), so that recalculations hold the view       *)
(* before any row (LockInv); a recalculation's plan puts the tasks it saw  *)
(* in their order, and what it has written is as planned (OrderInv).  Of a *)
(* request that is alone the positions it is going to leave are known at   *)
(* every step (Final), and those are distinct (SerialInv) and in the order *)
(* that the page shows (DropInv).                                          *)
(***************************************************************************)
EXTENDS TaskPositions, FiniteSetTheorems, TLAPS

\* A set of numbers that has a member has a least one.
LEMMA LeastIs ==
    ASSUME NEW S \in SUBSET Nat, S # {}
    PROVE  Least(S) \in S /\ \A m \in S : Least(S) <= m
<1>. DEFINE R == {p \in Nat \X Nat : p[1] < p[2]}
<1>1. IsWellFoundedOn(R, Nat)
  BY NatLessThanWellFounded DEF OpToRel
<1>. HIDE DEF R
<1>2. \E n \in S : \A m \in S : ~ (<<m, n>> \in R)
  <2>1. S \subseteq Nat /\ S # {}
    OBVIOUS
  <2>. QED  BY <1>1, <2>1, WFMin, Zenon
<1>3. PICK n \in S : \A m \in S : ~ (<<m, n>> \in R)
  BY <1>2
<1>4. \A m \in S : n <= m
  <2>. TAKE m \in S
  <2>1. <<m, n>> \in Nat \X Nat /\ <<m, n>>[1] = m /\ <<m, n>>[2] = n
    OBVIOUS
  <2>2. ~ (m < n)
    BY <1>3, <2>1, Zenon DEF R
  <2>. QED  BY <2>2
<1>. QED  BY <1>4, Zenon DEF Least

\* An injection between finite sets of one size covers the second.
LEMMA Covers ==
    ASSUME NEW S, NEW T, IsFiniteSet(S), IsFiniteSet(T), Cardinality(S) = Cardinality(T),
           NEW f \in [S -> T], \A x, y \in S : f[x] = f[y] => x = y
    PROVE  \A t \in T : \E x \in S : f[x] = t
<1>1. f \in Injection(S, T)
  BY DEF Injection, IsInjective
<1>2. f \in Surjection(S, T)
  BY <1>1, FS_Injection
<1>. QED  BY <1>2 DEF Surjection

\* Precedes is a strict linear order on the tasks.
LEMMA PrecedesOrders ==
    ASSUME NEW rows \in Table
    PROVE  /\ \A t \in Tasks : ~Precedes(rows, t, t)
           /\ \A t, u \in Tasks : Precedes(rows, t, u) => ~Precedes(rows, u, t)
           /\ \A t, u \in Tasks : t # u => Precedes(rows, t, u) \/ Precedes(rows, u, t)
           /\ \A t, u, v \in Tasks :
                  Precedes(rows, t, u) /\ Precedes(rows, u, v) => Precedes(rows, t, v)
  BY TasksAssumption, NamesAssumption, SMT DEF Precedes, Table

\* A sequence of tasks that is in the order of some rows.
Sorted(rows, s) == \A i, j \in DOMAIN s : i < j => Precedes(rows, s[i], s[j])

\* The tasks before another one.
Before(rows, S, t) == {u \in S : Precedes(rows, u, t)}

\* Every set of tasks is finite.
LEMMA FiniteTasks ==
    ASSUME NEW S \in SUBSET Tasks
    PROVE  IsFiniteSet(S) /\ Cardinality(S) \in Nat /\ Cardinality(S) <= Cardinality(Tasks)
  BY RoomAssumption, FS_Subset, FS_CardinalityType

\* Later tasks have more tasks before them.
LEMMA BeforeGrows ==
    ASSUME NEW rows \in Table, NEW S \in SUBSET Tasks, NEW t \in S
    PROVE  /\ Cardinality(Before(rows, S, t)) \in Nat
           /\ Cardinality(Before(rows, S, t)) < Cardinality(S)
           /\ \A u \in S : Precedes(rows, t, u) =>
                Cardinality(Before(rows, S, t)) < Cardinality(Before(rows, S, u))
<1>1. Before(rows, S, t) \in SUBSET S /\ t \notin Before(rows, S, t)
  BY PrecedesOrders DEF Before
<1>2. /\ IsFiniteSet(S) /\ Cardinality(S) \in Nat
      /\ Cardinality(Before(rows, S, t)) \in Nat
  BY <1>1, FiniteTasks
<1>3. Cardinality(Before(rows, S, t)) < Cardinality(S)
  BY <1>1, <1>2, FS_Subset
<1>4. ASSUME NEW u \in S, Precedes(rows, t, u)
      PROVE  Cardinality(Before(rows, S, t)) < Cardinality(Before(rows, S, u))
  <2>1. Before(rows, S, t) \in SUBSET Before(rows, S, u)
    BY <1>4, PrecedesOrders DEF Before
  <2>2. t \in Before(rows, S, u) /\ Before(rows, S, u) \in SUBSET Tasks
    BY <1>4 DEF Before
  <2>3. IsFiniteSet(Before(rows, S, u)) /\ Cardinality(Before(rows, S, u)) \in Nat
    BY <2>2, FiniteTasks
  <2>. QED  BY <1>1, <1>2, <2>1, <2>2, <2>3, FS_Subset
<1>. QED  BY <1>2, <1>3, <1>4

\* If no two tasks of a set share a rank, every rank is taken.
LEMMA RankCovers ==
    ASSUME NEW S \in SUBSET Tasks, NEW f \in [S -> 1..Cardinality(S)],
           \A x, y \in S : f[x] = f[y] => x = y
    PROVE  \A i \in 1..Cardinality(S) : \E x \in S : f[x] = i
<1>1. IsFiniteSet(S) /\ Cardinality(S) \in Nat
  BY FiniteTasks
<1>2. IsFiniteSet(1..Cardinality(S)) /\ Cardinality(S) = Cardinality(1..Cardinality(S))
  BY <1>1, FS_Interval
<1>3. f \in Injection(S, 1..Cardinality(S))
  BY DEF Injection, IsInjective
<1>4. f \in Surjection(S, 1..Cardinality(S))
  BY <1>1, <1>2, <1>3, FS_Injection
<1>. QED  BY <1>4 DEF Surjection

\* Every set of tasks can be put in order.
LEMMA OrderExists ==
    ASSUME NEW rows \in Table, NEW S \in SUBSET Tasks
    PROVE  \E s \in SetToSeqs(S) : Sorted(rows, s)
<1>. DEFINE n == Cardinality(S)
            rank == [t \in S |-> Cardinality(Before(rows, S, t)) + 1]
            s == [i \in 1..n |-> CHOOSE t \in S : rank[t] = i]
<1>1. IsFiniteSet(S) /\ n \in Nat
  BY FiniteTasks
<1>2. rank \in [S -> 1..n]
  BY <1>1, BeforeGrows
<1>3. \A t, u \in S : Precedes(rows, t, u) => rank[t] < rank[u]
  BY BeforeGrows
<1>4. \A t, u \in S : rank[t] = rank[u] => t = u
  BY <1>2, <1>3, PrecedesOrders
<1>5. IsFiniteSet(1..n) /\ Cardinality(1..n) = n
  BY <1>1, FS_Interval
<1>. HIDE DEF rank
<1>6. \A i \in 1..n : \E t \in S : rank[t] = i
  BY <1>2, <1>4, RankCovers
<1>7. \A i \in 1..n : s[i] \in S /\ rank[s[i]] = i
  BY <1>6
<1>8. s \in [1..n -> S]
  BY <1>7
<1>. HIDE DEF s
<1>9. s \in SetToSeqs(S)
  BY <1>7, <1>8 DEF SetToSeqs
<1>10. Sorted(rows, s)
  <2>. SUFFICES ASSUME NEW i \in 1..n, NEW j \in 1..n, i < j
                PROVE  Precedes(rows, s[i], s[j])
    BY <1>8 DEF Sorted
  <2>1. rank[s[i]] = i /\ rank[s[j]] = j /\ s[i] \in S /\ s[j] \in S
    BY <1>7
  <2>2. i \in Nat /\ j \in Nat /\ i # j /\ ~(j < i)
    BY <1>1
  <2>. QED  BY <1>3, <2>1, <2>2, PrecedesOrders
<1>. QED  BY <1>9, <1>10

\* What Ordered returns.
LEMMA OrderedIs ==
    ASSUME NEW rows \in Table, NEW S \in SUBSET Tasks
    PROVE  /\ Ordered(rows, S) \in [1..Cardinality(S) -> S]
           /\ Ordered(rows, S) \in Seq(Tasks)
           /\ Len(Ordered(rows, S)) = Cardinality(S)
           /\ Sorted(rows, Ordered(rows, S))
           /\ \A i, j \in 1..Cardinality(S) :
                  Ordered(rows, S)[i] = Ordered(rows, S)[j] => i = j
           /\ \A t \in S : \E i \in 1..Cardinality(S) : Ordered(rows, S)[i] = t
<1>. DEFINE s == Ordered(rows, S)
            n == Cardinality(S)
<1>1. s \in SetToSeqs(S) /\ Sorted(rows, s)
  BY OrderExists DEF Ordered, Sorted
<1>2. s \in [1..n -> S] /\ \A i, j \in 1..n : s[i] = s[j] => i = j
  BY <1>1 DEF SetToSeqs
<1>3. IsFiniteSet(S) /\ n \in Nat
  BY FiniteTasks
<1>. HIDE DEF s
<1>4. s \in Seq(Tasks) /\ Len(s) = n
  BY <1>2, <1>3
<1>5. IsFiniteSet(1..n) /\ Cardinality(1..n) = n
  BY <1>3, FS_Interval
<1>6. \A t \in S : \E i \in 1..n : s[i] = t
  BY <1>2, <1>3, <1>5, Covers
<1>. QED  BY <1>1, <1>2, <1>4, <1>6 DEF s

\* In a sorted sequence the i-th task has i - 1 before it.
LEMMA PlaceIs ==
    ASSUME NEW rows \in Table, NEW S \in SUBSET Tasks, NEW n \in Nat,
           NEW s \in [1..n -> S], Sorted(rows, s),
           \A t \in S : \E i \in 1..n : s[i] = t,
           NEW i \in 1..n
    PROVE  Cardinality(Before(rows, S, s[i])) = i - 1
<1>. DEFINE B == Before(rows, S, s[i])
            k == i - 1
            f == [j \in 1..k |-> s[j]]
<1>1. k \in Nat /\ k < i /\ i <= n
  OBVIOUS
<1>2. \A j \in 1..n : s[j] \in B <=> j < i
  <2>. TAKE j \in 1..n
  <2>1. CASE j < i
    <3>1. Precedes(rows, s[j], s[i])
      BY <2>1 DEF Sorted
    <3>. QED  BY <2>1, <3>1 DEF Before
  <2>2. CASE j = i
    <3>1. ~ Precedes(rows, s[j], s[i])
      BY <2>2, PrecedesOrders
    <3>. QED  BY <2>2, <3>1 DEF Before
  <2>3. CASE i < j
    <3>1. Precedes(rows, s[i], s[j])
      BY <2>3 DEF Sorted
    <3>2. ~ Precedes(rows, s[j], s[i])
      BY <3>1, PrecedesOrders
    <3>. QED  BY <2>3, <3>2 DEF Before
  <2>. QED  BY <2>1, <2>2, <2>3
<1>3. f \in [1..k -> B]
  BY <1>1, <1>2
<1>4. \A t \in B : \E j \in 1..k : f[j] = t
  <2>. TAKE t \in B
  <2>1. PICK j \in 1..n : s[j] = t
    BY DEF Before
  <2>2. j \in 1..k
    BY <1>1, <1>2, <2>1
  <2>. QED  BY <2>1, <2>2
<1>5. \A a, b \in 1..k : f[a] = f[b] => a = b
  <2>. SUFFICES ASSUME NEW a \in 1..k, NEW b \in 1..k, a < b
                PROVE  f[a] # f[b]
    BY <1>1
  <2>1. Precedes(rows, s[a], s[b])
    BY <1>1 DEF Sorted
  <2>2. s[a] # s[b]
    BY <2>1, <1>1, PrecedesOrders
  <2>. QED  BY <2>2
<1>. HIDE DEF f, B
<1>6. f \in Bijection(1..k, B)
  BY <1>3, <1>4, <1>5 DEF Bijection, Injection, Surjection, IsInjective
<1>. HIDE DEF k
<1>7. ExistsBijection(1..k, B)
  BY <1>6 DEF ExistsBijection
<1>8. Cardinality(B) = k
  BY <1>1, <1>7, FS_CountingElements
<1>. QED  BY <1>8 DEF B, k

\* A sorted sequence is the order of its members.
LEMMA OrderedUnique ==
    ASSUME NEW rows \in Table, NEW s \in Seq(Tasks), Sorted(rows, s)
    PROVE  Ordered(rows, Range(s)) = s
<1>. DEFINE S == Range(s)
            n == Len(s)
            o == Ordered(rows, S)
            m == Cardinality(S)
<1>1. /\ s \in [1..n -> S] /\ n \in Nat /\ S \in SUBSET Tasks
      /\ \A t \in S : \E i \in 1..n : s[i] = t
  BY DEF Range
<1>2. \A a, b \in 1..n : s[a] = s[b] => a = b
  <2>. SUFFICES ASSUME NEW a \in 1..n, NEW b \in 1..n, a < b
                PROVE  s[a] # s[b]
    OBVIOUS
  <2>1. Precedes(rows, s[a], s[b])
    BY DEF Sorted
  <2>. QED  BY <2>1, PrecedesOrders
<1>. HIDE DEF S, n
<1>3. ExistsBijection(1..n, S)
  <2>1. s \in Bijection(1..n, S)
    BY <1>1, <1>2 DEF Bijection, Injection, Surjection, IsInjective
  <2>. QED  BY <2>1 DEF ExistsBijection
<1>4. m = n
  BY <1>1, <1>3, FS_CountingElements
<1>5. /\ o \in [1..n -> S] /\ Sorted(rows, o)
      /\ \A t \in S : \E i \in 1..n : o[i] = t
  BY <1>1, <1>4, OrderedIs
<1>. HIDE DEF o, m
<1>6. ASSUME NEW i \in 1..n
      PROVE  o[i] = s[i]
  <2>1. PICK j \in 1..n : o[j] = s[i]
    BY <1>1, <1>5
  <2>2. Cardinality(Before(rows, S, s[i])) = i - 1
    BY <1>1, PlaceIs
  <2>3. Cardinality(Before(rows, S, o[j])) = j - 1
    BY <1>1, <1>5, PlaceIs
  <2>4. i = j
    BY <2>1, <2>2, <2>3
  <2>. QED  BY <2>1, <2>4
<1>7. o = s
  BY <1>1, <1>5, <1>6
<1>. QED  BY <1>7 DEF o, S

\* The quotient is the greatest number whose product fits.
LEMMA Quotient ==
    ASSUME NEW a \in Nat, NEW n \in Nat \ {0}
    PROVE  /\ a \div n \in Nat
           /\ n * (a \div n) <= a
           /\ a < n * (a \div n) + n
           /\ \A q \in Nat : n * q <= a => q <= a \div n
           /\ \A q \in Nat : a < n * q => a \div n < q
  OBVIOUS

\* Positions spread over at least as many numbers as there are differ.
LEMMA SpreadGrows ==
    ASSUME NEW m \in Nat, NEW n \in Nat \ {0}, n <= m,
           NEW i \in Nat, NEW j \in Nat, i < j
    PROVE  (m * i) \div n < (m * j) \div n
<1>. DEFINE a == m * i
            b == m * j
            q == a \div n
<1>1. a \in Nat /\ b \in Nat /\ a + m <= b
  OBVIOUS
<1>2. q \in Nat /\ n * q <= a
  BY <1>1, Quotient
<1>3. n * (q + 1) = n * q + n
  BY <1>2
<1>. HIDE DEF a, b, q
<1>4. n * (q + 1) <= b
  BY <1>1, <1>2, <1>3
<1>5. q + 1 <= b \div n
  BY <1>1, <1>2, <1>4, Quotient
<1>6. b \div n \in Nat
  BY <1>1, Quotient
<1>7. q < b \div n
  BY <1>2, <1>5, <1>6
<1>. QED  BY <1>7 DEF a, b, q


-----------------------------------------------------------------------------
(* Plans *)

\* Assign, with the positions as a function.
PlanOf(order, g) ==
    [t \in Tasks |-> IF t \in Range(order) THEN g[CHOOSE i \in DOMAIN order : order[i] = t]
                     ELSE Unwritten]

\* What it makes of an order without repetitions.
LEMMA AssignIs ==
    ASSUME NEW order \in Seq(Tasks),
           \A i, j \in DOMAIN order : order[i] = order[j] => i = j,
           NEW g \in [DOMAIN order -> Nat]
    PROVE  /\ PlanOf(order, g) \in [Tasks -> Nat \cup {Unwritten}]
           /\ \A i \in DOMAIN order : PlanOf(order, g)[order[i]] = g[i]
           /\ \A t \in Tasks \ Range(order) : PlanOf(order, g)[t] = Unwritten
<1>. DEFINE plan == PlanOf(order, g)
<1>1. ASSUME NEW i \in DOMAIN order
      PROVE  /\ order[i] \in Tasks /\ order[i] \in Range(order)
             /\ (CHOOSE j \in DOMAIN order : order[j] = order[i]) = i
  BY DEF Range
<1>2. \A i \in DOMAIN order : plan[order[i]] = g[i]
  BY <1>1 DEF PlanOf
<1>3. \A t \in Tasks \ Range(order) : plan[t] = Unwritten
  BY DEF PlanOf
<1>4. \A t \in Range(order) : \E i \in DOMAIN order : t = order[i]
  BY DEF Range
<1>5. \A t \in Tasks : plan[t] \in Nat \cup {Unwritten}
  BY <1>2, <1>3, <1>4
<1>. QED  BY <1>2, <1>3, <1>5 DEF PlanOf

\* What a plan made from the order of S has in common with every other.
Plan == [Tasks -> Nat \cup {Unwritten}]
\* A plan with a position of its own for every task of a set, and for no other.
PlanFor(plan, S) ==
    /\ plan \in Plan
    /\ \A t \in Tasks : plan[t] # Unwritten <=> t \in S
    /\ \A t, u \in S : t # u => plan[t] # plan[u]

\* The i-th of an order gets the i-th of growing numbers: a plan for its members.
LEMMA GrowingPlan ==
    ASSUME NEW rows \in Table, NEW S \in SUBSET Tasks,
           NEW g \in [1..Cardinality(S) -> Nat],
           \A i, j \in 1..Cardinality(S) : i < j => g[i] < g[j]
    PROVE  /\ PlanFor(PlanOf(Ordered(rows, S), g), S)
           /\ \A i \in 1..Cardinality(S) :
                 PlanOf(Ordered(rows, S), g)[Ordered(rows, S)[i]] = g[i]
           /\ \A t \in S : \E i \in 1..Cardinality(S) : PlanOf(Ordered(rows, S), g)[t] = g[i]
<1>. DEFINE plan == PlanOf(Ordered(rows, S), g)
            o == Ordered(rows, S)
            n == Cardinality(S)
<1>1. /\ o \in [1..n -> S] /\ o \in Seq(Tasks) /\ n \in Nat
      /\ \A i, j \in 1..n : o[i] = o[j] => i = j
      /\ \A t \in S : \E i \in 1..n : o[i] = t
  BY OrderedIs, FiniteTasks
<1>2. DOMAIN o = 1..n /\ Range(o) = S
  BY <1>1 DEF Range
<1>. HIDE DEF o
<1>3. plan = PlanOf(o, g)
  BY DEF o
<1>. HIDE DEF plan
<1>4. /\ plan \in Plan
      /\ \A i \in 1..n : plan[o[i]] = g[i]
      /\ \A t \in Tasks \ S : plan[t] = Unwritten
  <2>1. g \in [DOMAIN o -> Nat] /\ \A i, j \in DOMAIN o : o[i] = o[j] => i = j
    BY <1>1, <1>2
  <2>2. /\ plan \in [Tasks -> Nat \cup {Unwritten}]
        /\ \A i \in DOMAIN o : plan[o[i]] = g[i]
        /\ \A t \in Tasks \ Range(o) : plan[t] = Unwritten
    BY <1>1, <1>3, <2>1, AssignIs
  <2>. QED  BY <1>2, <2>2 DEF Plan
<1>. HIDE DEF n
<1>5. \A t \in S : \E i \in 1..n : plan[t] = g[i] /\ o[i] = t
  BY <1>1, <1>4
<1>6. \A t \in S : plan[t] # Unwritten
  BY <1>5, NamesAssumption DEF n
<1>7. ASSUME NEW t \in S, NEW u \in S, t # u
      PROVE  plan[t] # plan[u]
  <2>1. PICK i \in 1..n : plan[t] = g[i] /\ o[i] = t
    BY <1>5
  <2>2. PICK j \in 1..n : plan[u] = g[j] /\ o[j] = u
    BY <1>5
  <2>3. i # j
    BY <1>7, <2>1, <2>2
  <2>4. g[i] \in Nat /\ g[j] \in Nat /\ (g[i] < g[j] \/ g[j] < g[i])
    BY <1>1, <2>3 DEF n
  <2>. QED  BY <2>1, <2>2, <2>4
<1>. QED  BY <1>4, <1>5, <1>6, <1>7 DEF PlanFor, o, n, plan

\* The view has more positions than its tasks have pairs.
LEMMA Room ==
    /\ Cardinality(Tasks) \in Nat /\ MaxPosition \in Nat
    /\ Cardinality(Tasks) <= MaxPosition
    /\ \A n \in Nat \ {0} : n <= Cardinality(Tasks) =>
           Cardinality(Tasks) + 1 <= MaxPosition \div n
<1>. DEFINE c == Cardinality(Tasks)
<1>1. c \in Nat /\ MaxPosition \in Nat /\ c * (c + 1) <= MaxPosition
  BY RoomAssumption, BoundsAssumption, FiniteTasks
<1>. HIDE DEF c
<1>2. c <= c * (c + 1)
  BY <1>1
<1>3. ASSUME NEW n \in Nat \ {0}, n <= c
      PROVE  c + 1 <= MaxPosition \div n
  <2>1. n * (c + 1) <= c * (c + 1)
    BY <1>1, <1>3
  <2>2. n * (c + 1) <= MaxPosition /\ n * (c + 1) \in Nat /\ c * (c + 1) \in Nat
    BY <1>1, <2>1
  <2>. QED  BY <1>1, <2>2, Quotient
<1>. QED  BY <1>1, <1>2, <1>3 DEF c

\* The rows of a recalculation.
Spread(order) == Assign(order, LAMBDA i : (MaxPosition * i) \div Len(order))

\* They are as many as there are tasks, grow, and leave room for every task below.
LEMMA SpreadIs ==
    ASSUME NEW rows \in Table, NEW S \in SUBSET Tasks
    PROVE  /\ PlanFor(Spread(Ordered(rows, S)), S)
           /\ \A i \in 1..Cardinality(S) :
                 Spread(Ordered(rows, S))[Ordered(rows, S)[i]]
                     = (MaxPosition * i) \div Cardinality(S)
           /\ \A t \in S : Spread(Ordered(rows, S))[t] > Cardinality(Tasks)
<1>. DEFINE o == Ordered(rows, S)
            n == Cardinality(S)
            g == [i \in 1..n |-> (MaxPosition * i) \div n]
            plan == Spread(o)
<1>1. /\ o \in Seq(Tasks) /\ DOMAIN o = 1..n /\ Len(o) = n
      /\ n \in Nat /\ n <= Cardinality(Tasks)
      /\ \A t \in S : \E i \in 1..n : o[i] = t
  BY OrderedIs, FiniteTasks
<1>2. \A i \in 1..n : MaxPosition * i \in Nat /\ i \in Nat /\ i > 0
  BY <1>1, Room
<1>3. n = 0 \/ n \in Nat \ {0}
  BY <1>1
<1>. HIDE DEF n
<1>4. g \in [1..n -> Nat]
  <2>1. \A i \in 1..n : n \in Nat \ {0}
    BY <1>1, <1>3
  <2>. QED  BY <1>2, <2>1, Quotient
<1>5. ASSUME NEW i \in 1..n, NEW j \in 1..n, i < j
      PROVE  g[i] < g[j]
  <2>1. n \in Nat \ {0} /\ n <= MaxPosition
    BY <1>1, Room
  <2>. QED  BY <1>2, <1>5, <2>1, Room, SpreadGrows
<1>6. ASSUME NEW i \in 1..n
      PROVE  g[i] > Cardinality(Tasks)
  <2>1. n \in Nat \ {0} /\ n <= MaxPosition
    BY <1>1, Room
  <2>2. MaxPosition \div n >= Cardinality(Tasks) + 1 /\ MaxPosition \div n \in Nat
    BY <1>1, <2>1, Room, Quotient
  <2>3. g[i] >= MaxPosition \div n
    <3>1. CASE i = 1
      <4>1. MaxPosition * i = MaxPosition
        BY <3>1, Room
      <4>. QED  BY <2>2, <4>1
    <3>2. CASE 1 < i
      <4>1. (MaxPosition * 1) \div n < (MaxPosition * i) \div n
        BY <1>2, <2>1, <3>2, Room, SpreadGrows
      <4>2. MaxPosition * 1 = MaxPosition /\ g[i] \in Nat
        BY <1>4, Room
      <4>. QED  BY <2>2, <4>1, <4>2
    <3>. QED  BY <1>2, <3>1, <3>2
  <2>. QED  BY <1>4, <2>2, <2>3, Room
<1>7. \A i \in DOMAIN o : g[i] = (MaxPosition * i) \div Len(o)
  BY <1>1
<1>8. plan = PlanOf(o, g)
  <2>1. \A t \in Range(o) : (CHOOSE i \in DOMAIN o : o[i] = t) \in DOMAIN o
    BY DEF Range
  <2>. HIDE DEF o, g
  <2>. QED  BY <1>7, <2>1 DEF Assign, Spread, PlanOf
<1>9. /\ PlanFor(plan, S)
      /\ \A i \in 1..n : plan[o[i]] = g[i]
      /\ \A t \in S : \E i \in 1..n : plan[t] = g[i]
  <2>. HIDE DEF g, plan
  <2>1. g \in [1..Cardinality(S) -> Nat]
    BY <1>4 DEF n
  <2>2. \A i, j \in 1..Cardinality(S) : i < j => g[i] < g[j]
    BY <1>5 DEF n
  <2>. QED  BY <1>8, <2>1, <2>2, GrowingPlan DEF n
<1>. HIDE DEF plan, o
<1>10. \A t \in S : plan[t] > Cardinality(Tasks)
  <2>. HIDE DEF g
  <2>. QED  BY <1>6, <1>9
<1>11. \A i \in 1..n : plan[o[i]] = (MaxPosition * i) \div n
  BY <1>9
<1>. QED  BY <1>9, <1>10, <1>11 DEF plan, o, n

\* Tasks put between two positions with room for them.
Within(order, lower, upper) ==
    Assign(order, LAMBDA i : Between(lower, upper, i, Len(order)))

\* Evenly between two positions with room for them, they keep apart and within.
LEMMA WithinIs ==
    ASSUME NEW rows \in Table, NEW S \in SUBSET Tasks,
           NEW lower \in Nat, NEW upper \in Nat, lower + Cardinality(S) + 1 <= upper
    PROVE  /\ PlanFor(Within(Ordered(rows, S), lower, upper), S)
           /\ \A t \in S : /\ lower < Within(Ordered(rows, S), lower, upper)[t]
                           /\ Within(Ordered(rows, S), lower, upper)[t] < upper
           /\ \A t, u \in S : Precedes(rows, t, u)
                 => Within(Ordered(rows, S), lower, upper)[t]
                       < Within(Ordered(rows, S), lower, upper)[u]
<1>. DEFINE o == Ordered(rows, S)
            n == Cardinality(S)
            m == upper - lower
            k == n + 1
            g == [i \in 1..n |-> Between(lower, upper, i, n)]
            plan == Within(o, lower, upper)
<1>1. /\ o \in Seq(Tasks) /\ DOMAIN o = 1..n /\ Len(o) = n /\ n \in Nat
      /\ m \in Nat /\ k \in Nat \ {0} /\ k <= m
  BY OrderedIs, FiniteTasks
<1>. HIDE DEF n
<1>. DEFINE d(i) == (m * i) \div k
<1>2. \A i \in 0..k : d(i) \in Nat
  <2>. TAKE i \in 0..k
  <2>1. m * i \in Nat
    BY <1>1
  <2>. QED  BY <1>1, <2>1, Quotient
<1>3. \A i, j \in 0..k : i < j => d(i) < d(j)
  BY <1>1, SpreadGrows
<1>4. d(0) = 0 /\ d(k) = m
  <2>1. m * 0 = 0 /\ m * k \in Nat /\ k * m = m * k
    BY <1>1
  <2>2. d(k) >= m /\ d(k) \in Nat
    BY <1>1, <2>1, Quotient
  <2>3. m * k < k * (m + 1)
    BY <1>1
  <2>4. d(k) < m + 1
    BY <1>1, <2>1, <2>3, Quotient
  <2>5. d(0) = 0
    BY <1>1, <2>1
  <2>. QED  BY <1>1, <2>2, <2>4, <2>5
<1>. HIDE DEF d
<1>5. \A i \in 1..n : g[i] = lower + d(i) /\ 0 < d(i) /\ d(i) < m /\ d(i) \in Nat
  <2>. TAKE i \in 1..n
  <2>1. i \in 0..k /\ 0 \in 0..k /\ k \in 0..k /\ 0 < i /\ i < k
    BY <1>1
  <2>2. g[i] = lower + d(i)
    BY DEF Between, d
  <2>. QED  BY <1>2, <1>3, <1>4, <2>1, <2>2
<1>6. g \in [1..n -> Nat] /\ \A i \in 1..n : lower < g[i] /\ g[i] < upper
  <2>1. \A i \in 1..n : g[i] \in Nat /\ lower < g[i] /\ g[i] < upper
    BY <1>1, <1>5
  <2>. QED  BY <2>1
<1>7. \A i, j \in 1..n : i < j => g[i] < g[j]
  <2>. TAKE i \in 1..n, j \in 1..n
  <2>1. i \in 0..k /\ j \in 0..k
    BY <1>1
  <2>. QED  BY <1>3, <1>5, <2>1
<1>8. plan = PlanOf(o, g)
  <2>1. \A t \in Range(o) : (CHOOSE i \in DOMAIN o : o[i] = t) \in DOMAIN o
    BY DEF Range
  <2>2. \A i \in DOMAIN o : g[i] = Between(lower, upper, i, Len(o))
    BY <1>1
  <2>. HIDE DEF o, g
  <2>. QED  BY <2>1, <2>2 DEF Assign, Within, PlanOf
<1>9. /\ PlanFor(plan, S) /\ \A t \in S : \E i \in 1..n : plan[t] = g[i]
      /\ \A i \in 1..n : plan[o[i]] = g[i]
  <2>. HIDE DEF g, plan
  <2>1. g \in [1..Cardinality(S) -> Nat]
    BY <1>6 DEF n
  <2>2. \A i, j \in 1..Cardinality(S) : i < j => g[i] < g[j]
    BY <1>7 DEF n
  <2>. QED  BY <1>8, <2>1, <2>2, GrowingPlan DEF n
<1>10. Sorted(rows, o) /\ \A t \in S : \E i \in 1..n : o[i] = t
  BY OrderedIs DEF n
<1>. HIDE DEF plan, o, g
<1>11. \A t \in S : lower < plan[t] /\ plan[t] < upper
  BY <1>6, <1>9
<1>12. ASSUME NEW t \in S, NEW u \in S, Precedes(rows, t, u)
       PROVE  plan[t] < plan[u]
  <2>1. PICK i \in 1..n : o[i] = t
    BY <1>10
  <2>2. PICK j \in 1..n : o[j] = u
    BY <1>10
  <2>3. ~Precedes(rows, u, t) /\ t # u
    BY <1>12, PrecedesOrders
  <2>4. ~(j < i) /\ i # j
    BY <1>1, <1>10, <2>1, <2>2, <2>3 DEF Sorted
  <2>5. i < j
    BY <1>1, <2>4
  <2>. QED  BY <1>7, <1>9, <2>1, <2>2, <2>5
<1>. QED  BY <1>9, <1>11, <1>12 DEF plan, o

\* The default positions of an empty view.
Defaults(order) == Assign(order, LAMBDA i : i * Gap)

\* They keep apart as well.
LEMMA DefaultsIs ==
    ASSUME NEW rows \in Table, NEW S \in SUBSET Tasks
    PROVE  PlanFor(Defaults(Ordered(rows, S)), S)
<1>. DEFINE o == Ordered(rows, S)
            n == Cardinality(S)
            g == [i \in 1..n |-> i * Gap]
            plan == Defaults(o)
<1>1. /\ o \in Seq(Tasks) /\ DOMAIN o = 1..n /\ n \in Nat
      /\ Gap \in Nat \ {0}
  BY OrderedIs, FiniteTasks, BoundsAssumption
<1>. HIDE DEF n
<1>2. g \in [1..n -> Nat]
  BY <1>1
<1>3. \A i, j \in 1..n : i < j => g[i] < g[j]
  BY <1>1
<1>4. plan = PlanOf(o, g)
  <2>1. \A t \in Range(o) : (CHOOSE i \in DOMAIN o : o[i] = t) \in DOMAIN o
    BY DEF Range
  <2>2. \A i \in DOMAIN o : g[i] = i * Gap
    BY <1>1
  <2>. HIDE DEF o, g
  <2>. QED  BY <2>1, <2>2 DEF Assign, Defaults, PlanOf
<1>5. PlanFor(plan, S)
  <2>. HIDE DEF g, plan
  <2>1. g \in [1..Cardinality(S) -> Nat]
    BY <1>2 DEF n
  <2>2. \A i, j \in 1..Cardinality(S) : i < j => g[i] < g[j]
    BY <1>3 DEF n
  <2>. QED  BY <1>4, <2>1, <2>2, GrowingPlan DEF n
<1>. QED  BY <1>5

\* A view without rows, whose order is that of the ids.
NoRows == [t \in Tasks |-> NoPosition]

\* It is one of the tables a view may have.
LEMMA NoRowsIs == NoRows \in Table
  BY DEF NoRows, Table

\* The positions in use.
Taken(rows) == {rows[t] : t \in Placed(rows)}

\* The least position in use is below every row.
LEMMA TakenIs ==
    ASSUME NEW rows \in Table
    PROVE  /\ Taken(rows) \in SUBSET Nat
           /\ \A t \in Placed(rows) : rows[t] \in Taken(rows)
           /\ Taken(rows) # {} => Least(Taken(rows)) \in Nat
           /\ \A t \in Placed(rows) : Least(Taken(rows)) <= rows[t]
<1>1. Taken(rows) \in SUBSET Nat /\ \A t \in Placed(rows) : rows[t] \in Taken(rows)
  BY DEF Taken, Placed, Table
<1>2. CASE Taken(rows) = {}
  BY <1>1, <1>2
<1>3. CASE Taken(rows) # {}
  <2>1. Least(Taken(rows)) \in Taken(rows) /\ \A m \in Taken(rows) : Least(Taken(rows)) <= m
    BY <1>1, <1>3, LeastIs
  <2>. QED  BY <1>1, <2>1
<1>. QED  BY <1>2, <1>3

\* On top of a view with room, new tasks are apart from each other and from the rest.
LEMMA OnTopIs ==
    ASSUME NEW w \in Requests, NEW rows \in Table, tx[w].heal \in SUBSET Tasks,
           Taken(rows) = {} \/ Cardinality(tx[w].heal) + 1 <= Least(Taken(rows))
    PROVE  /\ PlanFor(OnTop(w, rows), tx[w].heal)
           /\ \A t \in tx[w].heal : \A u \in Placed(rows) : OnTop(w, rows)[t] # rows[u]
<1>. DEFINE S == tx[w].heal
            o == Ordered(NoRows, S)
<1>1. o = ById(S) /\ o \in Seq(Tasks)
  BY NoRowsIs, OrderedIs DEF ById, NoRows
<1>2. CASE Taken(rows) = {}
  <2>1. OnTop(w, rows) = Defaults(o)
    BY <1>1, <1>2, Zenon DEF OnTop, Taken, Defaults
  <2>2. PlanFor(Defaults(o), S)
    BY NoRowsIs, DefaultsIs
  <2>3. Placed(rows) = {}
    BY <1>2, TakenIs
  <2>. QED  BY <2>1, <2>2, <2>3
<1>3. CASE Taken(rows) # {}
  <2>. DEFINE upper == Least(Taken(rows))
  <2>1. OnTop(w, rows) = Within(o, 0, upper)
    <3>1. OnTop(w, rows) = Within(ById(S), 0, Least(Taken(rows)))
      BY <1>3, Zenon DEF OnTop, Taken, Within
    <3>. QED  BY <1>1, <3>1
  <2>2. upper \in Nat /\ Cardinality(S) \in Nat /\ 0 + Cardinality(S) + 1 <= upper
    BY <1>3, TakenIs, FiniteTasks
  <2>3. \A u \in Placed(rows) : upper <= rows[u] /\ rows[u] \in Nat
    BY TakenIs DEF Placed, Table
  <2>. HIDE DEF upper
  <2>4. /\ PlanFor(Within(o, 0, upper), S)
        /\ \A t \in S : 0 < Within(o, 0, upper)[t] /\ Within(o, 0, upper)[t] < upper
    BY <2>2, NoRowsIs, WithinIs
  <2>5. \A t \in S : Within(o, 0, upper)[t] \in Nat
    BY <2>4 DEF PlanFor, Plan
  <2>. HIDE DEF o
  <2>. QED  BY <2>1, <2>2, <2>3, <2>4, <2>5
<1>. QED  BY <1>2, <1>3

-----------------------------------------------------------------------------
(* Types *)

\* What the page shows of a task.
Entry == [task : Tasks, position : Nat]

\* What a transaction reads are rows.
LEMMA RowsIs ==
    ASSUME TypeOK, NEW w \in Requests
    PROVE  Rows(w) \in Table
<1>1. tx[w].wrote \in [Tasks -> Nat \cup {NoPosition, Unwritten}] /\ pos \in Table
  BY DEF TypeOK, Transaction
<1>. QED  BY <1>1 DEF Rows, Table

\* A load shows tasks that match the filter.
LEMMA LoadedIs ==
    ASSUME NEW rows \in Table, matching \subseteq Tasks
    PROVE  /\ Loaded(rows) \in Seq(Entry)
           /\ \A i \in DOMAIN Loaded(rows) : Loaded(rows)[i].task \in matching
<1>. DEFINE o == Ordered(rows, matching)
            n == Cardinality(matching)
            l == Loaded(rows)
<1>1. o \in [1..n -> matching] /\ n \in Nat
  BY OrderedIs, FiniteTasks
<1>. HIDE DEF o, n
<1>2. l = [i \in 1..n |-> [task |-> o[i],
                           position |-> IF rows[o[i]] = NoPosition THEN 0 ELSE rows[o[i]]]]
  BY <1>1 DEF Loaded, o
<1>3. ASSUME NEW i \in 1..n
      PROVE  l[i] \in Entry /\ l[i].task \in matching
  <2>1. o[i] \in matching /\ rows[o[i]] \in Nat \cup {NoPosition}
    BY <1>1 DEF Table
  <2>. QED  BY <1>2, <2>1 DEF Entry
<1>. HIDE DEF l
<1>4. l \in Seq(Entry)
  BY <1>1, <1>2, <1>3
<1>. QED  BY <1>2, <1>3, <1>4 DEF l

\* A drag takes one entry out of the list and puts it back elsewhere.
LEMMA MovedIs ==
    ASSUME NEW E, NEW list \in Seq(E), NEW i \in DOMAIN list, NEW j \in DOMAIN list
    PROVE  /\ Moved(list, i, j) \in Seq(E)
           /\ Len(Moved(list, i, j)) = Len(list)
           /\ Moved(list, i, j)[j] = list[i]
           /\ \A k \in 1..Len(list) :
                 /\ k < j => Moved(list, i, j)[k] = list[IF k < i THEN k ELSE k + 1]
                 /\ k > j => Moved(list, i, j)[k] = list[IF k <= i THEN k - 1 ELSE k]
<1>. DEFINE n == Len(list)
            a == SubSeq(list, 1, i - 1)
            b == SubSeq(list, i + 1, n)
            r == RemoveAt(list, i)
            c == SubSeq(r, 1, j - 1)
            d == SubSeq(r, j, Len(r))
            m == Moved(list, i, j)
<1>1. n \in Nat /\ i \in 1..n /\ j \in 1..n
  OBVIOUS
<1>2. /\ a \in Seq(E) /\ Len(a) = i - 1 /\ \A k \in 1..(i - 1) : a[k] = list[k]
      /\ b \in Seq(E) /\ Len(b) = n - i /\ \A k \in 1..(n - i) : b[k] = list[i + k]
  OBVIOUS
<1>3. r = a \o b
  BY DEF RemoveAt
<1>. HIDE DEF a, b
<1>4. r \in Seq(E) /\ Len(r) = n - 1
  BY <1>1, <1>2, <1>3
<1>5. \A k \in 1..(n - 1) : r[k] = list[IF k < i THEN k ELSE k + 1]
  <2>. TAKE k \in 1..(n - 1)
  <2>1. CASE k < i
    BY <1>1, <1>2, <1>3, <2>1
  <2>2. CASE k >= i
    <3>1. r[k] = b[k - (i - 1)] /\ k - (i - 1) \in 1..(n - i)
      BY <1>1, <1>2, <1>3, <2>2
    <3>2. b[k - (i - 1)] = list[i + (k - (i - 1))] /\ i + (k - (i - 1)) = k + 1
      BY <1>1, <1>2, <3>1
    <3>. QED  BY <1>1, <2>2, <3>1, <3>2
  <2>. QED  BY <1>1, <2>1, <2>2
<1>. HIDE DEF r
<1>6. /\ c \in Seq(E) /\ Len(c) = j - 1 /\ \A k \in 1..(j - 1) : c[k] = r[k]
      /\ d \in Seq(E) /\ Len(d) = n - j /\ \A k \in 1..(n - j) : d[k] = r[j - 1 + k]
  BY <1>1, <1>4
<1>7. m = c \o <<list[i]>> \o d
  BY DEF Moved, InsertAt, r
<1>. HIDE DEF c, d
<1>8. list[i] \in E
  OBVIOUS
<1>. DEFINE e == c \o <<list[i]>>
<1>9. e \in Seq(E) /\ Len(e) = j /\ e[j] = list[i] /\ \A k \in 1..(j - 1) : e[k] = r[k]
  BY <1>1, <1>6, <1>8
<1>10. m = e \o d
  BY <1>7
<1>. HIDE DEF e, m
<1>11. m \in Seq(E) /\ Len(m) = n /\ m[j] = list[i]
  BY <1>1, <1>6, <1>9, <1>10
<1>12. ASSUME NEW k \in 1..n, k < j
       PROVE  m[k] = list[IF k < i THEN k ELSE k + 1]
  <2>1. m[k] = r[k]
    BY <1>1, <1>6, <1>9, <1>10, <1>12
  <2>. QED  BY <1>1, <1>5, <1>12, <2>1
<1>13. ASSUME NEW k \in 1..n, k > j
       PROVE  m[k] = list[IF k <= i THEN k - 1 ELSE k]
  <2>1. m[k] = d[k - j] /\ k - j \in 1..(n - j)
    BY <1>1, <1>6, <1>9, <1>10, <1>13
  <2>2. d[k - j] = r[j - 1 + (k - j)] /\ j - 1 + (k - j) = k - 1 /\ k - 1 \in 1..(n - 1)
    BY <1>1, <1>6, <2>1
  <2>3. r[k - 1] = list[IF k - 1 < i THEN k - 1 ELSE k - 1 + 1]
    BY <1>5, <2>2
  <2>4. (k - 1 < i <=> k <= i) /\ k - 1 + 1 = k
    BY <1>1
  <2>. QED  BY <2>1, <2>2, <2>3, <2>4
<1>. QED  BY <1>11, <1>12, <1>13 DEF m

\* The page calculates a position from whatever neighbours it shows.
LEMMA CalculatedIs ==
    ASSUME NEW before \in Nat \cup {NoPosition}, NEW after \in Nat \cup {NoPosition}
    PROVE  calculateItemPosition(before, after) \in Nat
<1>. USE NamesAssumption, BoundsAssumption
<1>1. CASE before = NoPosition \/ after = NoPosition
  BY <1>1 DEF calculateItemPosition
<1>2. CASE before \in Nat /\ after \in Nat
  <2>1. before # NoPosition /\ after # NoPosition
    BY <1>2
  <2>2. CASE before = after
    BY <1>2, <2>1, <2>2 DEF calculateItemPosition
  <2>3. CASE after > before
    <3>1. calculateItemPosition(before, after) = before + (after - before) \div 2
      BY <1>2, <2>1, <2>3 DEF calculateItemPosition
    <3>. QED  BY <1>2, <2>3, <3>1
  <2>4. CASE after < before
    <3>1. calculateItemPosition(before, after) = before - (before - after) \div 2
      BY <1>2, <2>1, <2>4 DEF calculateItemPosition
    <3>. QED  BY <1>2, <2>4, <3>1
  <2>. QED  BY <1>2, <2>2, <2>3, <2>4
<1>. QED  BY <1>1, <1>2

\* A request that is not under way is a transaction without an operation.
LEMMA IdleIs == Idle \in Transaction /\ Idle.op = "none" /\ Idle.step = "none"
<1>1. <<>> \in Seq(Tasks) /\ Untouched \in [Tasks -> Nat \cup {NoPosition, Unwritten}]
      /\ Untouched \in [Tasks -> Nat \cup {Unwritten}] /\ 0 \in Nat
  BY DEF Untouched
<1>. QED  BY <1>1 DEF Idle, Transaction

\* It has no drag to keep clean.
LEMMA IdleUnclean == [Idle EXCEPT !.clean = FALSE] = Idle
<1>1. Idle.clean = FALSE
  BY DEF Idle
<1>2. [Idle EXCEPT !.clean = FALSE] \in Transaction
  BY IdleIs DEF Transaction
<1>. QED  BY <1>1, <1>2, IdleIs, SMTT(30) DEF Transaction

\* The initial rows, spread over the view, have the types.
LEMMA InitTypes == Init => TypeOK
<1>. SUFFICES ASSUME Init
              PROVE  TypeOK
  OBVIOUS
<1>. DEFINE S == FirstTasks
            plan == Spread(ById(S))
<1>1. S \in SUBSET Tasks
  BY TasksAssumption
<1>2. PlanFor(plan, S)
  BY <1>1, NoRowsIs, SpreadIs DEF ById, NoRows
<1>3. pos = [t \in Tasks |-> IF t \in S THEN plan[t] ELSE NoPosition]
  BY Zenon DEF Init, Spread
<1>. HIDE DEF plan
<1>4. pos \in Table
  BY <1>1, <1>2, <1>3 DEF PlanFor, Plan, Table
<1>5. shown \in Seq(Entry)
  BY <1>1, <1>4, LoadedIs DEF Init
<1>6. tx \in [Requests -> Transaction] /\ \A w \in Requests : tx[w] = Idle /\ tx[w].op = "none"
  BY IdleIs DEF Init
<1>7. /\ matching \subseteq Tasks /\ viewLock \in Requests \cup {Nobody}
      /\ requests \in Nat /\ contended \in BOOLEAN
  BY <1>1 DEF Init
<1>. QED  BY <1>4, <1>5, <1>6, <1>7 DEF TypeOK, Entry

\* A statement of a transaction keeps the types, if it makes a transaction of one.
LEMMA StepTypes ==
    ASSUME TypeOK, NEW w \in Requests, NEW record \in Transaction,
           record.op = tx[w].op, record.task = tx[w].task,
           tx[w].step # "none", record.step # "none", Step(w, record)
    PROVE  TypeOK'
<1>1. /\ tx' = [tx EXCEPT ![w] = record]
      /\ UNCHANGED <<matching, pos, viewLock, shown, requests, contended>>
  BY DEF Step
<1>2. tx' \in [Requests -> Transaction]
  BY <1>1 DEF TypeOK
<1>3. \A v \in Requests : tx'[v].op = "drag" => tx'[v].task \in Tasks
  BY <1>1 DEF TypeOK
<1>4. \A v \in Requests : tx'[v].op = "none" \/ tx'[v].step = "none" => tx'[v] = Idle
  BY <1>1, IdleIs DEF TypeOK
<1>. QED  BY <1>1, <1>2, <1>3, <1>4 DEF TypeOK, Table

\* A transaction that is undone keeps the types.
LEMMA RollBackTypes ==
    ASSUME TypeOK, NEW w \in Requests, RollBack(w)
    PROVE  TypeOK'
<1>1. tx' = [tx EXCEPT ![w] = Idle] /\ UNCHANGED <<matching, pos, shown, requests, contended>>
  BY DEF RollBack
<1>2. tx' \in [Requests -> Transaction]
  BY <1>1, IdleIs DEF TypeOK
<1>3. \A v \in Requests : tx'[v].op = "drag" => tx'[v].task \in Tasks
  BY <1>1, IdleIs DEF TypeOK
<1>4. viewLock' \in Requests \cup {Nobody}
  BY DEF RollBack, Release, TypeOK
<1>5. \A v \in Requests : tx'[v].op = "none" \/ tx'[v].step = "none" => tx'[v] = Idle
  BY <1>1 DEF TypeOK
<1>. QED  BY <1>1, <1>2, <1>3, <1>4, <1>5 DEF TypeOK, Table

\* So does a request that begins.
LEMMA BeginTypes ==
    ASSUME TypeOK, NEW w \in Requests, NEW record \in Transaction,
           record.op # "none", record.step # "none",
           record.op = "drag" => record.task \in Tasks, Begin(w, record),
           UNCHANGED <<matching, pos, viewLock>>, shown' \in Seq(Entry)
    PROVE  TypeOK'
<1>1. tx' = [v \in Requests |-> IF v = w THEN record ELSE [tx[v] EXCEPT !.clean = FALSE]]
  BY DEF Begin
<1>2. \A v \in Requests : /\ [tx[v] EXCEPT !.clean = FALSE] \in Transaction
                          /\ [tx[v] EXCEPT !.clean = FALSE].op = tx[v].op
                          /\ [tx[v] EXCEPT !.clean = FALSE].task = tx[v].task
                          /\ [tx[v] EXCEPT !.clean = FALSE].step = tx[v].step
  BY DEF TypeOK, Transaction
<1>3. tx' \in [Requests -> Transaction]
  BY <1>1, <1>2
<1>4. \A v \in Requests : tx'[v].op = "drag" => tx'[v].task \in Tasks
  BY <1>1, <1>2 DEF TypeOK
<1>5. requests' \in Nat /\ contended' \in BOOLEAN
  BY DEF Begin, TypeOK
<1>6. [Idle EXCEPT !.clean = FALSE] = Idle
  BY IdleUnclean
<1>7. ASSUME NEW v \in Requests, tx'[v].op = "none" \/ tx'[v].step = "none"
      PROVE  tx'[v] = Idle
  <2>1. v # w /\ tx'[v] = [tx[v] EXCEPT !.clean = FALSE]
    BY <1>1, <1>7
  <2>2. tx[v] = Idle
    BY <1>2, <1>7, <2>1 DEF TypeOK
  <2>. QED  BY <1>6, <2>1, <2>2
<1>. QED  BY <1>3, <1>4, <1>5, <1>7 DEF TypeOK, Table, Entry

\* What a drag begins with.
DragRecord(i, j, at) ==
    [Idle EXCEPT !.op = "drag", !.step = FirstStep(at), !.task = shown[i].task,
                 !.to = j, !.at = at, !.want = Ids(Moved(shown, i, j)),
                 !.clean = /\ \A v \in Requests : tx[v] = Idle
                           /\ Shows(pos) /\ Distinct(pos)]

\* A drag moves an entry of the page and begins with the position calculated there.
LEMMA DragIs ==
    ASSUME TypeOK, NEW w \in Requests, Drag(w)
    PROVE  \E i, j \in DOMAIN shown, at \in Nat :
              /\ at = calculateItemPosition(At(Moved(shown, i, j), j - 1),
                                            At(Moved(shown, i, j), j + 1))
              /\ shown' = Moved(shown, i, j) /\ shown' \in Seq(Entry)
              /\ Begin(w, DragRecord(i, j, at))
              /\ DragRecord(i, j, at) \in Transaction
              /\ DragRecord(i, j, at).op = "drag"
              /\ DragRecord(i, j, at).task = shown[i].task /\ shown[i].task \in Tasks
              /\ DragRecord(i, j, at).at = at
              /\ DragRecord(i, j, at).want = Ids(shown')
<1>. DEFINE neighbour(i, j) == calculateItemPosition(At(Moved(shown, i, j), j - 1),
                                                     At(Moved(shown, i, j), j + 1))
<1>1. PICK i \in DOMAIN shown, j \in DOMAIN shown :
         /\ shown' = Moved(shown, i, j)
         /\ Begin(w, DragRecord(i, j, neighbour(i, j)))
  BY Zenon DEF Drag, DragRecord
<1>. DEFINE at == neighbour(i, j)
            list == Moved(shown, i, j)
<1>0. shown \in Seq(Entry)
  BY DEF TypeOK, Entry
<1>2. list \in Seq(Entry)
  BY <1>0, MovedIs
<1>3. \A k \in Nat : At(list, k) \in Nat \cup {NoPosition}
  <2>. TAKE k \in Nat
  <2>1. CASE k \in DOMAIN list
    <3>1. list[k] \in Entry
      BY <1>2, <2>1
    <3>. QED  BY <2>1, <3>1 DEF At, Entry
  <2>2. CASE k \notin DOMAIN list
    BY <2>2, Zenon DEF At
  <2>. QED  BY <2>1, <2>2
<1>4. j - 1 \in Nat /\ j + 1 \in Nat /\ j \in Nat
  BY <1>0
<1>5. at \in Nat
  <2>1. /\ At(list, j - 1) \in Nat \cup {NoPosition}
        /\ At(list, j + 1) \in Nat \cup {NoPosition}
    BY <1>3, <1>4
  <2>. QED  BY <2>1, CalculatedIs
<1>6. shown[i].task \in Tasks
  <2>1. shown[i] \in Entry
    BY <1>0
  <2>. QED  BY <2>1 DEF Entry
<1>7. Ids(list) \in Seq(Tasks)
  <2>1. \A k \in DOMAIN list : list[k].task \in Tasks
    <3>. TAKE k \in DOMAIN list
    <3>1. list[k] \in Entry
      BY <1>2
    <3>. QED  BY <3>1 DEF Entry
  <2>2. DOMAIN list = 1..Len(list) /\ Len(list) \in Nat
    BY <1>2
  <2>. HIDE DEF list
  <2>. QED  BY <2>1, <2>2 DEF Ids
<1>. HIDE DEF at, list
<1>8. DragRecord(i, j, at) \in Transaction
  <2>1. DragRecord(i, j, at).clean \in BOOLEAN
    BY DEF DragRecord, Idle
  <2>2. j \in Nat /\ FirstStep(at) \in {"lock", "upsert"} /\ shown[i].task \in Nat
    BY <1>4, <1>6, TasksAssumption DEF FirstStep
  <2>. DEFINE c == /\ \A v \in Requests : tx[v] = Idle
                   /\ Shows(pos) /\ Distinct(pos)
  <2>3. c \in BOOLEAN /\ DragRecord(i, j, at) =
           [Idle EXCEPT !.op = "drag", !.step = FirstStep(at), !.task = shown[i].task,
                        !.to = j, !.at = at, !.want = Ids(list), !.clean = c]
    BY Zenon DEF DragRecord, list
  <2>. HIDE DEF c
  <2>. QED  BY <1>5, <1>7, <2>2, <2>3, IdleIs DEF Transaction
<1>9. /\ DragRecord(i, j, at).op = "drag" /\ DragRecord(i, j, at).at = at
      /\ DragRecord(i, j, at).task = shown[i].task
      /\ DragRecord(i, j, at).want = Ids(list)
  BY Zenon DEF DragRecord, Idle, list
<1>. QED  BY <1>1, <1>2, <1>5, <1>6, <1>8, <1>9 DEF at, list

\* The neighbours of a position, if there is room between them.
Lower(w) == Greatest({0} \cup {n \in Taken(Rows(w)) : n < tx[w].at})
Above(w) == {n \in Taken(Rows(w)) : n > tx[w].at}
Upper(w) == IF Above(w) = {} THEN MaxPosition ELSE Least(Above(w))

\* A set of numbers with a bound that has a member has a greatest one.
LEMMA GreatestIs ==
    ASSUME NEW S \in SUBSET Nat, S # {}, NEW b \in Nat, \A m \in S : m <= b
    PROVE  Greatest(S) \in S /\ \A m \in S : m <= Greatest(S)
<1>. DEFINE U == {n \in Nat : \A m \in S : m <= n}
<1>1. U \in SUBSET Nat /\ b \in U
  OBVIOUS
<1>. DEFINE g == Least(U)
<1>2. g \in U /\ \A n \in U : g <= n
  <2>. HIDE DEF U
  <2>. QED  BY <1>1, LeastIs
<1>. HIDE DEF g
<1>3. g \in S
  <2>. SUFFICES ASSUME g \notin S
                PROVE  FALSE
    OBVIOUS
  <2>1. \A m \in S : m \in Nat /\ m <= g /\ m # g
    BY <1>2
  <2>2. g > 0 /\ g \in Nat
    <3>1. PICK m \in S : TRUE
      OBVIOUS
    <3>. QED  BY <1>2, <2>1, <3>1
  <2>3. g - 1 \in U
    BY <2>1, <2>2
  <2>. QED  BY <1>2, <2>2, <2>3
<1>4. \E n \in S : \A m \in S : n >= m
  BY <1>2, <1>3
<1>5. Greatest(S) \in S /\ \A m \in S : Greatest(S) >= m
  BY <1>4, Zenon DEF Greatest
<1>. QED  BY <1>5

\* No row lies between the neighbours and the position in conflict, and with room for
\* them the tasks in conflict are put between.
LEMMA NeighboursIs ==
    ASSUME TypeOK, NEW w \in Requests
    PROVE  /\ Lower(w) \in Nat /\ Upper(w) \in Nat
           /\ \A n \in Taken(Rows(w)) : n < tx[w].at => n <= Lower(w)
           /\ \A n \in Taken(Rows(w)) : n > tx[w].at => n >= Upper(w)
           /\ Len(ById(tx[w].todo)) = Cardinality(tx[w].todo)
           /\ ~(Upper(w) < Lower(w) + MinSpacing * (Len(ById(tx[w].todo)) + 1)) =>
                 /\ PlanFor(Within(ById(tx[w].todo), Lower(w), Upper(w)), tx[w].todo)
                 /\ \A t \in tx[w].todo :
                       /\ Lower(w) < Within(ById(tx[w].todo), Lower(w), Upper(w))[t]
                       /\ Within(ById(tx[w].todo), Lower(w), Upper(w))[t] < Upper(w)
                 /\ \A t, u \in tx[w].todo : t < u
                       => Within(ById(tx[w].todo), Lower(w), Upper(w))[t]
                             < Within(ById(tx[w].todo), Lower(w), Upper(w))[u]
<1>. DEFINE x == tx[w]
            T == Taken(Rows(w))
            o == Ordered(NoRows, x.todo)
            n == Cardinality(x.todo)
<1>1. x.at \in Nat /\ x.todo \in SUBSET Tasks /\ T \in SUBSET Nat
  BY RowsIs, TakenIs DEF TypeOK, Transaction
<1>2. Lower(w) \in Nat /\ \A m \in T : m < x.at => m <= Lower(w)
  <2>. DEFINE S == {0} \cup {m \in T : m < x.at}
  <2>1. S \in SUBSET Nat /\ S # {} /\ \A m \in S : m <= x.at
    BY <1>1
  <2>2. Greatest(S) \in S /\ \A m \in S : m <= Greatest(S)
    <3>. HIDE DEF S
    <3>. QED  BY <1>1, <2>1, GreatestIs
  <2>. QED  BY <2>1, <2>2 DEF Lower
<1>3. Upper(w) \in Nat /\ \A m \in T : m > x.at => m >= Upper(w)
  <2>1. Above(w) \in SUBSET Nat /\ \A m \in T : m > x.at <=> m \in Above(w)
    BY <1>1 DEF Above
  <2>2. CASE Above(w) = {}
    BY <2>1, <2>2, BoundsAssumption DEF Upper
  <2>3. CASE Above(w) # {}
    <3>1. Least(Above(w)) \in Above(w) /\ \A m \in Above(w) : Least(Above(w)) <= m
      BY <2>1, <2>3, LeastIs
    <3>. QED  BY <2>1, <2>3, <3>1 DEF Upper
  <2>. QED  BY <2>2, <2>3
<1>4. o = ById(x.todo) /\ Len(o) = n /\ n \in Nat
  BY <1>1, NoRowsIs, OrderedIs, FiniteTasks DEF ById, NoRows
<1>5. ASSUME ~(Upper(w) < Lower(w) + MinSpacing * (n + 1))
      PROVE  Lower(w) + n + 1 <= Upper(w)
  <2>1. MinSpacing * (n + 1) >= n + 1 /\ MinSpacing * (n + 1) \in Nat
    BY <1>4, BoundsAssumption
  <2>. QED  BY <1>2, <1>3, <1>4, <1>5, <2>1
<1>. HIDE DEF T
<1>6. ASSUME ~(Upper(w) < Lower(w) + MinSpacing * (n + 1))
      PROVE  /\ PlanFor(Within(o, Lower(w), Upper(w)), x.todo)
             /\ \A t \in x.todo : /\ Lower(w) < Within(o, Lower(w), Upper(w))[t]
                                  /\ Within(o, Lower(w), Upper(w))[t] < Upper(w)
             /\ \A t, u \in x.todo : t < u
                   => Within(o, Lower(w), Upper(w))[t] < Within(o, Lower(w), Upper(w))[u]
  <2>1. \A t, u \in x.todo : t < u => Precedes(NoRows, t, u)
    BY <1>1 DEF Precedes, NoRows
  <2>. QED  BY <1>1, <1>2, <1>3, <1>5, <1>6, <2>1, NoRowsIs, WithinIs
<1>. HIDE DEF o
<1>. QED  BY <1>2, <1>3, <1>4, <1>6 DEF T

\* Whatever room there is, the positions on top of a view are positions.
LEMMA OnTopTypes ==
    ASSUME NEW w \in Requests, NEW rows \in Table, tx[w].heal \in SUBSET Tasks
    PROVE  OnTop(w, rows) \in Plan /\ \A t \in tx[w].heal : OnTop(w, rows)[t] # Unwritten
<1>. DEFINE S == tx[w].heal
            o == ById(S)
            upper == Least(Taken(rows))
            g == [i \in DOMAIN o |-> Between(0, upper, i, Len(o))]
<1>1. CASE Taken(rows) = {}
  BY <1>1, OnTopIs DEF PlanFor
<1>2. CASE Taken(rows) # {}
  <2>1. /\ o \in Seq(Tasks) /\ DOMAIN o = 1..Len(o) /\ Len(o) \in Nat
        /\ \A i, j \in DOMAIN o : o[i] = o[j] => i = j
    <3>1. o = Ordered(NoRows, S)
      BY DEF ById, NoRows
    <3>2. /\ Ordered(NoRows, S) \in Seq(Tasks)
          /\ Len(Ordered(NoRows, S)) = Cardinality(S)
          /\ \A i, j \in 1..Cardinality(S) :
                Ordered(NoRows, S)[i] = Ordered(NoRows, S)[j] => i = j
      BY NoRowsIs, OrderedIs
    <3>. HIDE DEF o, S
    <3>. QED  BY <3>1, <3>2
  <2>2. upper \in Nat
    BY <1>2, TakenIs
  <2>3. OnTop(w, rows) = Within(o, 0, upper)
    BY <1>2, Zenon DEF OnTop, Taken, Within
  <2>4. Within(o, 0, upper) = PlanOf(o, g)
    <3>1. \A t \in Range(o) : (CHOOSE i \in DOMAIN o : o[i] = t) \in DOMAIN o
      BY DEF Range
    <3>2. \A i \in DOMAIN o : g[i] = Between(0, upper, i, Len(o))
      OBVIOUS
    <3>. HIDE DEF o, g, upper
    <3>. QED  BY <3>1, <3>2 DEF Assign, Within, PlanOf
  <2>5. g \in [DOMAIN o -> Nat]
    <3>. HIDE DEF o, upper
    <3>1. ASSUME NEW i \in DOMAIN o
          PROVE  Between(0, upper, i, Len(o)) \in Nat
      <4>1. (upper - 0) * i \in Nat /\ Len(o) + 1 \in Nat \ {0}
        BY <2>1, <2>2
      <4>2. ((upper - 0) * i) \div (Len(o) + 1) \in Nat
        BY <4>1, Quotient
      <4>. QED  BY <4>2 DEF Between
    <3>. QED  BY <3>1
  <2>6. \A t \in S : \E i \in DOMAIN o : o[i] = t
    <3>1. o = Ordered(NoRows, S)
      BY DEF ById, NoRows
    <3>2. \A t \in S : \E i \in 1..Cardinality(S) : Ordered(NoRows, S)[i] = t
      BY NoRowsIs, OrderedIs
    <3>3. DOMAIN Ordered(NoRows, S) = 1..Cardinality(S)
      BY NoRowsIs, OrderedIs
    <3>. HIDE DEF o, S
    <3>. QED  BY <3>1, <3>2, <3>3
  <2>. HIDE DEF o, g
  <2>7. PlanOf(o, g) \in Plan /\ \A i \in DOMAIN o : PlanOf(o, g)[o[i]] = g[i]
    BY <2>1, <2>5, AssignIs DEF Plan
  <2>8. \A t \in S : PlanOf(o, g)[t] # Unwritten
    BY <2>5, <2>6, <2>7, NamesAssumption
  <2>. QED  BY <2>3, <2>4, <2>7, <2>8
<1>. QED  BY <1>1, <1>2

\* The next row to write is one that is planned.
LEMMA NextRowIs ==
    ASSUME TypeOK, NEW w \in Requests, Planned(w) # {}
    PROVE  NextRow(w) \in Planned(w)
<1>. DEFINE S == {tx[w].plan[t] : t \in Planned(w)}
<1>0. tx[w].plan \in [Tasks -> Nat \cup {Unwritten}]
  BY DEF TypeOK, Transaction
<1>1. S \in SUBSET Nat /\ S # {}
  BY <1>0 DEF Planned
<1>2. Least(S) \in S /\ \A m \in S : Least(S) <= m
  <2>. HIDE DEF S
  <2>. QED  BY <1>1, LeastIs
<1>3. \E t \in Planned(w) : tx[w].plan[t] = Least(S)
  BY <1>2
<1>4. \E t \in Planned(w) : \A u \in Planned(w) : tx[w].plan[t] <= tx[w].plan[u]
  BY <1>2, <1>3
<1>. QED  BY <1>4, Zenon DEF NextRow

\* findNeighbours is undone, or puts the tasks between the neighbours.
LEMMA FindNeighboursIs ==
    ASSUME NEW w \in Requests, findNeighbours(w)
    PROVE  \/ RollBack(w)
           \/ /\ ~(Upper(w) < Lower(w) + MinSpacing * (Len(ById(tx[w].todo)) + 1))
              /\ Step(w, [tx[w] EXCEPT !.step = "respace", !.todo = {},
                             !.plan = Within(ById(tx[w].todo), Lower(w), Upper(w))])
  BY Zenon DEF findNeighbours, Taken, Within, Lower, Above, Upper

\* Every statement keeps the types.
LEMMA ProgressTypes ==
    ASSUME TypeOK, NEW w \in Requests, Progress(w)
    PROVE  TypeOK'
<1>. DEFINE x == tx[w]
<1>1. x \in Transaction /\ matching \in SUBSET Tasks /\ Rows(w) \in Table
  BY RowsIs DEF TypeOK
<1>0. ~ DeadlockVictim(w) => x.step # "none"
  BY DEF Progress, lockPositionsForViewUpdate, upsertTaskPosition, findPositionConflicts,
         findNeighbours, searchTasks, scanRows, deleteRow, findMissing, findLowest, placeAdded,
         writeRow, Commit
<1>00. CASE DeadlockVictim(w)
  BY <1>00, RollBackTypes DEF DeadlockVictim
<1>. SUFFICES ASSUME x.step # "none" /\ ~ DeadlockVictim(w)
              PROVE  TypeOK'
  BY <1>0, <1>00
<1>2. CASE lockPositionsForViewUpdate(w)
  <2>1. /\ tx' = [tx EXCEPT ![w].step =
                     IF x.op = "drag" /\ x.wrote[x.task] = Unwritten THEN "upsert" ELSE "search"]
        /\ viewLock' = w /\ UNCHANGED <<matching, pos, shown, requests, contended>>
    BY <1>2 DEF lockPositionsForViewUpdate
  <2>. DEFINE y == [x EXCEPT !.step = IF x.op = "drag" /\ x.wrote[x.task] = Unwritten
                                      THEN "upsert" ELSE "search"]
  <2>0. y \in Transaction
    BY <1>1 DEF Transaction
  <2>00. tx' = [tx EXCEPT ![w] = y]
    BY <2>1
  <2>2. tx' \in [Requests -> Transaction]
    <3>. HIDE DEF y
    <3>. QED  BY <2>0, <2>00 DEF TypeOK
  <2>3. \A v \in Requests : tx'[v].op = tx[v].op /\ tx'[v].task = tx[v].task
    BY <2>1 DEF TypeOK, Transaction
  <2>4. \A v \in Requests : tx'[v].op = "none" \/ tx'[v].step = "none" => tx'[v] = Idle
    BY <2>1, IdleIs DEF TypeOK, Transaction
  <2>. QED  BY <2>1, <2>2, <2>3, <2>4 DEF TypeOK, Table
<1>3. CASE upsertTaskPosition(w)
  <2>. DEFINE y == [x EXCEPT !.wrote[x.task] = x.at,
                             !.step = IF x.at < MinSpacing THEN "lock" ELSE "check"]
  <2>1. Step(w, y)
    BY <1>3 DEF upsertTaskPosition
  <2>2. y \in Transaction /\ y.op = x.op /\ y.task = x.task /\ y.step # "none"
    BY <1>1 DEF Transaction
  <2>. QED  BY <2>1, <2>2, StepTypes
<1>4. CASE findPositionConflicts(w)
  <2>. DEFINE conflicts == {t \in Tasks : Rows(w)[t] = x.at}
              y == IF Cardinality(conflicts) > 1
                   THEN [x EXCEPT !.todo = conflicts, !.step = "bounds"]
                   ELSE [x EXCEPT !.step = "commit"]
  <2>1. Step(w, y)
    BY <1>4, Zenon DEF findPositionConflicts
  <2>2. conflicts \in SUBSET Tasks
    OBVIOUS
  <2>3. y \in Transaction /\ y.op = x.op /\ y.task = x.task /\ y.step # "none"
    <3>. HIDE DEF conflicts
    <3>. QED  BY <1>1, <2>2 DEF Transaction
  <2>. QED  BY <2>1, <2>3, StepTypes
<1>5. CASE findNeighbours(w)
  <2>. DEFINE plan == Within(ById(x.todo), Lower(w), Upper(w))
              y == [x EXCEPT !.step = "respace", !.todo = {}, !.plan = plan]
  <2>1. CASE RollBack(w)
    BY <2>1, RollBackTypes
  <2>2. CASE /\ ~(Upper(w) < Lower(w) + MinSpacing * (Len(ById(x.todo)) + 1))
             /\ Step(w, y)
    <3>1. plan \in Plan
      BY <2>2, NeighboursIs DEF PlanFor
    <3>2. y \in Transaction /\ y.op = x.op /\ y.task = x.task /\ y.step # "none"
      <4>. HIDE DEF plan
      <4>. QED  BY <1>1, <3>1 DEF Transaction, Plan
    <3>. QED  BY <2>2, <3>2, StepTypes
  <2>. QED  BY <1>5, <2>1, <2>2, FindNeighboursIs
<1>6. CASE searchTasks(w)
  <2>. DEFINE order == Ordered(Rows(w), matching)
              y == [x EXCEPT !.step = "scan", !.seen = order, !.plan = Spread(order)]
  <2>1. Step(w, y)
    BY <1>6, Zenon DEF searchTasks, Spread
  <2>2. order \in Seq(Tasks) /\ Spread(order) \in Plan
    BY <1>1, OrderedIs, SpreadIs DEF PlanFor
  <2>3. y \in Transaction /\ y.op = x.op /\ y.task = x.task /\ y.step # "none"
    <3>. HIDE DEF order
    <3>. QED  BY <1>1, <2>2 DEF Transaction, Plan
  <2>. QED  BY <2>1, <2>3, StepTypes
<1>7. CASE scanRows(w)
  <2>. DEFINE y == [x EXCEPT !.step = "delete", !.todo = Placed(Rows(w))]
  <2>1. Step(w, y)
    BY <1>7 DEF scanRows
  <2>2. Placed(Rows(w)) \in SUBSET Tasks
    BY DEF Placed
  <2>3. y \in Transaction /\ y.op = x.op /\ y.task = x.task /\ y.step # "none"
    BY <1>1, <2>2 DEF Transaction
  <2>. QED  BY <2>1, <2>3, StepTypes
<1>8. CASE deleteRow(w)
  <2>1. PICK t \in x.todo :
           Step(w, [x EXCEPT !.wrote[t] = NoPosition, !.todo = @ \ {t},
                             !.step = IF x.todo = {t} THEN "insert" ELSE @])
    BY <1>8 DEF deleteRow
  <2>. DEFINE y == [x EXCEPT !.wrote[t] = NoPosition, !.todo = @ \ {t},
                             !.step = IF x.todo = {t} THEN "insert" ELSE @]
  <2>2. y \in Transaction /\ y.op = x.op /\ y.task = x.task /\ y.step # "none"
    BY <1>1 DEF Transaction
  <2>. QED  BY <2>1, <2>2, StepTypes
<1>9. CASE findMissing(w)
  <2>. DEFINE missing == {t \in matching : Rows(w)[t] = NoPosition}
              y == [x EXCEPT !.heal = missing,
                             !.step = IF missing = {} THEN "commit" ELSE "lowest"]
  <2>1. Step(w, y)
    BY <1>9 DEF findMissing
  <2>2. missing \in SUBSET Tasks
    BY <1>1
  <2>3. y \in Transaction /\ y.op = x.op /\ y.task = x.task /\ y.step # "none"
    <3>. HIDE DEF missing
    <3>. QED  BY <1>1, <2>2 DEF Transaction
  <2>. QED  BY <2>1, <2>3, StepTypes
<1>10. CASE findLowest(w)
  <2>. DEFINE added == {t \in x.heal : Rows(w)[t] = NoPosition}
              y == [x EXCEPT !.step = "lock", !.added = added]
              z == [x EXCEPT !.step = "fill", !.plan = OnTop(w, Rows(w))]
  <2>1. CASE Step(w, y)
    <3>1. added \in SUBSET Tasks
      BY <1>1 DEF Transaction
    <3>2. y \in Transaction /\ y.op = x.op /\ y.task = x.task /\ y.step # "none"
      <4>. HIDE DEF added
      <4>. QED  BY <1>1, <3>1 DEF Transaction
    <3>. QED  BY <2>1, <3>2, StepTypes
  <2>2. CASE Step(w, z)
    <3>1. OnTop(w, Rows(w)) \in Plan
      BY <1>1, OnTopTypes DEF Transaction
    <3>2. z \in Transaction /\ z.op = x.op /\ z.task = x.task /\ z.step # "none"
      BY <1>1, <3>1 DEF Transaction, Plan
    <3>. QED  BY <2>2, <3>2, StepTypes
  <2>. QED  BY <1>10, <2>1, <2>2, Zenon DEF findLowest
<1>11. CASE placeAdded(w)
  <2>. DEFINE rows == [t \in Tasks |-> IF t \in x.added THEN NoPosition ELSE Rows(w)[t]]
              wrote == [t \in Tasks |-> IF t \in x.added THEN NoPosition ELSE x.wrote[t]]
              y == [x EXCEPT !.step = "fill", !.plan = OnTop(w, rows), !.wrote = wrote]
  <2>1. Step(w, y)
    BY <1>11 DEF placeAdded
  <2>2. rows \in Table /\ wrote \in [Tasks -> Nat \cup {NoPosition, Unwritten}]
    BY <1>1 DEF Transaction, Table
  <2>3. OnTop(w, rows) \in Plan
    <3>. HIDE DEF rows
    <3>. QED  BY <1>1, <2>2, OnTopTypes DEF Transaction
  <2>4. y \in Transaction /\ y.op = x.op /\ y.task = x.task /\ y.step # "none"
    <3>. HIDE DEF rows, wrote
    <3>. QED  BY <1>1, <2>2, <2>3 DEF Transaction, Plan
  <2>. QED  BY <2>1, <2>4, StepTypes
<1>12. CASE writeRow(w)
  <2>. DEFINE t == NextRow(w)
              y == [x EXCEPT !.wrote[t] = RowWritten(w, t), !.plan[t] = Unwritten,
                             !.step = IF Planned(w) # {t} THEN @
                                      ELSE IF @ = "insert" /\ x.op = "open" THEN "place"
                                      ELSE "commit"]
  <2>1. Step(w, y)
    BY <1>12 DEF writeRow
  <2>2. t \in Tasks => RowWritten(w, t) \in Nat \cup {NoPosition, Unwritten}
    BY <1>1 DEF RowWritten, Transaction
  <2>3. y \in Transaction /\ y.op = x.op /\ y.task = x.task /\ y.step # "none"
    <3>. HIDE DEF t
    <3>. QED  BY <1>1, <2>2 DEF Transaction
  <2>. QED  BY <2>1, <2>3, StepTypes
<1>13. CASE Commit(w)
  <2>1. /\ pos' = Rows(w) /\ tx' = [tx EXCEPT ![w] = Idle] /\ Release(w)
        /\ UNCHANGED <<matching, requests, contended>>
    BY <1>13 DEF Commit
  <2>2. shown' \in Seq(Entry)
    <3>1. CASE x.op = "open"
      <4>1. shown' = Loaded(Rows(w))
        BY <1>13, <3>1 DEF Commit
      <4>. QED  BY <1>1, <4>1, LoadedIs
    <3>2. CASE x.op # "open"
      <4>1. shown' = [shown EXCEPT ![x.to] = [task |-> x.task, position |-> x.at]]
        BY <1>13, <3>2 DEF Commit
      <4>2. x.op = "drag"
        BY <1>1, <1>13, <3>2, IdleIs DEF Commit, TypeOK, Transaction
      <4>3. [task |-> x.task, position |-> x.at] \in Entry
        BY <1>1, <4>2 DEF TypeOK, Entry, Transaction
      <4>4. shown \in Seq(Entry)
        BY DEF TypeOK, Entry
      <4>. DEFINE e == [task |-> x.task, position |-> x.at]
      <4>5. e \in Entry
        BY <4>3
      <4>. HIDE DEF e
      <4>6. [shown EXCEPT ![x.to] = e] \in Seq(Entry)
        <5>1. shown \in [1..Len(shown) -> Entry] /\ Len(shown) \in Nat
          BY <4>4
        <5>2. [shown EXCEPT ![x.to] = e] \in [1..Len(shown) -> Entry]
          BY <4>5, <5>1
        <5>. QED  BY <5>1, <5>2
      <4>. QED  BY <4>1, <4>6 DEF e
    <3>. QED  BY <3>1, <3>2
  <2>3. tx' \in [Requests -> Transaction]
    BY <2>1, IdleIs DEF TypeOK
  <2>4. \A v \in Requests : tx'[v].op = "drag" => tx'[v].task \in Tasks
    BY <2>1, IdleIs DEF TypeOK
  <2>5. viewLock' \in Requests \cup {Nobody}
    BY <2>1 DEF Release, TypeOK
  <2>6. \A v \in Requests : tx'[v].op = "none" \/ tx'[v].step = "none" => tx'[v] = Idle
    BY <2>1 DEF TypeOK
  <2>. QED  BY <1>1, <2>1, <2>2, <2>3, <2>4, <2>5, <2>6 DEF TypeOK, Table, Entry
<1>. QED
  BY <1>2, <1>3, <1>4, <1>5, <1>6, <1>7, <1>8, <1>9, <1>10, <1>11, <1>12, <1>13
     DEF Progress

\* Every step keeps the types.
LEMMA NextTypes ==
    ASSUME TypeOK, [Next]_vars
    PROVE  TypeOK'
<1>1. ASSUME NEW w \in Requests, Drag(w)
      PROVE  TypeOK'
  <2>1. PICK i \in DOMAIN shown, j \in DOMAIN shown, at \in Nat :
           /\ shown' \in Seq(Entry) /\ Begin(w, DragRecord(i, j, at))
           /\ DragRecord(i, j, at) \in Transaction /\ DragRecord(i, j, at).op = "drag"
           /\ DragRecord(i, j, at).task = shown[i].task /\ shown[i].task \in Tasks
    BY <1>1, DragIs
  <2>2. DragRecord(i, j, at).step # "none"
    BY DEF DragRecord, FirstStep, Idle
  <2>3. UNCHANGED <<matching, pos, viewLock>>
    BY <1>1 DEF Drag
  <2>. QED  BY <2>1, <2>2, <2>3, BeginTypes
<1>2. ASSUME NEW w \in Requests, Open(w)
      PROVE  TypeOK'
  <2>. DEFINE y == [Idle EXCEPT !.op = "open", !.step = "missing"]
  <2>1. /\ Begin(w, y) /\ UNCHANGED <<matching, pos, viewLock, shown>>
    BY <1>2 DEF Open
  <2>2. y \in Transaction /\ y.op = "open" /\ y.step = "missing"
    BY IdleIs DEF Transaction
  <2>3. shown' \in Seq(Entry)
    BY <2>1 DEF TypeOK, Entry
  <2>. HIDE DEF y
  <2>. QED  BY <2>1, <2>2, <2>3, BeginTypes
<1>3. ASSUME NEW t \in Tasks, Match(t)
      PROVE  TypeOK'
  BY <1>3 DEF Match, TypeOK, Table
<1>4. CASE UNCHANGED vars
  BY <1>4 DEF vars, TypeOK, Table
<1>. QED  BY <1>1, <1>2, <1>3, <1>4, ProgressTypes DEF Next

\* The rows, requests and pages keep their types, for any drags, loads and edits.
THEOREM TypeCorrect == Spec => []TypeOK
<1>. QED  BY InitTypes, NextTypes, PTL DEF Spec

-----------------------------------------------------------------------------
(* What the steps of a request do *)

\* What no statement changes.
Kept(w) ==
    /\ \A v \in Requests \ {w} : tx'[v] = tx[v]
    /\ UNCHANGED <<matching, pos, viewLock, shown, requests, contended>>
    /\ tx'[w].op = tx[w].op /\ tx'[w].task = tx[w].task /\ tx'[w].at = tx[w].at
    /\ tx'[w].want = tx[w].want /\ tx'[w].clean = tx[w].clean

\* upsertTaskPosition writes the row of the dragged task.
LEMMA UpsertIs ==
    ASSUME TypeOK, NEW w \in Requests, upsertTaskPosition(w)
    PROVE  /\ tx[w].step = "upsert" /\ Kept(w)
           /\ tx'[w].step = IF tx[w].at < MinSpacing THEN "lock" ELSE "check"
           /\ tx'[w].plan = tx[w].plan /\ tx'[w].todo = tx[w].todo
           /\ tx'[w].heal = tx[w].heal /\ tx'[w].seen = tx[w].seen
           /\ tx'[w].wrote = [tx[w].wrote EXCEPT ![tx[w].task] = tx[w].at]
<1>0. tx[w] \in Transaction /\ tx \in [Requests -> Transaction]
  BY DEF TypeOK
<1>. QED  BY <1>0 DEF upsertTaskPosition, Step, Kept, Transaction

\* findPositionConflicts finds the tasks at the position, and whether they are several.
LEMMA ConflictsIs ==
    ASSUME TypeOK, NEW w \in Requests, findPositionConflicts(w)
    PROVE  /\ tx[w].step = "check" /\ Kept(w)
           /\ \/ /\ Cardinality({t \in Tasks : Rows(w)[t] = tx[w].at}) > 1
                 /\ tx'[w].step = "bounds"
                 /\ tx'[w].todo = {t \in Tasks : Rows(w)[t] = tx[w].at}
              \/ /\ ~(Cardinality({t \in Tasks : Rows(w)[t] = tx[w].at}) > 1)
                 /\ tx'[w].step = "commit" /\ tx'[w].todo = tx[w].todo
           /\ tx'[w].plan = tx[w].plan /\ tx'[w].wrote = tx[w].wrote
           /\ tx'[w].heal = tx[w].heal /\ tx'[w].seen = tx[w].seen
<1>0. tx[w] \in Transaction /\ tx \in [Requests -> Transaction]
  BY DEF TypeOK
<1>. DEFINE c == {t \in Tasks : Rows(w)[t] = tx[w].at}
<1>1. /\ tx[w].step = "check"
      /\ Step(w, IF Cardinality(c) > 1 THEN [tx[w] EXCEPT !.todo = c, !.step = "bounds"]
                 ELSE [tx[w] EXCEPT !.step = "commit"])
  BY Zenon DEF findPositionConflicts
<1>. HIDE DEF c
<1>2. /\ tx[w].step = "check" /\ Kept(w)
      /\ \/ Cardinality(c) > 1 /\ tx'[w].step = "bounds" /\ tx'[w].todo = c
         \/ ~(Cardinality(c) > 1) /\ tx'[w].step = "commit" /\ tx'[w].todo = tx[w].todo
      /\ tx'[w].plan = tx[w].plan /\ tx'[w].wrote = tx[w].wrote
      /\ tx'[w].heal = tx[w].heal /\ tx'[w].seen = tx[w].seen
  BY <1>0, <1>1 DEF Step, Kept, Transaction
<1>. QED  BY <1>2 DEF c

\* searchTasks plans a row for every matching task, in their order.
LEMMA SearchIs ==
    ASSUME TypeOK, NEW w \in Requests, searchTasks(w)
    PROVE  /\ tx[w].step = "search" /\ tx'[w].step = "scan" /\ Kept(w)
           /\ tx'[w].seen = Ordered(Rows(w), matching)
           /\ tx'[w].plan = Spread(Ordered(Rows(w), matching))
           /\ tx'[w].wrote = tx[w].wrote /\ tx'[w].heal = tx[w].heal
           /\ tx'[w].todo = tx[w].todo
<1>0. tx[w] \in Transaction /\ tx \in [Requests -> Transaction]
  BY DEF TypeOK
<1>. DEFINE o == Ordered(Rows(w), matching)
            p == Spread(o)
<1>1. tx[w].step = "search" /\ Step(w, [tx[w] EXCEPT !.step = "scan", !.seen = o, !.plan = p])
  BY Zenon DEF searchTasks, Spread
<1>. HIDE DEF o, p
<1>2. /\ tx'[w].step = "scan" /\ Kept(w) /\ tx'[w].seen = o /\ tx'[w].plan = p
      /\ tx'[w].wrote = tx[w].wrote /\ tx'[w].heal = tx[w].heal /\ tx'[w].todo = tx[w].todo
  BY <1>0, <1>1 DEF Step, Kept, Transaction
<1>. QED  BY <1>1, <1>2 DEF o, p

\* The delete sees the rows there are when it begins.
LEMMA ScanIs ==
    ASSUME TypeOK, NEW w \in Requests, scanRows(w)
    PROVE  /\ tx[w].step = "scan" /\ tx'[w].step = "delete" /\ Kept(w)
           /\ tx'[w].todo = Placed(Rows(w))
           /\ tx'[w].plan = tx[w].plan /\ tx'[w].wrote = tx[w].wrote
           /\ tx'[w].heal = tx[w].heal /\ tx'[w].seen = tx[w].seen
<1>0. tx[w] \in Transaction /\ tx \in [Requests -> Transaction]
  BY DEF TypeOK
<1>. QED  BY <1>0 DEF scanRows, Step, Kept, Transaction

\* findMissing finds the matching tasks without a row.
LEMMA MissingIs ==
    ASSUME TypeOK, NEW w \in Requests, findMissing(w)
    PROVE  /\ tx[w].step = "missing" /\ Kept(w)
           /\ tx'[w].heal = {t \in matching : Rows(w)[t] = NoPosition}
           /\ tx'[w].step = IF tx'[w].heal = {} THEN "commit" ELSE "lowest"
           /\ tx'[w].plan = tx[w].plan /\ tx'[w].wrote = tx[w].wrote
           /\ tx'[w].todo = tx[w].todo /\ tx'[w].seen = tx[w].seen
<1>0. tx[w] \in Transaction /\ tx \in [Requests -> Transaction]
  BY DEF TypeOK
<1>. DEFINE m == {t \in matching : Rows(w)[t] = NoPosition}
<1>1. /\ tx[w].step = "missing"
      /\ Step(w, [tx[w] EXCEPT !.heal = m, !.step = IF m = {} THEN "commit" ELSE "lowest"])
  BY Zenon DEF findMissing
<1>. HIDE DEF m
<1>2. /\ Kept(w) /\ tx'[w].heal = m /\ tx'[w].step = IF m = {} THEN "commit" ELSE "lowest"
      /\ tx'[w].plan = tx[w].plan /\ tx'[w].wrote = tx[w].wrote
      /\ tx'[w].todo = tx[w].todo /\ tx'[w].seen = tx[w].seen
  BY <1>0, <1>1 DEF Step, Kept, Transaction
<1>. QED  BY <1>1, <1>2 DEF m

\* lockPositionsForViewUpdate takes the lock and writes nothing.
LEMMA LockIs ==
    ASSUME TypeOK, NEW w \in Requests, lockPositionsForViewUpdate(w)
    PROVE  /\ tx[w].step = "lock" /\ viewLock \in {Nobody, w} /\ viewLock' = w
           /\ \A v \in Requests \ {w} : tx'[v] = tx[v]
           /\ UNCHANGED <<matching, pos, shown, requests, contended>>
           /\ tx'[w].op = tx[w].op /\ tx'[w].task = tx[w].task /\ tx'[w].at = tx[w].at
           /\ tx'[w].want = tx[w].want /\ tx'[w].clean = tx[w].clean
           /\ tx'[w].step = IF tx[w].op = "drag" /\ tx[w].wrote[tx[w].task] = Unwritten
                            THEN "upsert" ELSE "search"
           /\ tx'[w].plan = tx[w].plan /\ tx'[w].todo = tx[w].todo
           /\ tx'[w].heal = tx[w].heal /\ tx'[w].seen = tx[w].seen
           /\ tx'[w].wrote = tx[w].wrote
<1>1. tx[w] \in Transaction /\ tx \in [Requests -> Transaction]
  BY DEF TypeOK
<1>. QED  BY <1>1 DEF lockPositionsForViewUpdate, Transaction

\* deleteRow drops a row the delete has seen.
LEMMA DeleteIs ==
    ASSUME TypeOK, NEW w \in Requests, deleteRow(w)
    PROVE  \E t \in tx[w].todo :
              /\ tx[w].step = "delete" /\ Kept(w)
              /\ tx'[w].step = IF tx[w].todo = {t} THEN "insert" ELSE "delete"
              /\ tx'[w].todo = tx[w].todo \ {t}
              /\ tx'[w].wrote = [tx[w].wrote EXCEPT ![t] = NoPosition]
              /\ tx'[w].plan = tx[w].plan
              /\ tx'[w].heal = tx[w].heal /\ tx'[w].seen = tx[w].seen
<1>1. tx[w] \in Transaction /\ tx \in [Requests -> Transaction]
  BY DEF TypeOK
<1>2. PICK t \in tx[w].todo :
         Step(w, [tx[w] EXCEPT !.wrote[t] = NoPosition, !.todo = @ \ {t},
                               !.step = IF tx[w].todo = {t} THEN "insert" ELSE @])
  BY DEF deleteRow
<1>3. tx[w].step = "delete"
  BY DEF deleteRow
<1>. QED  BY <1>1, <1>2, <1>3 DEF Step, Kept, Transaction

\* What findNeighbours leaves when it is not undone.
LEMMA RespaceIs ==
    ASSUME TypeOK, NEW w \in Requests, findNeighbours(w)
    PROVE  /\ tx[w].step = "bounds"
           /\ \/ RollBack(w)
              \/ /\ ~(Upper(w) < Lower(w) + MinSpacing * (Len(ById(tx[w].todo)) + 1))
                 /\ Kept(w) /\ tx'[w].step = "respace" /\ tx'[w].todo = {}
                 /\ tx'[w].plan = Within(ById(tx[w].todo), Lower(w), Upper(w))
                 /\ tx'[w].wrote = tx[w].wrote
                 /\ tx'[w].heal = tx[w].heal /\ tx'[w].seen = tx[w].seen
<1>1. tx[w] \in Transaction /\ tx \in [Requests -> Transaction]
  BY DEF TypeOK
<1>2. tx[w].step = "bounds"
  BY DEF findNeighbours
<1>. DEFINE plan == Within(ById(tx[w].todo), Lower(w), Upper(w))
<1>3. CASE /\ ~(Upper(w) < Lower(w) + MinSpacing * (Len(ById(tx[w].todo)) + 1))
           /\ Step(w, [tx[w] EXCEPT !.step = "respace", !.todo = {}, !.plan = plan])
  <2>. HIDE DEF plan
  <2>1. /\ Kept(w) /\ tx'[w].step = "respace" /\ tx'[w].todo = {} /\ tx'[w].plan = plan
        /\ tx'[w].wrote = tx[w].wrote
        /\ tx'[w].heal = tx[w].heal /\ tx'[w].seen = tx[w].seen
    BY <1>1, <1>3 DEF Step, Kept, Transaction
  <2>. QED  BY <1>2, <1>3, <2>1 DEF plan
<1>. QED  BY <1>2, <1>3, FindNeighboursIs

\* findLowest finds the view crowded or plans rows on top of it.
LEMMA LowestIs ==
    ASSUME TypeOK, NEW w \in Requests, findLowest(w)
    PROVE  /\ tx[w].step = "lowest" /\ Kept(w)
           /\ tx'[w].wrote = tx[w].wrote /\ tx'[w].todo = tx[w].todo
           /\ tx'[w].heal = tx[w].heal /\ tx'[w].seen = tx[w].seen
           /\ \/ Crowded(w) /\ tx'[w].step = "lock" /\ tx'[w].plan = tx[w].plan
              \/ /\ ~Crowded(w) /\ tx'[w].step = "fill"
                 /\ tx'[w].plan = OnTop(w, Rows(w))
<1>1. tx[w] \in Transaction /\ tx \in [Requests -> Transaction]
  BY DEF TypeOK
<1>. DEFINE added == {t \in tx[w].heal : Rows(w)[t] = NoPosition}
            plan == OnTop(w, Rows(w))
<1>2. /\ tx[w].step = "lowest"
      /\ Step(w, IF Crowded(w) THEN [tx[w] EXCEPT !.step = "lock", !.added = added]
                 ELSE [tx[w] EXCEPT !.step = "fill", !.plan = plan])
  BY Zenon DEF findLowest
<1>. HIDE DEF added, plan
<1>3. /\ Kept(w) /\ tx'[w].wrote = tx[w].wrote /\ tx'[w].todo = tx[w].todo
      /\ tx'[w].heal = tx[w].heal /\ tx'[w].seen = tx[w].seen
      /\ \/ Crowded(w) /\ tx'[w].step = "lock" /\ tx'[w].plan = tx[w].plan
         \/ ~Crowded(w) /\ tx'[w].step = "fill" /\ tx'[w].plan = plan
  BY <1>1, <1>2 DEF Step, Kept, Transaction
<1>. QED  BY <1>2, <1>3 DEF plan

\* What placeAdded reads once it has dropped the rows it had added.
Remaining(w) == [t \in Tasks |-> IF t \in tx[w].added THEN NoPosition ELSE Rows(w)[t]]

\* placeAdded drops the rows it had added and plans them anew.
LEMMA PlaceAddedIs ==
    ASSUME TypeOK, NEW w \in Requests, placeAdded(w)
    PROVE  /\ tx[w].step = "place" /\ Kept(w) /\ tx'[w].step = "fill"
           /\ tx'[w].plan = OnTop(w, Remaining(w))
           /\ tx'[w].wrote = [t \in Tasks |-> IF t \in tx[w].added THEN NoPosition
                                              ELSE tx[w].wrote[t]]
           /\ tx'[w].todo = tx[w].todo
           /\ tx'[w].heal = tx[w].heal /\ tx'[w].seen = tx[w].seen
<1>1. tx[w] \in Transaction /\ tx \in [Requests -> Transaction]
  BY DEF TypeOK
<1>. DEFINE wrote == [t \in Tasks |-> IF t \in tx[w].added THEN NoPosition ELSE tx[w].wrote[t]]
            plan == OnTop(w, Remaining(w))
<1>2. /\ tx[w].step = "place"
      /\ Step(w, [tx[w] EXCEPT !.step = "fill", !.plan = plan, !.wrote = wrote])
  BY DEF placeAdded, Remaining
<1>. HIDE DEF wrote, plan
<1>3. /\ Kept(w) /\ tx'[w].step = "fill" /\ tx'[w].plan = plan /\ tx'[w].wrote = wrote
      /\ tx'[w].todo = tx[w].todo /\ tx'[w].heal = tx[w].heal /\ tx'[w].seen = tx[w].seen
  BY <1>1, <1>2 DEF Step, Kept, Transaction
<1>. QED  BY <1>2, <1>3 DEF wrote, plan

\* writeRow writes the next row of the plan.
LEMMA WriteIs ==
    ASSUME TypeOK, NEW w \in Requests, writeRow(w)
    PROVE  /\ tx[w].step \in {"respace", "insert", "fill"} /\ Kept(w)
           /\ tx'[w].wrote = [tx[w].wrote EXCEPT ![NextRow(w)] = RowWritten(w, NextRow(w))]
           /\ tx'[w].plan = [tx[w].plan EXCEPT ![NextRow(w)] = Unwritten]
           /\ tx'[w].step = IF Planned(w) # {NextRow(w)} THEN tx[w].step
                            ELSE IF tx[w].step = "insert" /\ tx[w].op = "open" THEN "place"
                            ELSE "commit"
           /\ tx'[w].todo = tx[w].todo
           /\ tx'[w].heal = tx[w].heal /\ tx'[w].seen = tx[w].seen
<1>1. tx[w] \in Transaction /\ tx \in [Requests -> Transaction]
  BY DEF TypeOK
<1>. DEFINE t == NextRow(w)
            r == RowWritten(w, t)
            p == Planned(w)
<1>2. /\ tx[w].step \in {"respace", "insert", "fill"}
      /\ Step(w, [tx[w] EXCEPT !.wrote[t] = r, !.plan[t] = Unwritten,
                     !.step = IF p # {t} THEN @
                              ELSE IF @ = "insert" /\ tx[w].op = "open" THEN "place"
                              ELSE "commit"])
  BY DEF writeRow
<1>. HIDE DEF t, r, p
<1>3. /\ Kept(w)
      /\ tx'[w].wrote = [tx[w].wrote EXCEPT ![t] = r]
      /\ tx'[w].plan = [tx[w].plan EXCEPT ![t] = Unwritten]
      /\ tx'[w].step = IF p # {t} THEN tx[w].step
                       ELSE IF tx[w].step = "insert" /\ tx[w].op = "open" THEN "place"
                       ELSE "commit"
      /\ tx'[w].todo = tx[w].todo /\ tx'[w].heal = tx[w].heal /\ tx'[w].seen = tx[w].seen
  BY <1>1, <1>2 DEF Step, Kept, Transaction
<1>. QED  BY <1>2, <1>3 DEF t, r, p

\* Commit publishes the rows, frees the lock and ends the request.
LEMMA CommitIs ==
    ASSUME TypeOK, NEW w \in Requests, Commit(w)
    PROVE  /\ tx[w].step = "commit" /\ tx'[w] = Idle /\ pos' = Rows(w)
           /\ \A v \in Requests \ {w} : tx'[v] = tx[v]
           /\ viewLock' = IF viewLock = w THEN Nobody ELSE viewLock
           /\ UNCHANGED <<matching, requests, contended>>
  BY DEF Commit, Release, TypeOK

\* A request that is undone ends without a trace.
LEMMA RollBackIs ==
    ASSUME TypeOK, NEW w \in Requests, RollBack(w)
    PROVE  /\ tx'[w] = Idle /\ \A v \in Requests \ {w} : tx'[v] = tx[v]
           /\ viewLock' = IF viewLock = w THEN Nobody ELSE viewLock
           /\ UNCHANGED <<matching, pos, shown, requests, contended>>
  BY DEF RollBack, Release, TypeOK

\* A request that begins leaves the others as they are, but no longer alone.
LEMMA BeginIs ==
    ASSUME TypeOK, NEW w \in Requests, NEW record, Begin(w, record)
    PROVE  /\ tx[w] = Idle /\ tx'[w] = record
           /\ contended' = (contended \/ \E v \in Requests : tx[v] # Idle)
           /\ \A v \in Requests \ {w} :
                 /\ tx'[v] = [tx[v] EXCEPT !.clean = FALSE]
                 /\ tx[v] = Idle => tx'[v] = Idle
                 /\ tx'[v].op = tx[v].op /\ tx'[v].step = tx[v].step
                 /\ tx'[v].task = tx[v].task /\ tx'[v].at = tx[v].at
                 /\ tx'[v].wrote = tx[v].wrote /\ tx'[v].plan = tx[v].plan
                 /\ tx'[v].todo = tx[v].todo /\ tx'[v].heal = tx[v].heal
                 /\ tx'[v].seen = tx[v].seen /\ tx'[v].want = tx[v].want
                 /\ ~ tx'[v].clean
<1>. DEFINE unclean(v) == [tx[v] EXCEPT !.clean = FALSE]
<1>1. /\ tx[w] = Idle
      /\ tx' = [v \in Requests |-> IF v = w THEN record ELSE unclean(v)]
      /\ contended' = (contended \/ \E v \in Requests : tx[v] # Idle)
  BY Zenon DEF Begin
<1>2. \A v \in Requests : tx[v] = Idle => unclean(v) = Idle
  BY IdleUnclean
<1>3. \A v \in Requests :
         /\ unclean(v).op = tx[v].op /\ unclean(v).step = tx[v].step
         /\ unclean(v).task = tx[v].task /\ unclean(v).at = tx[v].at
         /\ unclean(v).wrote = tx[v].wrote /\ unclean(v).plan = tx[v].plan
         /\ unclean(v).todo = tx[v].todo /\ unclean(v).heal = tx[v].heal
         /\ unclean(v).seen = tx[v].seen /\ unclean(v).want = tx[v].want
         /\ unclean(v).clean = FALSE
  BY DEF TypeOK, Transaction
<1>. HIDE DEF unclean
<1>4. tx'[w] = record /\ \A v \in Requests \ {w} : tx'[v] = unclean(v)
  BY <1>1
<1>5. \A v \in Requests \ {w} : unclean(v) = [tx[v] EXCEPT !.clean = FALSE]
  BY DEF unclean
<1>. QED  BY <1>1, <1>2, <1>3, <1>4, <1>5

-----------------------------------------------------------------------------
(* Who holds the lock on the view *)

\* A transaction that has written nothing.
Untold(w) == \A t \in Tasks : tx[w].wrote[t] = Unwritten

\* What the steps of a request say about the lock.
LockOf(w) ==
    /\ tx[w].step \in {"search", "scan", "delete", "insert", "place"} => viewLock = w
    /\ tx[w].op = "drag" /\ tx[w].at < MinSpacing /\ tx[w].step # "lock" => viewLock = w
    /\ tx[w].step = "lock" /\ viewLock # w => Untold(w)
    /\ tx[w].step = "upsert" => tx[w].op = "drag"
    /\ tx[w].step \in {"missing", "lowest"} => tx[w].op = "open" /\ Untold(w)

\* A recalculation holds the lock, or waits for it with nothing written.
LockInv == \A w \in Requests : LockOf(w)

\* They say nothing of a request that is not under way.
LEMMA IdleLock ==
    ASSUME NEW w \in Requests, tx[w] = Idle
    PROVE  LockOf(w)
  BY DEF LockOf, Idle

\* The steps of others do not change it.
LEMMA LockKept ==
    ASSUME NEW v \in Requests, LockOf(v), tx'[v] = tx[v],
           viewLock' = v <=> viewLock = v
    PROVE  LockOf(v)'
  BY DEF LockOf, Untold

\* Every statement keeps the lock where it belongs.
LEMMA ProgressLock ==
    ASSUME TypeOK, LockInv, NEW w \in Requests, Progress(w)
    PROVE  LockInv'
<1>0. w # Nobody /\ \A v \in Requests : v # Nobody
  BY NamesAssumption
<1>1. ASSUME Kept(w), LockOf(w)'
      PROVE  LockInv'
  <2>. SUFFICES ASSUME NEW v \in Requests, v # w
                PROVE  LockOf(v)'
    BY <1>1 DEF LockInv
  <2>. QED  BY <1>1, LockKept DEF Kept, LockInv
<1>2. ASSUME tx'[w] = Idle, \A v \in Requests \ {w} : tx'[v] = tx[v],
             viewLock' = IF viewLock = w THEN Nobody ELSE viewLock
      PROVE  LockInv'
  <2>1. LockOf(w)'
    BY <1>2 DEF LockOf, Idle
  <2>2. ASSUME NEW v \in Requests, v # w
        PROVE  LockOf(v)'
    BY <1>0, <1>2, <2>2, LockKept DEF LockInv
  <2>. QED  BY <2>1, <2>2 DEF LockInv
<1>. DEFINE old == LockOf(w)
<1>3. old
  BY DEF LockInv
<1>4. CASE lockPositionsForViewUpdate(w)
  <2>1. LockOf(w)'
    BY <1>4, <1>3, LockIs DEF LockOf, Untold
  <2>2. ASSUME NEW v \in Requests, v # w
        PROVE  LockOf(v)'
    BY <1>0, <1>4, <2>2, LockIs, LockKept DEF LockInv
  <2>. QED  BY <2>1, <2>2 DEF LockInv
<1>5. CASE upsertTaskPosition(w)
  BY <1>1, <1>3, <1>5, UpsertIs DEF LockOf, Untold, Kept
<1>6. CASE findPositionConflicts(w)
  BY <1>1, <1>3, <1>6, ConflictsIs DEF LockOf, Untold, Kept
<1>7. CASE findNeighbours(w)
  BY <1>1, <1>2, <1>3, <1>7, RespaceIs, RollBackIs DEF LockOf, Untold, Kept
<1>8. CASE searchTasks(w)
  BY <1>1, <1>3, <1>8, SearchIs DEF LockOf, Untold, Kept
<1>9. CASE scanRows(w)
  BY <1>1, <1>3, <1>9, ScanIs DEF LockOf, Untold, Kept
<1>10. CASE deleteRow(w)
  BY <1>1, <1>3, <1>10, DeleteIs DEF LockOf, Untold, Kept
<1>11. CASE findMissing(w)
  BY <1>1, <1>3, <1>11, MissingIs DEF LockOf, Untold, Kept
<1>12. CASE findLowest(w)
  BY <1>1, <1>3, <1>12, LowestIs DEF LockOf, Untold, Kept
<1>13. CASE placeAdded(w)
  BY <1>1, <1>3, <1>13, PlaceAddedIs DEF LockOf, Untold, Kept
<1>14. CASE writeRow(w)
  BY <1>1, <1>3, <1>14, WriteIs DEF LockOf, Untold, Kept
<1>15. CASE Commit(w)
  BY <1>2, <1>15, CommitIs
<1>16. CASE DeadlockVictim(w)
  BY <1>2, <1>16, RollBackIs DEF DeadlockVictim
<1>. QED
  BY <1>4, <1>5, <1>6, <1>7, <1>8, <1>9, <1>10, <1>11, <1>12, <1>13, <1>14, <1>15, <1>16
     DEF Progress

\* A request begins without the lock.
LEMMA BeginLock ==
    ASSUME TypeOK, LockInv, NEW w \in Requests, NEW record, Begin(w, record),
           viewLock' = viewLock,
           record.step = "lock" => Untold(w)',
           record.step \in {"lock", "upsert", "missing"},
           record.op = "drag" /\ record.at < MinSpacing => record.step = "lock",
           record.step = "upsert" => record.op = "drag",
           record.step = "missing" => record.op = "open" /\ Untold(w)'
    PROVE  LockInv'
<1>1. tx'[w] = record
  BY BeginIs
<1>2. LockOf(w)'
  BY <1>1 DEF LockOf
<1>3. ASSUME NEW v \in Requests, v # w
      PROVE  LockOf(v)'
  <2>1. /\ tx'[v].op = tx[v].op /\ tx'[v].step = tx[v].step /\ tx'[v].at = tx[v].at
        /\ tx'[v].wrote = tx[v].wrote
    BY <1>3, BeginIs
  <2>. QED  BY <2>1 DEF LockInv, LockOf, Untold
<1>. QED  BY <1>2, <1>3 DEF LockInv

\* Every step keeps the lock where it belongs.
LEMMA NextLock ==
    ASSUME TypeOK, LockInv, [Next]_vars
    PROVE  LockInv'
<1>1. ASSUME NEW w \in Requests, Drag(w)
      PROVE  LockInv'
  <2>1. PICK i \in DOMAIN shown, j \in DOMAIN shown, at \in Nat :
           Begin(w, DragRecord(i, j, at))
    BY <1>1, DragIs
  <2>2. /\ DragRecord(i, j, at).step = FirstStep(at) /\ DragRecord(i, j, at).op = "drag"
        /\ DragRecord(i, j, at).at = at /\ DragRecord(i, j, at).wrote = Untouched
    BY Zenon DEF DragRecord, Idle
  <2>3. Untold(w)'
    BY <2>1, <2>2, BeginIs DEF Untold, Untouched
  <2>4. viewLock' = viewLock
    BY <1>1 DEF Drag
  <2>. QED  BY <2>1, <2>2, <2>3, <2>4, BeginLock DEF FirstStep
<1>2. ASSUME NEW w \in Requests, Open(w)
      PROVE  LockInv'
  <2>. DEFINE y == [Idle EXCEPT !.op = "open", !.step = "missing"]
  <2>1. Begin(w, y) /\ viewLock' = viewLock
    BY <1>2 DEF Open
  <2>2. y.op = "open" /\ y.step = "missing" /\ y.wrote = Untouched
    BY DEF Idle
  <2>. HIDE DEF y
  <2>3. Untold(w)'
    BY <2>1, <2>2, BeginIs DEF Untold, Untouched
  <2>. QED  BY <2>1, <2>2, <2>3, BeginLock
<1>3. ASSUME NEW t \in Tasks, Match(t)
      PROVE  LockInv'
  BY <1>3 DEF Match, LockInv, LockOf, Untold
<1>4. CASE UNCHANGED vars
  BY <1>4 DEF vars, LockInv, LockOf, Untold
<1>. QED  BY <1>1, <1>2, <1>3, <1>4, ProgressLock DEF Next

-----------------------------------------------------------------------------
(* Which steps follow which *)

\* The steps of a drag: before it recalculates, it writes its own row only.
DragOf(w) ==
    tx[w].op = "drag" =>
        /\ tx[w].task \in matching
        /\ tx[w].step \notin {"missing", "lowest", "place", "fill"}
        /\ tx[w].step \in {"lock", "upsert", "check", "bounds", "search"} =>
              /\ tx[w].seen = <<>>
              /\ \A t \in Tasks \ {tx[w].task} : tx[w].wrote[t] = Unwritten
        /\ tx[w].step = "lock" => tx[w].wrote[tx[w].task] \in {Unwritten, tx[w].at}
        /\ tx[w].step = "upsert" => tx[w].wrote[tx[w].task] = Unwritten
        /\ tx[w].step \in {"check", "bounds", "search"} => tx[w].wrote[tx[w].task] = tx[w].at
        /\ tx[w].step = "respace" => tx[w].seen = <<>>

\* The steps of a load: it gives rows to tasks that lack one.
OpenOf(w) ==
    tx[w].op = "open" =>
        /\ tx[w].step \notin {"upsert", "check", "bounds", "respace"}
        /\ tx[w].heal \subseteq matching
        /\ tx[w].step \notin {"missing", "commit"} => tx[w].heal # {}

\* The rows still to be written.
RowsOf(w) ==
    /\ tx[w].step = "bounds" => tx[w].todo # {}
    /\ tx[w].step \in {"scan", "delete", "insert", "respace", "fill"} => Planned(w) # {}

\* A drag writes its own row only before it looks for conflicts or recalculates; what
\* a request still has to write is never nothing.
PathInv ==
    /\ \A i \in DOMAIN shown : shown[i].task \in matching
    /\ \A w \in Requests : DragOf(w) /\ OpenOf(w) /\ RowsOf(w)

\* A request that is not under way has no steps.
LEMMA IdlePath ==
    ASSUME NEW w \in Requests, tx[w] = Idle
    PROVE  DragOf(w) /\ OpenOf(w) /\ RowsOf(w)
  BY DEF DragOf, OpenOf, RowsOf, Idle

\* Its steps are not those of others.
LEMMA PathKept ==
    ASSUME NEW v \in Requests, DragOf(v), OpenOf(v), RowsOf(v), tx'[v] = tx[v],
           matching \subseteq matching'
    PROVE  (DragOf(v) /\ OpenOf(v) /\ RowsOf(v))'
<1>1. Planned(v)' = Planned(v)
  BY DEF Planned
<1>. QED  BY <1>1 DEF DragOf, OpenOf, RowsOf

\* Every statement leads to one that may follow it.
LEMMA ProgressPath ==
    ASSUME TypeOK, PathInv, NEW w \in Requests, Progress(w)
    PROVE  PathInv'
<1>. DEFINE x == tx[w]
<1>0. /\ x \in Transaction /\ matching \in SUBSET Tasks /\ Rows(w) \in Table
      /\ DragOf(w) /\ OpenOf(w) /\ RowsOf(w)
      /\ x.op = "drag" => x.task \in Tasks
      /\ x.op \in {"none", "drag", "open"}
      /\ x.op = "none" => x.step = "none"
  BY RowsIs, IdleIs DEF TypeOK, PathInv, Transaction
<1>01. x.at \in Nat /\ x.at # Unwritten /\ x.wrote \in [Tasks -> Nat \cup {NoPosition, Unwritten}]
  BY <1>0, NamesAssumption DEF Transaction
<1>1. ASSUME Kept(w), (DragOf(w) /\ OpenOf(w) /\ RowsOf(w))'
      PROVE  PathInv'
  <2>1. ASSUME NEW v \in Requests
        PROVE  (DragOf(v) /\ OpenOf(v) /\ RowsOf(v))'
    BY <1>1, PathKept DEF Kept, PathInv
  <2>2. \A i \in DOMAIN shown' : shown'[i].task \in matching'
    BY <1>1 DEF Kept, PathInv
  <2>. QED  BY <2>1, <2>2 DEF PathInv
<1>2. ASSUME RollBack(w)
      PROVE  PathInv'
  <2>1. tx'[w] = Idle
    BY <1>2, RollBackIs
  <2>2. (DragOf(w) /\ OpenOf(w) /\ RowsOf(w))'
    BY <2>1 DEF DragOf, OpenOf, RowsOf, Idle
  <2>3. ASSUME NEW v \in Requests
        PROVE  (DragOf(v) /\ OpenOf(v) /\ RowsOf(v))'
    BY <1>2, <2>2, RollBackIs, PathKept DEF PathInv
  <2>4. \A i \in DOMAIN shown' : shown'[i].task \in matching'
    BY <1>2, RollBackIs DEF PathInv
  <2>. QED  BY <2>3, <2>4 DEF PathInv
<1>3. CASE lockPositionsForViewUpdate(w)
  <2>1. RowsOf(w)' /\ OpenOf(w)'
    BY <1>0, <1>3, LockIs DEF OpenOf, RowsOf
  <2>2. DragOf(w)'
    BY <1>0, <1>01, <1>3, LockIs DEF DragOf
  <2>3. ASSUME NEW v \in Requests
        PROVE  (DragOf(v) /\ OpenOf(v) /\ RowsOf(v))'
    BY <1>3, <2>1, <2>2, LockIs, PathKept DEF PathInv
  <2>4. \A i \in DOMAIN shown' : shown'[i].task \in matching'
    BY <1>3, LockIs DEF PathInv
  <2>. QED  BY <2>3, <2>4 DEF PathInv
<1>4. CASE upsertTaskPosition(w)
  <2>1. RowsOf(w)' /\ OpenOf(w)'
    BY <1>0, <1>4, UpsertIs DEF OpenOf, RowsOf, Kept
  <2>2. DragOf(w)'
    <3>1. /\ x.op = "drag" => tx'[w].wrote[x.task] = x.at
          /\ \A t \in Tasks \ {x.task} : tx'[w].wrote[t] = x.wrote[t]
          /\ x.step = "upsert" /\ tx'[w].step \in {"lock", "check"} /\ tx'[w].seen = x.seen
          /\ tx'[w].op = x.op /\ tx'[w].task = x.task /\ tx'[w].at = x.at
          /\ matching' = matching
      BY <1>0, <1>01, <1>4, UpsertIs DEF Kept
    <3>. QED  BY <1>0, <3>1 DEF DragOf
  <2>. QED  BY <1>1, <1>4, <2>1, <2>2, UpsertIs
<1>5. CASE findPositionConflicts(w)
  <2>0. /\ x.step = "check" /\ tx'[w].step \in {"bounds", "commit"}
        /\ tx'[w].seen = x.seen /\ tx'[w].wrote = x.wrote /\ tx'[w].heal = x.heal
        /\ tx'[w].op = x.op /\ tx'[w].task = x.task /\ tx'[w].at = x.at
        /\ matching' = matching
    BY <1>5, ConflictsIs DEF Kept
  <2>1. OpenOf(w)'
    BY <1>0, <2>0 DEF OpenOf
  <2>2. DragOf(w)'
    BY <1>0, <2>0 DEF DragOf
  <2>3. \A S : S = {} => ~(Cardinality(S) > 1)
    BY FS_EmptySet
  <2>4. RowsOf(w)'
    BY <1>5, <2>3, ConflictsIs DEF RowsOf
  <2>. QED  BY <1>1, <1>5, <2>1, <2>2, <2>4, ConflictsIs
<1>6. CASE findNeighbours(w)
  <2>1. CASE ~RollBack(w)
    <3>1. OpenOf(w)' /\ DragOf(w)'
      BY <1>0, <1>6, <2>1, RespaceIs DEF OpenOf, DragOf, Kept
    <3>2. PlanFor(tx'[w].plan, x.todo) /\ x.todo # {} /\ x.todo \in SUBSET Tasks
      BY <1>0, <1>6, <2>1, RespaceIs, NeighboursIs DEF RowsOf, Transaction
    <3>3. Planned(w)' # {}
      BY <3>2 DEF PlanFor, Planned
    <3>4. RowsOf(w)'
      BY <1>6, <2>1, <3>3, RespaceIs DEF RowsOf
    <3>. QED  BY <1>1, <1>6, <2>1, <3>1, <3>4, RespaceIs
  <2>. QED  BY <1>2, <2>1
<1>7. CASE searchTasks(w)
  <2>1. OpenOf(w)' /\ DragOf(w)'
    BY <1>0, <1>7, SearchIs DEF OpenOf, DragOf, Kept
  <2>2. matching # {}
    BY <1>0, <1>7, SearchIs DEF OpenOf, DragOf
  <2>3. PlanFor(tx'[w].plan, matching)
    BY <1>0, <1>7, SearchIs, SpreadIs
  <2>4. Planned(w)' # {}
    BY <1>0, <2>2, <2>3 DEF PlanFor, Planned
  <2>5. RowsOf(w)'
    BY <1>7, <2>4, SearchIs DEF RowsOf
  <2>. QED  BY <1>1, <1>7, <2>1, <2>5, SearchIs
<1>8. CASE scanRows(w)
  <2>1. OpenOf(w)' /\ DragOf(w)'
    BY <1>0, <1>8, ScanIs DEF OpenOf, DragOf, Kept
  <2>2. Planned(w)' = Planned(w)
    BY <1>8, ScanIs DEF Planned
  <2>3. RowsOf(w)'
    BY <1>0, <1>8, <2>2, ScanIs DEF RowsOf
  <2>. QED  BY <1>1, <1>8, <2>1, <2>3, ScanIs
<1>9. CASE deleteRow(w)
  <2>0. /\ x.step = "delete" /\ tx'[w].step \in {"delete", "insert"}
        /\ tx'[w].seen = x.seen /\ tx'[w].heal = x.heal
        /\ tx'[w].op = x.op /\ tx'[w].task = x.task /\ tx'[w].at = x.at
        /\ matching' = matching
    BY <1>9, DeleteIs DEF Kept
  <2>1. OpenOf(w)' /\ DragOf(w)'
    BY <1>0, <2>0 DEF OpenOf, DragOf
  <2>2. Planned(w)' = Planned(w)
    BY <1>9, DeleteIs DEF Planned
  <2>3. RowsOf(w)'
    BY <1>0, <1>9, <2>2, DeleteIs DEF RowsOf
  <2>. QED  BY <1>1, <1>9, <2>1, <2>3, DeleteIs
<1>10. CASE findMissing(w)
  <2>1. OpenOf(w)' /\ DragOf(w)'
    BY <1>0, <1>10, MissingIs DEF OpenOf, DragOf, Kept
  <2>2. RowsOf(w)'
    BY <1>10, MissingIs DEF RowsOf
  <2>. QED  BY <1>1, <1>10, <2>1, <2>2, MissingIs
<1>11. CASE findLowest(w)
  <2>1. OpenOf(w)' /\ DragOf(w)'
    BY <1>0, <1>11, LowestIs DEF OpenOf, DragOf, Kept
  <2>2. x.heal \in SUBSET Tasks /\ x.heal # {}
    BY <1>0, <1>11, LowestIs DEF OpenOf, DragOf, Transaction
  <2>3. tx'[w].step = "fill" => Planned(w)' # {}
    BY <1>0, <1>11, <2>2, LowestIs, OnTopTypes DEF Planned
  <2>4. RowsOf(w)'
    BY <1>11, <2>3, LowestIs DEF RowsOf
  <2>. QED  BY <1>1, <1>11, <2>1, <2>4, LowestIs
<1>12. CASE placeAdded(w)
  <2>1. OpenOf(w)' /\ DragOf(w)'
    BY <1>0, <1>12, PlaceAddedIs DEF OpenOf, DragOf, Kept
  <2>2. x.heal \in SUBSET Tasks /\ x.heal # {} /\ Remaining(w) \in Table
    <3>1. Remaining(w) \in Table
      BY <1>0 DEF Remaining, Table
    <3>2. x.heal \in SUBSET Tasks
      BY <1>0 DEF Transaction
    <3>3. x.step = "place" /\ x.op \notin {"drag", "none"}
      BY <1>0, <1>12, PlaceAddedIs DEF DragOf
    <3>. QED  BY <1>0, <3>1, <3>2, <3>3 DEF OpenOf
  <2>3. Planned(w)' # {}
    <3>1. \A t \in x.heal : OnTop(w, Remaining(w))[t] # Unwritten
      BY <2>2, OnTopTypes
    <3>2. tx'[w].plan = OnTop(w, Remaining(w))
      BY <1>12, PlaceAddedIs
    <3>3. PICK t \in x.heal : t \in Tasks
      BY <2>2
    <3>4. tx'[w].plan[t] # Unwritten
      BY <3>1, <3>2, <3>3
    <3>. QED  BY <3>3, <3>4 DEF Planned
  <2>4. RowsOf(w)'
    BY <1>12, <2>3, PlaceAddedIs DEF RowsOf
  <2>. QED  BY <1>1, <1>12, <2>1, <2>4, PlaceAddedIs
<1>13. CASE writeRow(w)
  <2>0. /\ x.step \in {"respace", "insert", "fill"}
        /\ tx'[w].step \in {x.step, "commit", "place"}
        /\ tx'[w].step = "place" => x.op = "open"
        /\ tx'[w].seen = x.seen /\ tx'[w].heal = x.heal
        /\ tx'[w].op = x.op /\ tx'[w].task = x.task /\ tx'[w].at = x.at
        /\ matching' = matching
    BY <1>13, WriteIs DEF Kept
  <2>1. OpenOf(w)' /\ DragOf(w)'
    BY <1>0, <2>0 DEF OpenOf, DragOf
  <2>2. NextRow(w) \in Planned(w)
    BY <1>0, <1>13, WriteIs, NextRowIs DEF RowsOf
  <2>3. x.plan \in [Tasks -> Nat \cup {Unwritten}]
    BY <1>0 DEF Transaction
  <2>4. Planned(w)' = Planned(w) \ {NextRow(w)}
    BY <1>13, <2>3, WriteIs DEF Planned
  <2>5. RowsOf(w)'
    BY <1>0, <1>13, <2>2, <2>4, WriteIs DEF RowsOf
  <2>. QED  BY <1>1, <1>13, <2>1, <2>5, WriteIs
<1>14. CASE Commit(w)
  <2>1. tx'[w] = Idle
    BY <1>14, CommitIs
  <2>2. (DragOf(w) /\ OpenOf(w) /\ RowsOf(w))'
    BY <2>1 DEF DragOf, OpenOf, RowsOf, Idle
  <2>3. ASSUME NEW v \in Requests
        PROVE  (DragOf(v) /\ OpenOf(v) /\ RowsOf(v))'
    BY <1>14, <2>2, CommitIs, PathKept DEF PathInv
  <2>4. \A i \in DOMAIN shown' : shown'[i].task \in matching
    <3>1. CASE x.op = "open"
      <4>1. shown' = Loaded(Rows(w))
        BY <1>14, <3>1 DEF Commit
      <4>. QED  BY <1>0, <4>1, LoadedIs
    <3>2. CASE x.op # "open"
      <4>1. shown' = [shown EXCEPT ![x.to] = [task |-> x.task, position |-> x.at]]
        BY <1>14, <3>2 DEF Commit
      <4>2. x.task \in matching
        BY <1>0, <1>14, <3>2, CommitIs DEF DragOf
      <4>. QED  BY <4>1, <4>2 DEF PathInv
    <3>. QED  BY <3>1, <3>2
  <2>. QED  BY <1>14, <2>3, <2>4, CommitIs DEF PathInv
<1>15. CASE DeadlockVictim(w)
  BY <1>2, <1>15 DEF DeadlockVictim
<1>. QED
  BY <1>3, <1>4, <1>5, <1>6, <1>7, <1>8, <1>9, <1>10, <1>11, <1>12, <1>13, <1>14, <1>15
     DEF Progress

\* Every step of the system does.
LEMMA NextPath ==
    ASSUME TypeOK, PathInv, [Next]_vars
    PROVE  PathInv'
<1>0. ASSUME NEW w \in Requests, NEW record, Begin(w, record), matching' = matching
      PROVE  \A v \in Requests \ {w} : (DragOf(v) /\ OpenOf(v) /\ RowsOf(v))'
  <2>. SUFFICES ASSUME NEW v \in Requests, v # w
                PROVE  (DragOf(v) /\ OpenOf(v) /\ RowsOf(v))'
    OBVIOUS
  <2>1. /\ tx'[v].op = tx[v].op /\ tx'[v].step = tx[v].step
        /\ tx'[v].task = tx[v].task /\ tx'[v].at = tx[v].at
        /\ tx'[v].wrote = tx[v].wrote /\ tx'[v].plan = tx[v].plan
        /\ tx'[v].todo = tx[v].todo /\ tx'[v].heal = tx[v].heal
        /\ tx'[v].seen = tx[v].seen
    BY <1>0, BeginIs
  <2>2. Planned(v)' = Planned(v)
    BY <2>1 DEF Planned
  <2>3. DragOf(v) /\ OpenOf(v) /\ RowsOf(v)
    BY DEF PathInv
  <2>. QED  BY <1>0, <2>1, <2>2, <2>3 DEF DragOf, OpenOf, RowsOf
<1>1. ASSUME NEW w \in Requests, Drag(w)
      PROVE  PathInv'
  <2>1. PICK i \in DOMAIN shown, j \in DOMAIN shown, at \in Nat :
           /\ shown' = Moved(shown, i, j)
           /\ Begin(w, DragRecord(i, j, at))
           /\ DragRecord(i, j, at).task = shown[i].task /\ shown[i].task \in Tasks
    BY <1>1, DragIs
  <2>2. /\ DragRecord(i, j, at).step = FirstStep(at) /\ DragRecord(i, j, at).op = "drag"
        /\ DragRecord(i, j, at).seen = <<>> /\ DragRecord(i, j, at).wrote = Untouched
    BY Zenon DEF DragRecord, Idle
  <2>3. UNCHANGED <<matching, pos>>
    BY <1>1 DEF Drag
  <2>4. \A k \in DOMAIN shown' : \E l \in DOMAIN shown : shown'[k] = shown[l]
    <3>1. shown \in Seq(Entry)
      BY DEF TypeOK, Entry
    <3>2. /\ Len(shown') = Len(shown) /\ shown'[j] = shown[i]
          /\ \A k \in 1..Len(shown) :
                /\ k < j => shown'[k] = shown[IF k < i THEN k ELSE k + 1]
                /\ k > j => shown'[k] = shown[IF k <= i THEN k - 1 ELSE k]
          /\ shown' \in Seq(Entry)
      BY <2>1, <3>1, MovedIs
    <3>. SUFFICES ASSUME NEW k \in 1..Len(shown)
                  PROVE  \E l \in DOMAIN shown : shown'[k] = shown[l]
      BY <3>1, <3>2
    <3>3. CASE k = j
      BY <3>2, <3>3
    <3>4. CASE k < j
      BY <3>1, <3>2, <3>4
    <3>5. CASE k > j
      BY <3>1, <3>2, <3>5
    <3>. QED  BY <3>1, <3>3, <3>4, <3>5
  <2>5. DragOf(w)'
    <3>1. shown[i].task \in matching
      BY DEF PathInv
    <3>2. tx'[w] = DragRecord(i, j, at)
      BY <2>1, BeginIs
    <3>3. \A t \in Tasks : DragRecord(i, j, at).wrote[t] = Unwritten
      BY <2>2 DEF Untouched
    <3>. QED  BY <2>1, <2>2, <2>3, <3>1, <3>2, <3>3 DEF DragOf, FirstStep
  <2>6. OpenOf(w)' /\ RowsOf(w)'
    BY <2>1, <2>2, BeginIs DEF OpenOf, RowsOf, FirstStep
  <2>. QED  BY <1>0, <2>1, <2>3, <2>4, <2>5, <2>6 DEF PathInv
<1>2. ASSUME NEW w \in Requests, Open(w)
      PROVE  PathInv'
  <2>. DEFINE y == [Idle EXCEPT !.op = "open", !.step = "missing"]
  <2>1. Begin(w, y) /\ UNCHANGED <<matching, pos, viewLock, shown>>
    BY <1>2 DEF Open
  <2>2. y.op = "open" /\ y.step = "missing" /\ y.heal = {}
    BY DEF Idle
  <2>. HIDE DEF y
  <2>3. tx'[w] = y
    BY <2>1, BeginIs
  <2>4. (DragOf(w) /\ OpenOf(w) /\ RowsOf(w))'
    BY <2>2, <2>3 DEF DragOf, OpenOf, RowsOf
  <2>. QED  BY <1>0, <2>1, <2>4 DEF PathInv
<1>3. ASSUME NEW t \in Tasks, Match(t)
      PROVE  PathInv'
  <2>1. tx' = tx /\ shown' = shown /\ matching \subseteq matching'
    BY <1>3 DEF Match
  <2>. QED  BY <2>1, PathKept DEF PathInv
<1>4. CASE UNCHANGED vars
  BY <1>4, PathKept DEF vars, PathInv
<1>. QED  BY <1>1, <1>2, <1>3, <1>4, ProgressPath DEF Next

\* At first the page shows matching tasks.
LEMMA InitPath == TypeOK /\ Init => PathInv
<1>. SUFFICES ASSUME TypeOK, Init
              PROVE  PathInv
  OBVIOUS
<1>1. \A i \in DOMAIN shown : shown[i].task \in matching
  BY LoadedIs DEF Init, TypeOK
<1>2. \A w \in Requests : DragOf(w) /\ OpenOf(w) /\ RowsOf(w)
  BY IdlePath DEF Init
<1>. QED  BY <1>1, <1>2 DEF PathInv


-----------------------------------------------------------------------------
(* No deadlock among recalculations *)

\* A request waits for rows of tasks.
LEMMA NeedsTasks ==
    ASSUME TypeOK, PathInv, LockInv, NEW w \in Requests
    PROVE  Needs(w) \subseteq Tasks
<1>1. CASE tx[w].step = "upsert"
  <2>1. tx[w].task \in Tasks
    BY <1>1 DEF TypeOK, LockInv, LockOf
  <2>. QED  BY <1>1, <2>1 DEF Needs
<1>2. CASE tx[w].step = "delete"
  <2>1. tx[w].todo \in SUBSET Tasks
    BY DEF TypeOK, Transaction
  <2>. QED  BY <1>2, <2>1 DEF Needs
<1>3. CASE tx[w].step \in {"respace", "insert", "fill"}
  <2>1. Planned(w) # {}
    BY <1>3 DEF PathInv, RowsOf
  <2>2. NextRow(w) \in Tasks
    BY <2>1, NextRowIs DEF Planned
  <2>. QED  BY <1>3, <2>2 DEF Needs
<1>. QED  BY <1>1, <1>2, <1>3 DEF Needs

\* With the lock held or nothing written, a circle of waiting recalculations would
\* contain its holder, who waits for a row of somebody who has written none.
LEMMA LockMeansNoDeadlock ==
    ASSUME TypeOK, PathInv, LockInv
    PROVE  RecalculationsNeverDeadlock
<1>. SUFFICES ASSUME NEW S \in DeadlockedSets, \A w \in S : Recalculates(w)
              PROVE  FALSE
  BY DEF RecalculationsNeverDeadlock
<1>1. /\ S \in SUBSET Requests /\ S # {}
      /\ \A w \in S : \E v \in S \ {w} : WaitsFor(w, v)
  BY DEF DeadlockedSets
<1>2. \A w \in S : viewLock # w => tx[w].step = "lock" /\ Untold(w)
  BY <1>1 DEF Recalculates, LockInv, LockOf
<1>3. \A w \in S : tx[w].step = "lock" => Needs(w) = {}
  BY DEF Needs
<1>4. \E h \in S : viewLock = h
  <2>1. PICK w \in S : TRUE
    BY <1>1
  <2>2. CASE viewLock = w
    BY <2>2
  <2>3. CASE viewLock # w
    <3>1. PICK v \in S \ {w} : WaitsFor(w, v)
      BY <1>1
    <3>. QED  BY <1>2, <1>3, <2>3, <3>1 DEF WaitsFor
  <2>. QED  BY <2>2, <2>3
<1>5. PICK h \in S : viewLock = h
  BY <1>4
<1>6. PICK v \in S \ {h} : WaitsFor(h, v)
  BY <1>1
<1>7. Untold(v)
  BY <1>2, <1>5, <1>6
<1>8. PICK t \in Needs(h) : tx[v].wrote[t] # Unwritten
  BY <1>5, <1>6 DEF WaitsFor
<1>9. t \in Tasks
  <2>1. h \in Requests
    BY <1>1
  <2>2. Needs(h) \subseteq Tasks
    BY <2>1, NeedsTasks
  <2>. QED  BY <1>8, <2>2
<1>. QED  BY <1>7, <1>8, <1>9 DEF Untold

\* Recalculations of a view take its lock before any row, so they never wait for each
\* other in a circle, however many requests there are.
THEOREM RecalculationsDeadlockFree == Spec => []RecalculationsNeverDeadlock
<1>1. Init => LockInv
  BY IdleLock DEF Init, LockInv
<1>. QED
  BY <1>1, InitPath, NextLock, NextPath, LockMeansNoDeadlock, TypeCorrect, PTL DEF Spec

-----------------------------------------------------------------------------
(* The order a recalculation has seen *)

\* What the i-th task it saw gets.
Position(w, i) == (MaxPosition * i) \div Len(tx[w].seen)

\* While a drag recalculates, each task it saw has its new row planned or written.
OrderOf(w) ==
    tx[w].op = "drag" /\ tx[w].seen # <<>> =>
        /\ tx[w].step \in {"scan", "delete", "insert", "commit"}
        /\ Len(tx[w].seen) <= Cardinality(Tasks)
        /\ \A i, j \in DOMAIN tx[w].seen : tx[w].seen[i] = tx[w].seen[j] => i = j
        /\ \A i \in DOMAIN tx[w].seen :
              \/ tx[w].step # "commit" /\ tx[w].plan[tx[w].seen[i]] = Position(w, i)
              \/ /\ tx[w].step \in {"insert", "commit"}
                 /\ tx[w].wrote[tx[w].seen[i]] = Position(w, i)
                 /\ tx[w].plan[tx[w].seen[i]] = Unwritten
        /\ \A t \in Tasks \ Range(tx[w].seen) : tx[w].plan[t] = Unwritten

\* The recalculation of a drag writes exactly the rows of its plan, all of them.
OrderInv == \A w \in Requests : OrderOf(w)

\* It is a matter of the request alone.
LEMMA OrderKept ==
    ASSUME NEW v \in Requests, OrderOf(v), tx'[v].op = tx[v].op, tx'[v].step = tx[v].step,
           tx'[v].seen = tx[v].seen, tx'[v].plan = tx[v].plan, tx'[v].wrote = tx[v].wrote
    PROVE  OrderOf(v)'
<1>1. \A i \in DOMAIN tx[v].seen : Position(v, i)' = Position(v, i)
  BY DEF Position
<1>. QED  BY <1>1 DEF OrderOf

\* A request that is not under way recalculates nothing.
LEMMA IdleOrder ==
    ASSUME NEW w \in Requests, tx[w] = Idle
    PROVE  OrderOf(w)
  BY DEF OrderOf, Idle

\* The new positions grow with the place in the order.
LEMMA PositionIs ==
    ASSUME TypeOK, NEW w \in Requests, tx[w].seen # <<>>,
           Len(tx[w].seen) <= Cardinality(Tasks)
    PROVE  /\ \A i \in DOMAIN tx[w].seen : Position(w, i) \in Nat
           /\ \A i, j \in DOMAIN tx[w].seen : i < j => Position(w, i) < Position(w, j)
<1>. DEFINE n == Len(tx[w].seen)
<1>1. n \in Nat \ {0} /\ DOMAIN tx[w].seen = 1..n /\ n <= MaxPosition
  BY Room DEF TypeOK, Transaction
<1>. HIDE DEF n
<1>2. \A i \in 1..n : MaxPosition * i \in Nat /\ i \in Nat
  BY <1>1, Room
<1>3. \A i \in 1..n : (MaxPosition * i) \div n \in Nat
  BY <1>1, <1>2, Quotient
<1>4. \A i, j \in 1..n : i < j => (MaxPosition * i) \div n < (MaxPosition * j) \div n
  BY <1>1, <1>2, Room, SpreadGrows
<1>. QED  BY <1>1, <1>3, <1>4 DEF Position, n

\* The search plans them all.
LEMMA SearchOrder ==
    ASSUME TypeOK, NEW w \in Requests, searchTasks(w)
    PROVE  OrderOf(w)'
<1>. DEFINE o == Ordered(Rows(w), matching)
<1>1. Rows(w) \in Table /\ matching \in SUBSET Tasks
  BY RowsIs DEF TypeOK
<1>2. /\ o \in Seq(Tasks) /\ DOMAIN o = 1..Cardinality(matching)
      /\ Len(o) = Cardinality(matching)
      /\ \A i, j \in 1..Cardinality(matching) : o[i] = o[j] => i = j
      /\ \A t \in matching : \E i \in 1..Cardinality(matching) : o[i] = t
  BY <1>1, OrderedIs
<1>3. /\ PlanFor(Spread(o), matching)
      /\ \A i \in 1..Cardinality(matching) :
            Spread(o)[o[i]] = (MaxPosition * i) \div Cardinality(matching)
  BY <1>1, SpreadIs
<1>4. Cardinality(matching) <= Cardinality(Tasks)
  BY <1>1, FiniteTasks
<1>. HIDE DEF o
<1>5. Range(o) = matching
  <2>1. \A t \in matching : t \in Range(o)
    BY <1>2 DEF Range
  <2>2. o \in [1..Cardinality(matching) -> matching]
    BY <1>1, OrderedIs DEF o
  <2>3. \A t \in Range(o) : t \in matching
    BY <2>2 DEF Range
  <2>. QED  BY <2>1, <2>3
<1>6. \A t \in Tasks \ matching : Spread(o)[t] = Unwritten
  BY <1>3 DEF PlanFor
<1>7. tx'[w].seen = o /\ tx'[w].plan = Spread(o) /\ tx'[w].step = "scan"
  BY SearchIs DEF o
<1>8. \A i \in DOMAIN o : Position(w, i)' = (MaxPosition * i) \div Cardinality(matching)
  BY <1>2, <1>7 DEF Position
<1>9. \A i \in DOMAIN o : Spread(o)[o[i]] = Position(w, i)'
  BY <1>2, <1>3, <1>8
<1>. QED  BY <1>2, <1>4, <1>5, <1>6, <1>7, <1>9 DEF OrderOf

\* Each write makes the next of them, overwriting what it finds.
LEMMA WriteOrder ==
    ASSUME TypeOK, PathInv, OrderInv, NEW w \in Requests, writeRow(w)
    PROVE  OrderOf(w)'
<1>. DEFINE x == tx[w]
            y == tx'[w]
            t == NextRow(w)
<1>. SUFFICES ASSUME x.op = "drag", x.seen # <<>>
              PROVE  OrderOf(w)'
  BY WriteIs DEF OrderOf, Kept
<1>1. /\ x.step = "insert"
      /\ DragOf(w) /\ RowsOf(w) /\ OrderOf(w)
  BY WriteIs DEF PathInv, DragOf, OrderInv
<1>2. t \in Planned(w)
  BY <1>1, NextRowIs DEF RowsOf
<1>3. /\ x.plan \in [Tasks -> Nat \cup {Unwritten}] /\ x.seen \in Seq(Tasks)
      /\ x.wrote \in [Tasks -> Nat \cup {NoPosition, Unwritten}]
      /\ t \in Tasks /\ x.plan[t] # Unwritten
  BY <1>2 DEF TypeOK, Transaction, Planned
<1>4. /\ Len(x.seen) <= Cardinality(Tasks)
      /\ \A i, j \in DOMAIN x.seen : x.seen[i] = x.seen[j] => i = j
      /\ \A i \in DOMAIN x.seen :
            \/ x.plan[x.seen[i]] = Position(w, i)
            \/ x.wrote[x.seen[i]] = Position(w, i) /\ x.plan[x.seen[i]] = Unwritten
      /\ \A u \in Tasks \ Range(x.seen) : x.plan[u] = Unwritten
  BY <1>1 DEF OrderOf
<1>5. /\ y.op = "drag" /\ y.seen = x.seen
      /\ y.plan = [x.plan EXCEPT ![t] = Unwritten]
      /\ y.wrote = [x.wrote EXCEPT ![t] = x.plan[t]]
      /\ y.step = IF Planned(w) # {t} THEN "insert" ELSE "commit"
  BY <1>1, WriteIs DEF Kept, RowWritten
<1>. HIDE DEF t, y
<1>6. \A i \in DOMAIN x.seen : x.seen[i] \in Tasks /\ Position(w, i) \in Nat
  BY <1>3, <1>4, PositionIs
<1>7. \A i \in DOMAIN x.seen : Position(w, i)' = Position(w, i)
  BY <1>5 DEF Position, y
<1>8. ASSUME NEW i \in DOMAIN x.seen
      PROVE  \/ y.step # "commit" /\ y.plan[x.seen[i]] = Position(w, i)
             \/ y.wrote[x.seen[i]] = Position(w, i) /\ y.plan[x.seen[i]] = Unwritten
  <2>1. CASE x.seen[i] = t
    <3>1. x.plan[t] = Position(w, i)
      BY <1>3, <1>4, <2>1
    <3>2. y.wrote[t] = x.plan[t] /\ y.plan[t] = Unwritten
      BY <1>3, <1>5
    <3>. QED  BY <2>1, <3>1, <3>2
  <2>2. CASE x.seen[i] # t
    <3>1. y.plan[x.seen[i]] = x.plan[x.seen[i]] /\ y.wrote[x.seen[i]] = x.wrote[x.seen[i]]
      BY <1>3, <1>5, <1>6, <2>2
    <3>2. x.plan[x.seen[i]] = Position(w, i) => x.seen[i] \in Planned(w)
      BY <1>6, NamesAssumption DEF Planned
    <3>3. x.plan[x.seen[i]] = Position(w, i) => y.step # "commit"
      BY <1>5, <2>2, <3>2
    <3>. QED  BY <1>4, <3>1, <3>3
  <2>. QED  BY <2>1, <2>2
<1>9. \A u \in Tasks \ Range(x.seen) : y.plan[u] = Unwritten
  BY <1>3, <1>4, <1>5
<1>10. y.step \in {"insert", "commit"}
  BY <1>5
<1>. QED  BY <1>4, <1>5, <1>7, <1>8, <1>9, <1>10 DEF OrderOf, y

\* No statement of a recalculation loses one.
LEMMA ProgressOrder ==
    ASSUME TypeOK, PathInv, LockInv, OrderInv, NEW w \in Requests, Progress(w)
    PROVE  OrderInv'
<1>. DEFINE x == tx[w]
<1>0. DragOf(w) /\ OpenOf(w) /\ LockOf(w) /\ OrderOf(w)
  BY DEF PathInv, LockInv, OrderInv
<1>1. ASSUME \A v \in Requests \ {w} : tx'[v] = tx[v], OrderOf(w)'
      PROVE  OrderInv'
  BY <1>1, OrderKept DEF OrderInv
<1>2. ASSUME tx'[w] = Idle, \A v \in Requests \ {w} : tx'[v] = tx[v]
      PROVE  OrderInv'
  <2>1. OrderOf(w)'
    BY <1>2 DEF OrderOf, Idle
  <2>. QED  BY <1>1, <1>2, <2>1
<1>3. ASSUME x.op = "drag" => x.seen = <<>>, tx'[w].op = x.op, tx'[w].seen = x.seen
      PROVE  OrderOf(w)'
  BY <1>3 DEF OrderOf
<1>4. CASE lockPositionsForViewUpdate(w)
  BY <1>0, <1>1, <1>3, <1>4, LockIs DEF DragOf
<1>5. CASE upsertTaskPosition(w)
  BY <1>0, <1>1, <1>3, <1>5, UpsertIs DEF DragOf, Kept
<1>6. CASE findPositionConflicts(w)
  BY <1>0, <1>1, <1>3, <1>6, ConflictsIs DEF DragOf, Kept
<1>7. CASE findNeighbours(w)
  BY <1>0, <1>1, <1>2, <1>3, <1>7, RespaceIs, RollBackIs DEF DragOf, Kept
<1>8. CASE searchTasks(w)
  BY <1>1, <1>8, SearchIs, SearchOrder DEF Kept
<1>9. CASE scanRows(w)
  <2>1. /\ x.step = "scan" /\ tx'[w].step = "delete" /\ tx'[w].op = x.op
        /\ tx'[w].seen = x.seen /\ tx'[w].plan = x.plan
        /\ \A i \in DOMAIN x.seen : Position(w, i)' = Position(w, i)
    BY <1>9, ScanIs DEF Kept, Position
  <2>2. OrderOf(w)'
    BY <1>0, <2>1 DEF OrderOf
  <2>. QED  BY <1>1, <1>9, <2>2, ScanIs DEF Kept
<1>10. CASE deleteRow(w)
  <2>1. /\ x.step = "delete" /\ tx'[w].step \in {"delete", "insert"} /\ tx'[w].op = x.op
        /\ tx'[w].seen = x.seen /\ tx'[w].plan = x.plan
        /\ \A i \in DOMAIN x.seen : Position(w, i)' = Position(w, i)
    BY <1>10, DeleteIs DEF Kept, Position
  <2>2. OrderOf(w)'
    BY <1>0, <2>1 DEF OrderOf
  <2>. QED  BY <1>1, <1>10, <2>2, DeleteIs DEF Kept
<1>11. CASE findMissing(w)
  BY <1>0, <1>1, <1>3, <1>11, MissingIs DEF LockOf, Kept
<1>12. CASE findLowest(w)
  BY <1>0, <1>1, <1>3, <1>12, LowestIs DEF LockOf, Kept
<1>13. CASE placeAdded(w)
  BY <1>0, <1>1, <1>3, <1>13, PlaceAddedIs DEF DragOf, Kept
<1>14. CASE writeRow(w)
  BY <1>1, <1>14, WriteIs, WriteOrder DEF Kept
<1>15. CASE Commit(w)
  BY <1>2, <1>15, CommitIs
<1>16. CASE DeadlockVictim(w)
  BY <1>2, <1>16, RollBackIs DEF DeadlockVictim
<1>. QED
  BY <1>4, <1>5, <1>6, <1>7, <1>8, <1>9, <1>10, <1>11, <1>12, <1>13, <1>14, <1>15, <1>16
     DEF Progress

\* No step of the system does.
LEMMA NextOrder ==
    ASSUME TypeOK, PathInv, LockInv, OrderInv, [Next]_vars
    PROVE  OrderInv'
<1>1. ASSUME NEW w \in Requests, NEW record, Begin(w, record), record.seen = <<>>
      PROVE  OrderInv'
  <2>1. OrderOf(w)'
    BY <1>1, BeginIs DEF OrderOf
  <2>2. ASSUME NEW v \in Requests, v # w
        PROVE  OrderOf(v)'
    BY <1>1, <2>2, BeginIs, OrderKept DEF OrderInv
  <2>. QED  BY <2>1, <2>2 DEF OrderInv
<1>2. ASSUME NEW w \in Requests, Drag(w)
      PROVE  OrderInv'
  <2>1. PICK i \in DOMAIN shown, j \in DOMAIN shown, at \in Nat :
           Begin(w, DragRecord(i, j, at))
    BY <1>2, DragIs
  <2>2. DragRecord(i, j, at).seen = <<>>
    BY Zenon DEF DragRecord, Idle
  <2>. QED  BY <1>1, <2>1, <2>2
<1>3. ASSUME NEW w \in Requests, Open(w)
      PROVE  OrderInv'
  <2>. DEFINE y == [Idle EXCEPT !.op = "open", !.step = "missing"]
  <2>1. Begin(w, y) /\ y.seen = <<>>
    BY <1>3 DEF Open, Idle
  <2>. HIDE DEF y
  <2>. QED  BY <1>1, <2>1
<1>4. ASSUME NEW t \in Tasks, Match(t)
      PROVE  OrderInv'
  BY <1>4, OrderKept DEF Match, OrderInv
<1>5. CASE UNCHANGED vars
  BY <1>5, OrderKept DEF vars, OrderInv
<1>. QED  BY <1>2, <1>3, <1>4, <1>5, ProgressOrder DEF Next

\* A transaction that commits is not undone instead.
LEMMA CommitEnds ==
    ASSUME TypeOK, [Next]_vars, NEW w \in Requests, tx[w].step = "commit", tx'[w] = Idle
    PROVE  Commit(w)
<1>0. tx[w] # Idle
  BY DEF Idle
<1>1. ASSUME NEW v \in Requests, v # w, Progress(v)
      PROVE  tx'[w] = tx[w]
  BY <1>1, LockIs, UpsertIs, ConflictsIs, RespaceIs, RollBackIs, SearchIs, ScanIs, DeleteIs,
     MissingIs, LowestIs, PlaceAddedIs, WriteIs, CommitIs
     DEF Progress, Kept, DeadlockVictim
<1>2. ASSUME NEW v \in Requests, NEW record, Begin(v, record)
      PROVE  FALSE
  <2>1. v # w /\ tx'[w].step = tx[w].step
    BY <1>0, <1>2, BeginIs
  <2>. QED  BY <2>1 DEF Idle
<1>3. ASSUME NEW v \in Requests, Drag(v)
      PROVE  FALSE
  BY <1>2, <1>3, DragIs
<1>4. ASSUME NEW v \in Requests, Open(v)
      PROVE  FALSE
  BY <1>2, <1>4 DEF Open
<1>5. ~ DeadlockVictim(w)
  BY DEF DeadlockVictim, DeadlockedSets, WaitsFor, Needs
<1>6. Progress(w) => Commit(w)
  BY <1>5, LockIs, UpsertIs, ConflictsIs, RespaceIs, SearchIs, ScanIs, DeleteIs, MissingIs,
     LowestIs, PlaceAddedIs, WriteIs DEF Progress
<1>7. ASSUME NEW t \in Tasks, Match(t)
      PROVE  FALSE
  BY <1>0, <1>7 DEF Match
<1>. QED  BY <1>0, <1>1, <1>3, <1>4, <1>6, <1>7 DEF Next, vars

\* What a drag's recalculation has written when it commits.
LEMMA SeenIsSorted ==
    ASSUME TypeOK, OrderInv, NEW w \in Requests, tx[w].op = "drag", tx[w].seen # <<>>,
           tx[w].step = "commit"
    PROVE  /\ \A i \in DOMAIN tx[w].seen : Rows(w)[tx[w].seen[i]] = Position(w, i)
           /\ Sorted(Rows(w), tx[w].seen)
<1>. DEFINE s == tx[w].seen
<1>1. /\ s \in Seq(Tasks) /\ Len(s) <= Cardinality(Tasks)
      /\ \A i \in DOMAIN s : s[i] \in Tasks /\ tx[w].wrote[s[i]] = Position(w, i)
  BY DEF TypeOK, Transaction, OrderInv, OrderOf
<1>2. /\ \A i \in DOMAIN s : Position(w, i) \in Nat
      /\ \A i, j \in DOMAIN s : i < j => Position(w, i) < Position(w, j)
  BY <1>1, PositionIs
<1>. HIDE DEF s
<1>3. \A i \in DOMAIN s : Rows(w)[s[i]] = Position(w, i)
  BY <1>1, <1>2, NamesAssumption DEF Rows
<1>4. Sorted(Rows(w), s)
  BY <1>2, <1>3, NamesAssumption DEF Sorted, Precedes
<1>. QED  BY <1>3, <1>4 DEF s

\* The commit of a recalculating drag publishes its tasks in the order it found.
LEMMA StepKeepsOrder ==
    ASSUME TypeOK, OrderInv, [Next]_vars, NEW w \in Requests,
           tx[w].op = "drag", tx[w].seen # <<>>, tx[w].step = "commit", tx'[w] = Idle
    PROVE  /\ Ordered(pos', Range(tx[w].seen)) = tx[w].seen
           /\ \A t, u \in Range(tx[w].seen) : t # u => pos'[t] # pos'[u]
<1>. DEFINE s == tx[w].seen
<1>1. pos' = Rows(w)
  BY CommitEnds, CommitIs
<1>2. /\ \A i \in DOMAIN s : Rows(w)[s[i]] = Position(w, i)
      /\ Sorted(Rows(w), s)
  BY SeenIsSorted
<1>3. s \in Seq(Tasks) /\ Rows(w) \in Table /\ Len(s) <= Cardinality(Tasks)
  BY RowsIs DEF TypeOK, Transaction, OrderInv, OrderOf
<1>4. /\ \A i \in DOMAIN s : Position(w, i) \in Nat
      /\ \A i, j \in DOMAIN s : i < j => Position(w, i) < Position(w, j)
  BY <1>3, PositionIs
<1>5. s # <<>>
  OBVIOUS
<1>. HIDE DEF s
<1>6. Ordered(Rows(w), Range(s)) = s
  BY <1>2, <1>3, OrderedUnique
<1>7. ASSUME NEW t \in Range(s), NEW u \in Range(s), t # u
      PROVE  Rows(w)[t] # Rows(w)[u]
  <2>1. PICK i \in DOMAIN s : s[i] = t
    BY DEF Range
  <2>2. PICK j \in DOMAIN s : s[j] = u
    BY DEF Range
  <2>3. i \in Nat /\ j \in Nat /\ i # j
    BY <1>3, <1>7, <2>1, <2>2
  <2>4. Position(w, i) < Position(w, j) \/ Position(w, j) < Position(w, i)
    BY <1>4, <2>3
  <2>. QED  BY <1>2, <1>4, <2>1, <2>2, <2>4
<1>. QED  BY <1>1, <1>6, <1>7 DEF s

\* The list a drag's recalculation has found is committed in the order it found it in,
\* without two tasks at one position, whatever other requests commit in between.
THEOREM RecalculationIsAuthoritative == Spec => RecalculationKeepsItsOrder
<1>1. Init => LockInv /\ OrderInv
  BY IdleLock, IdleOrder DEF Init, LockInv, OrderInv
<1>2. TypeOK /\ OrderInv /\ [Next]_vars
        => [\A w \in Requests :
               tx[w].op = "drag" /\ tx[w].seen # <<>> /\ tx[w].step = "commit" /\ tx'[w] = Idle
                   => /\ Ordered(pos', Range(tx[w].seen)) = tx[w].seen
                      /\ \A t, u \in Range(tx[w].seen) : t # u => pos'[t] # pos'[u]]_vars
  BY StepKeepsOrder
<1>. QED
  BY <1>1, <1>2, InitPath, NextLock, NextPath, NextOrder, TypeCorrect, PTL
     DEF Spec, RecalculationKeepsItsOrder

-----------------------------------------------------------------------------
(* Requests that follow one another *)

\* The rows as they will be when a request has written what it has planned.
Final(w) ==
    [t \in Tasks |->
        IF \/ tx[w].plan[t] = Unwritten
           \/ tx[w].step = "respace" /\ Rows(w)[t] = NoPosition
           \/ tx[w].step = "fill" /\ Rows(w)[t] # NoPosition
        THEN Rows(w)[t] ELSE tx[w].plan[t]]

\* Every row has room for all tasks below it.
High(rows) == \A t \in Placed(rows) : rows[t] > Cardinality(Tasks)

\* What a request alone in the view may count on, step by step.
SerialOf(w) ==
    /\ tx[w].step = "bounds" => tx[w].todo = {t \in Tasks : Rows(w)[t] = tx[w].at}
    /\ tx[w].step \in {"scan", "delete"} =>
          /\ \A t, u \in Planned(w) : t # u => tx[w].plan[t] # tx[w].plan[u]
          /\ \A t \in Planned(w) : tx[w].plan[t] > Cardinality(Tasks)
    /\ tx[w].step = "delete" => Placed(Rows(w)) \subseteq tx[w].todo
    /\ tx[w].step \in {"respace", "insert", "fill"} => Distinct(Final(w))
    /\ tx[w].step = "insert" => High(Final(w))
    /\ tx[w].step \in {"place", "commit"} => Distinct(Rows(w))
    /\ tx[w].step = "place" => High(Rows(w))

\* One request at a time, whose rows will be distinct when it is done.
SerialInv ==
    ~contended =>
        /\ Distinct(pos)
        /\ \A v, w \in Requests : v # w => tx[v] = Idle \/ tx[w] = Idle
        /\ \A w \in Requests : SerialOf(w)

\* One that is not under way counts on nothing.
LEMMA IdleSerial ==
    ASSUME NEW w \in Requests, tx[w] = Idle
    PROVE  SerialOf(w)
  BY DEF SerialOf, Idle

\* What a transaction reads changes by its own writes and by commits only.
LEMMA RowsKept ==
    ASSUME NEW w \in Requests, tx'[w].wrote = tx[w].wrote, pos' = pos
    PROVE  Rows(w)' = Rows(w)
  BY DEF Rows

\* A transaction that has written nothing reads what is committed.
LEMMA UntoldRows ==
    ASSUME TypeOK, NEW w \in Requests, Untold(w)
    PROVE  Rows(w) = pos
<1>1. pos \in [Tasks -> Nat \cup {NoPosition}]
  BY DEF TypeOK, Table
<1>2. Rows(w) = [t \in Tasks |-> pos[t]]
  BY DEF Rows, Untold
<1>. QED  BY <1>1, <1>2

\* Before it recalculates, a drag has changed its own row.
LEMMA OwnRow ==
    ASSUME TypeOK, PathInv, NEW w \in Requests, tx[w].step \in {"check", "bounds"}
    PROVE  /\ tx[w].op = "drag" /\ tx[w].task \in Tasks /\ tx[w].at \in Nat
           /\ Rows(w)[tx[w].task] = tx[w].at
           /\ \A t \in Tasks \ {tx[w].task} : Rows(w)[t] = pos[t]
<1>1. tx[w].op = "drag" /\ tx[w].task \in Tasks /\ tx[w].at \in Nat
  BY IdleIs DEF TypeOK, Transaction, PathInv, OpenOf
<1>2. /\ tx[w].wrote[tx[w].task] = tx[w].at
      /\ \A t \in Tasks \ {tx[w].task} : tx[w].wrote[t] = Unwritten
  BY <1>1 DEF PathInv, DragOf
<1>. QED  BY <1>1, <1>2, NamesAssumption DEF Rows

\* Rows that are apart, with a plan apart from them put in.
LEMMA ApartIs ==
    ASSUME NEW rows \in Table, NEW plan \in Plan, NEW S \in SUBSET Tasks,
           NEW final \in Table,
           \A t \in S : final[t] = plan[t],
           \A t \in Tasks \ S : final[t] = rows[t],
           PlanFor(plan, S),
           \A t, u \in Placed(rows) \ S : t # u => rows[t] # rows[u],
           \A t \in S : \A u \in Placed(rows) \ S : plan[t] # rows[u]
    PROVE  Distinct(final)
<1>. SUFFICES ASSUME NEW t \in Placed(final), NEW u \in Placed(final), t # u
              PROVE  final[t] # final[u]
  BY DEF Distinct
<1>1. /\ t \in Tasks /\ u \in Tasks
      /\ t \notin S => t \in Placed(rows) \ S
      /\ u \notin S => u \in Placed(rows) \ S
  BY DEF Placed
<1>. QED  BY <1>1 DEF PlanFor

\* What a request will have written are rows.
LEMMA FinalIs ==
    ASSUME TypeOK, NEW w \in Requests
    PROVE  Final(w) \in Table
<1>1. Rows(w) \in [Tasks -> Nat \cup {NoPosition}] /\ tx[w].plan \in [Tasks -> Nat \cup {Unwritten}]
  BY RowsIs DEF Table, TypeOK, Transaction
<1>. QED  BY <1>1 DEF Final, Table

\* Writing a row that was planned brings nothing new.
LEMMA FinalKept ==
    ASSUME TypeOK, PathInv, NEW w \in Requests, writeRow(w)
    PROVE  /\ Final(w)' = Final(w)
           /\ tx'[w].step \notin {"respace", "insert", "fill"} => Rows(w)' = Final(w)
<1>. DEFINE x == tx[w]
            y == tx'[w]
            t == NextRow(w)
            r == RowWritten(w, t)
<1>1. t \in Planned(w) /\ t \in Tasks /\ x.plan[t] # Unwritten
  BY WriteIs, NextRowIs DEF PathInv, RowsOf, Planned
<1>2. /\ x.plan \in [Tasks -> Nat \cup {Unwritten}]
      /\ x.wrote \in [Tasks -> Nat \cup {NoPosition, Unwritten}]
      /\ pos \in [Tasks -> Nat \cup {NoPosition}]
  BY DEF TypeOK, Transaction, Table
<1>3. /\ x.step \in {"respace", "insert", "fill"} /\ pos' = pos
      /\ y.plan = [x.plan EXCEPT ![t] = Unwritten]
      /\ y.wrote = [x.wrote EXCEPT ![t] = r]
      /\ y.step = IF Planned(w) # {t} THEN x.step
                  ELSE IF x.step = "insert" /\ x.op = "open" THEN "place" ELSE "commit"
  BY WriteIs DEF Kept
<1>4. /\ x.step = "respace" /\ Rows(w)[t] = NoPosition => r = x.wrote[t]
      /\ x.step = "fill" /\ Rows(w)[t] # NoPosition => r = x.wrote[t]
      /\ ~(x.step = "respace" /\ Rows(w)[t] = NoPosition)
         /\ ~(x.step = "fill" /\ Rows(w)[t] # NoPosition) => r = x.plan[t]
  BY <1>3 DEF RowWritten
<1>. HIDE DEF t, r, y
<1>5. \A u \in Tasks \ {t} : Rows(w)'[u] = Rows(w)[u] /\ y.plan[u] = x.plan[u]
  BY <1>1, <1>2, <1>3 DEF Rows, y
<1>6. Rows(w)'[t] = IF r # Unwritten THEN r ELSE pos[t]
  BY <1>1, <1>2, <1>3 DEF Rows, y
<1>7. Rows(w)[t] = IF x.wrote[t] # Unwritten THEN x.wrote[t] ELSE pos[t]
  BY <1>1 DEF Rows
<1>8. y.plan[t] = Unwritten
  BY <1>1, <1>2, <1>3
<1>9. Rows(w)'[t] = Final(w)[t]
  BY <1>1, <1>4, <1>6, <1>7 DEF Final
<1>10. \A u \in Tasks : Final(w)'[u] =
          IF \/ y.plan[u] = Unwritten
             \/ y.step = "respace" /\ Rows(w)'[u] = NoPosition
             \/ y.step = "fill" /\ Rows(w)'[u] # NoPosition
          THEN Rows(w)'[u] ELSE y.plan[u]
  BY DEF Final, y
<1>11. y.step # x.step => \A u \in Tasks \ {t} : x.plan[u] = Unwritten
  BY <1>3 DEF Planned
<1>12. \A u \in Tasks : Final(w)'[u] = Final(w)[u]
  <2>. TAKE u \in Tasks
  <2>1. CASE u = t
    BY <1>8, <1>9, <1>10, <2>1
  <2>2. CASE u # t /\ y.step = x.step
    BY <1>5, <1>10, <2>2 DEF Final
  <2>3. CASE u # t /\ y.step # x.step
    BY <1>5, <1>10, <1>11, <2>3 DEF Final
  <2>. QED  BY <2>1, <2>2, <2>3
<1>13. Final(w)' = Final(w)
  BY <1>12 DEF Final
<1>14. y.step \notin {"respace", "insert", "fill"} => \A u \in Tasks : Rows(w)'[u] = Final(w)[u]
  <2>. SUFFICES ASSUME y.step \notin {"respace", "insert", "fill"}, NEW u \in Tasks
                PROVE  Rows(w)'[u] = Final(w)[u]
    OBVIOUS
  <2>1. u # t => x.plan[u] = Unwritten
    BY <1>3, <1>11
  <2>. QED  BY <1>5, <1>9, <2>1 DEF Final
<1>15. y.step \notin {"respace", "insert", "fill"} => Rows(w)' = Final(w)
  BY <1>14 DEF Final, Rows
<1>. QED  BY <1>13, <1>15 DEF y

\* Without a conflict a drag leaves no two tasks at one position.
LEMMA NoConflict ==
    ASSUME TypeOK, PathInv, Distinct(pos), NEW w \in Requests, tx[w].step = "check",
           ~(Cardinality({t \in Tasks : Rows(w)[t] = tx[w].at}) > 1)
    PROVE  Distinct(Rows(w))
<1>. DEFINE C == {t \in Tasks : Rows(w)[t] = tx[w].at}
<1>1. /\ tx[w].task \in C
      /\ \A t \in Tasks \ {tx[w].task} : Rows(w)[t] = pos[t]
      /\ Rows(w)[tx[w].task] = tx[w].at
  BY OwnRow
<1>2. \A t \in C : t = tx[w].task
  <2>. SUFFICES ASSUME NEW t \in C, t # tx[w].task
                PROVE  FALSE
    OBVIOUS
  <2>1. C \in SUBSET Tasks
    OBVIOUS
  <2>2. IsFiniteSet(C) /\ Cardinality(C) \in Nat
    BY <2>1, FiniteTasks
  <2>3. IsFiniteSet({t, tx[w].task}) /\ Cardinality({t, tx[w].task}) = 2
    <3>. DEFINE d == tx[w].task
    <3>1. t # d
      OBVIOUS
    <3>. HIDE DEF d
    <3>2. {t, d} = {d} \cup {t} /\ t \notin {d}
      BY <3>1
    <3>3. IsFiniteSet({d}) /\ Cardinality({d}) = 1
      BY FS_Singleton
    <3>4. IsFiniteSet({d} \cup {t}) /\ Cardinality({d} \cup {t}) = 1 + 1
      BY <3>2, <3>3, FS_AddElement
    <3>5. IsFiniteSet({t, d}) /\ Cardinality({t, d}) = 2
      BY <3>2, <3>4
    <3>. QED  BY <3>5 DEF d
  <2>4. {t, tx[w].task} \subseteq C
    BY <1>1
  <2>5. Cardinality({t, tx[w].task}) <= Cardinality(C)
    BY <2>2, <2>4, FS_Subset
  <2>. QED  BY <2>2, <2>3, <2>5
<1>. SUFFICES ASSUME NEW t \in Placed(Rows(w)), NEW u \in Placed(Rows(w)), t # u,
                     Rows(w)[t] = Rows(w)[u]
              PROVE  FALSE
  BY DEF Distinct
<1>3. t \in Tasks /\ u \in Tasks /\ Rows(w)[t] # NoPosition /\ Rows(w)[u] # NoPosition
  BY DEF Placed
<1>4. CASE t # tx[w].task /\ u # tx[w].task
  BY <1>1, <1>3, <1>4 DEF Distinct, Placed
<1>5. CASE t = tx[w].task \/ u = tx[w].task
  <2>1. t \in C /\ u \in C
    BY <1>1, <1>3, <1>5
  <2>. QED  BY <1>2, <2>1
<1>. QED  BY <1>4, <1>5

\* After the search for conflicts: none, or all of them known.
LEMMA SerialChecks ==
    ASSUME TypeOK, PathInv, Distinct(pos), NEW w \in Requests, findPositionConflicts(w)
    PROVE  SerialOf(w)'
<1>1. Rows(w)' = Rows(w) /\ tx[w].step = "check" /\ tx'[w].at = tx[w].at
  BY ConflictsIs, RowsKept DEF Kept
<1>2. CASE tx'[w].step = "bounds"
  <2>1. tx'[w].todo = {t \in Tasks : Rows(w)[t] = tx[w].at}
    BY <1>2, ConflictsIs
  <2>. QED  BY <1>1, <1>2, <2>1 DEF SerialOf
<1>3. CASE tx'[w].step # "bounds"
  <2>1. ~(Cardinality({t \in Tasks : Rows(w)[t] = tx[w].at}) > 1) /\ tx'[w].step = "commit"
    BY <1>3, ConflictsIs
  <2>2. Distinct(Rows(w))
    BY <1>1, <2>1, NoConflict
  <2>. QED  BY <1>1, <2>1, <2>2 DEF SerialOf
<1>. QED  BY <1>2, <1>3

\* Moved between the neighbours of their position, tasks in conflict are apart.
LEMMA SerialRespaces ==
    ASSUME TypeOK, PathInv, Distinct(pos), NEW w \in Requests, SerialOf(w),
           findNeighbours(w), ~RollBack(w)
    PROVE  SerialOf(w)'
<1>. DEFINE S == tx[w].todo
            rows == Rows(w)
            plan == Within(ById(tx[w].todo), Lower(w), Upper(w))
            final == Final(w)'
<1>1. /\ tx[w].step = "bounds" /\ Rows(w)' = rows
      /\ tx'[w].step = "respace" /\ tx'[w].plan = plan
  BY RespaceIs, RowsKept DEF Kept
<1>2. S = {t \in Tasks : rows[t] = tx[w].at} /\ S \in SUBSET Tasks
  BY <1>1 DEF SerialOf
<1>3. PlanFor(plan, S) /\ \A t \in S : Lower(w) < plan[t] /\ plan[t] < Upper(w)
  BY RespaceIs, NeighboursIs
<1>4. /\ \A n \in Taken(rows) : n < tx[w].at => n <= Lower(w)
      /\ \A n \in Taken(rows) : n > tx[w].at => n >= Upper(w)
      /\ Lower(w) \in Nat /\ Upper(w) \in Nat
  BY NeighboursIs
<1>5. rows \in Table /\ \A t \in Placed(rows) : rows[t] \in Taken(rows) /\ rows[t] \in Nat
  BY RowsIs, TakenIs
<1>6. /\ tx[w].task \in S /\ tx[w].at \in Nat
      /\ \A t \in Tasks \ {tx[w].task} : rows[t] = pos[t]
  BY <1>1, <1>2, OwnRow
<1>. HIDE DEF S, rows, plan
<1>7. final = [t \in Tasks |-> IF plan[t] = Unwritten \/ rows[t] = NoPosition
                               THEN rows[t] ELSE plan[t]]
  BY <1>1 DEF Final
<1>. HIDE DEF final
<1>8. \A t \in S : t \in Tasks /\ plan[t] # Unwritten /\ rows[t] = tx[w].at /\ rows[t] # NoPosition
  BY <1>2, <1>3, <1>6, NamesAssumption DEF PlanFor
<1>9. \A t \in S : final[t] = plan[t]
  BY <1>7, <1>8
<1>10. \A t \in Tasks \ S : final[t] = rows[t]
  BY <1>3, <1>7 DEF PlanFor
<1>11. plan \in Plan /\ \A t \in S : plan[t] \in Nat
  BY <1>3, <1>8 DEF PlanFor, Plan
<1>12. final \in Table
  <2>1. \A t \in Tasks : final[t] \in Nat \cup {NoPosition}
    BY <1>5, <1>9, <1>10, <1>11 DEF Table
  <2>. QED  BY <1>7, <2>1 DEF Table
<1>13. \A t, u \in Placed(rows) \ S : t # u => rows[t] # rows[u]
  BY <1>6 DEF Distinct, Placed
<1>14. ASSUME NEW t \in S, NEW u \in Placed(rows) \ S
       PROVE  plan[t] # rows[u]
  <2>1. rows[u] \in Taken(rows) /\ rows[u] \in Nat /\ rows[u] # tx[w].at
    BY <1>2, <1>5 DEF Placed
  <2>. QED  BY <1>3, <1>4, <1>6, <1>11, <2>1
<1>15. Distinct(final)
  BY <1>2, <1>3, <1>5, <1>9, <1>10, <1>11, <1>12, <1>13, <1>14, ApartIs
<1>. QED  BY <1>1, <1>15 DEF SerialOf, final

\* A recalculation plans positions that differ, above the room for every task.
LEMMA SerialSearches ==
    ASSUME TypeOK, NEW w \in Requests, searchTasks(w)
    PROVE  SerialOf(w)'
<1>. DEFINE plan == Spread(Ordered(Rows(w), matching))
<1>1. Rows(w) \in Table /\ matching \in SUBSET Tasks
  BY RowsIs DEF TypeOK
<1>2. PlanFor(plan, matching) /\ \A t \in matching : plan[t] > Cardinality(Tasks)
  BY <1>1, SpreadIs
<1>3. tx'[w].step = "scan" /\ tx'[w].plan = plan
  BY SearchIs
<1>. HIDE DEF plan
<1>4. Planned(w)' = matching
  BY <1>1, <1>2, <1>3 DEF PlanFor, Planned
<1>. QED  BY <1>2, <1>3, <1>4 DEF SerialOf, PlanFor

\* The delete sees every row.
LEMMA SerialScans ==
    ASSUME TypeOK, NEW w \in Requests, SerialOf(w), scanRows(w)
    PROVE  SerialOf(w)'
<1>1. Rows(w)' = Rows(w) /\ Planned(w)' = Planned(w)
  BY ScanIs, RowsKept DEF Kept, Planned
<1>. QED  BY <1>1, ScanIs DEF SerialOf

\* It drops every row, so that those planned are all there will be.
LEMMA SerialDeletes ==
    ASSUME TypeOK, NEW w \in Requests, SerialOf(w), deleteRow(w)
    PROVE  SerialOf(w)'
<1>1. PICK t \in tx[w].todo :
         /\ tx[w].step = "delete" /\ pos' = pos
         /\ tx'[w].step = IF tx[w].todo = {t} THEN "insert" ELSE "delete"
         /\ tx'[w].todo = tx[w].todo \ {t}
         /\ tx'[w].wrote = [tx[w].wrote EXCEPT ![t] = NoPosition]
         /\ tx'[w].plan = tx[w].plan
  BY DeleteIs DEF Kept
<1>2. /\ tx[w].todo \in SUBSET Tasks /\ tx[w].plan \in [Tasks -> Nat \cup {Unwritten}]
      /\ tx[w].wrote \in [Tasks -> Nat \cup {NoPosition, Unwritten}]
  BY DEF TypeOK, Transaction
<1>3. Planned(w)' = Planned(w)
  BY <1>1 DEF Planned
<1>4. /\ \A u, v \in Planned(w) : u # v => tx[w].plan[u] # tx[w].plan[v]
      /\ \A u \in Planned(w) : tx[w].plan[u] > Cardinality(Tasks)
      /\ Placed(Rows(w)) \subseteq tx[w].todo
  BY <1>1 DEF SerialOf
<1>5. Rows(w)'[t] = NoPosition /\ \A u \in Tasks \ {t} : Rows(w)'[u] = Rows(w)[u]
  BY <1>1, <1>2, NamesAssumption DEF Rows
<1>6. Placed(Rows(w)') \subseteq tx'[w].todo
  BY <1>1, <1>4, <1>5 DEF Placed
<1>7. ASSUME tx'[w].step = "insert"
      PROVE  Distinct(Final(w)') /\ High(Final(w)')
  <2>1. \A u \in Tasks : Rows(w)'[u] = NoPosition
    BY <1>1, <1>6, <1>7 DEF Placed
  <2>2. \A u \in Tasks : Final(w)'[u] = IF tx[w].plan[u] = Unwritten THEN NoPosition
                                        ELSE tx[w].plan[u]
    BY <1>1, <1>7, <2>1 DEF Final
  <2>3. \A u \in Placed(Final(w)') : u \in Planned(w) /\ Final(w)'[u] = tx[w].plan[u]
    BY <2>2 DEF Placed, Planned
  <2>. QED  BY <1>4, <2>3 DEF Distinct, High
<1>. QED  BY <1>1, <1>3, <1>4, <1>6, <1>7 DEF SerialOf

\* On top of rows that are apart, from a view with room or a recalculated one.
LEMMA SerialFills ==
    ASSUME TypeOK, NEW w \in Requests, NEW rows \in Table, Distinct(rows),
           Taken(rows) = {} \/ Cardinality(tx[w].heal) + 1 <= Least(Taken(rows)),
           tx'[w].step = "fill", tx'[w].plan = OnTop(w, rows), Rows(w)' = rows
    PROVE  SerialOf(w)'
<1>. DEFINE plan == OnTop(w, rows)
            final == Final(w)'
            H == tx[w].heal
            S == {t \in H : rows[t] = NoPosition}
            q == [t \in Tasks |-> IF t \in S THEN plan[t] ELSE Unwritten]
<1>1. H \in SUBSET Tasks /\ S \in SUBSET Tasks
  BY DEF TypeOK, Transaction
<1>2. /\ PlanFor(plan, H)
      /\ \A t \in H : \A u \in Placed(rows) : plan[t] # rows[u]
  BY <1>1, OnTopIs
<1>3. final = [t \in Tasks |-> IF plan[t] = Unwritten \/ rows[t] # NoPosition
                               THEN rows[t] ELSE plan[t]]
  BY DEF Final
<1>. HIDE DEF final, plan, H
<1>4. PlanFor(q, S) /\ q \in Plan
  <2>1. q \in Plan
    BY <1>1, <1>2 DEF PlanFor, Plan
  <2>2. \A t \in Tasks : q[t] # Unwritten <=> t \in S
    BY <1>1, <1>2 DEF PlanFor
  <2>3. \A t, u \in S : t # u => q[t] # q[u]
    BY <1>1, <1>2 DEF PlanFor
  <2>. QED  BY <2>1, <2>2, <2>3 DEF PlanFor
<1>5. \A t \in S : final[t] = q[t] /\ q[t] = plan[t]
  BY <1>1, <1>2, <1>3 DEF PlanFor
<1>6. \A t \in Tasks \ S : final[t] = rows[t]
  BY <1>2, <1>3 DEF PlanFor
<1>7. final \in Table
  <2>1. \A t \in Tasks : final[t] \in Nat \cup {NoPosition}
    BY <1>2, <1>3 DEF PlanFor, Plan, Table
  <2>. QED  BY <1>3, <2>1 DEF Table
<1>8. \A t, u \in Placed(rows) \ S : t # u => rows[t] # rows[u]
  BY DEF Distinct
<1>9. \A t \in S : \A u \in Placed(rows) \ S : q[t] # rows[u]
  BY <1>2, <1>5
<1>. HIDE DEF q, S
<1>10. Distinct(final)
  BY <1>1, <1>4, <1>5, <1>6, <1>7, <1>8, <1>9, ApartIs
<1>. QED  BY <1>10 DEF SerialOf, final

\* A load that finds room on top of the view fills it without meeting a row.
LEMMA SerialLowest ==
    ASSUME TypeOK, LockInv, Distinct(pos), NEW w \in Requests, findLowest(w)
    PROVE  SerialOf(w)'
<1>1. CASE Crowded(w) /\ tx'[w].step = "lock"
  BY <1>1 DEF SerialOf
<1>2. CASE ~Crowded(w) /\ tx'[w].step = "fill" /\ tx'[w].plan = OnTop(w, Rows(w))
  <2>1. Untold(w)
    BY LowestIs DEF LockInv, LockOf
  <2>2. Rows(w) \in Table /\ Distinct(Rows(w)) /\ Rows(w)' = Rows(w)
    BY <2>1, RowsIs, UntoldRows, LowestIs, RowsKept DEF Kept
  <2>3. Taken(Rows(w)) = {} \/ Cardinality(tx[w].heal) + 1 <= Least(Taken(Rows(w)))
    <3>. DEFINE n == Cardinality(tx[w].heal) + 1
                l == Least(Taken(Rows(w)))
    <3>. SUFFICES ASSUME Taken(Rows(w)) # {}
                  PROVE  n <= l
      OBVIOUS
    <3>1. ~(l < MinSpacing * n)
      BY <1>2 DEF Crowded, Taken
    <3>2. tx[w].heal \in SUBSET Tasks
      BY DEF TypeOK, Transaction
    <3>3. n \in Nat /\ l \in Nat
      BY <2>2, <3>2, FiniteTasks, TakenIs
    <3>. HIDE DEF n, l
    <3>4. MinSpacing * n >= n /\ MinSpacing * n \in Nat
      BY <3>3, BoundsAssumption
    <3>. QED  BY <3>1, <3>3, <3>4
  <2>. QED  BY <1>2, <2>2, <2>3, SerialFills
<1>. QED  BY <1>1, <1>2, LowestIs

\* A recalculated view has that room.
LEMMA SerialPlaces ==
    ASSUME TypeOK, NEW w \in Requests, SerialOf(w), placeAdded(w)
    PROVE  SerialOf(w)'
<1>. DEFINE rows == Remaining(w)
<1>1. tx[w].step = "place" /\ tx'[w].step = "fill" /\ tx'[w].plan = OnTop(w, rows)
  BY PlaceAddedIs
<1>2. Distinct(Rows(w)) /\ High(Rows(w)) /\ Rows(w) \in Table
  BY <1>1, RowsIs DEF SerialOf
<1>3. /\ rows \in Table
      /\ \A t \in Placed(rows) : t \in Placed(Rows(w)) /\ rows[t] = Rows(w)[t]
  BY <1>2 DEF Remaining, Table, Placed
<1>4. Rows(w)' = rows
  <2>1. /\ pos' = pos
        /\ tx'[w].wrote = [t \in Tasks |-> IF t \in tx[w].added THEN NoPosition
                                           ELSE tx[w].wrote[t]]
    BY PlaceAddedIs DEF Kept
  <2>. QED  BY <2>1, NamesAssumption DEF Rows, Remaining
<1>. HIDE DEF rows
<1>5. Distinct(rows)
  BY <1>2, <1>3 DEF Distinct
<1>6. Taken(rows) = {} \/ Cardinality(tx[w].heal) + 1 <= Least(Taken(rows))
  <2>. SUFFICES ASSUME Taken(rows) # {}
                PROVE  Cardinality(tx[w].heal) + 1 <= Least(Taken(rows))
    OBVIOUS
  <2>1. Taken(rows) \in SUBSET Nat
    BY <1>3, TakenIs
  <2>2. Least(Taken(rows)) \in Taken(rows)
    BY <2>1, LeastIs
  <2>3. PICK t \in Placed(rows) : Least(Taken(rows)) = rows[t]
    BY <2>2 DEF Taken
  <2>4. rows[t] > Cardinality(Tasks) /\ rows[t] \in Nat
    BY <1>2, <1>3, <2>1, <2>2, <2>3 DEF High
  <2>5. tx[w].heal \in SUBSET Tasks
    BY DEF TypeOK, Transaction
  <2>6. /\ Cardinality(tx[w].heal) \in Nat /\ Cardinality(Tasks) \in Nat
        /\ Cardinality(tx[w].heal) <= Cardinality(Tasks)
    BY <2>5, FiniteTasks, Room
  <2>. QED  BY <2>3, <2>4, <2>6
<1>. QED  BY <1>1, <1>3, <1>4, <1>5, <1>6, SerialFills

\* Writing rows keeps what they will be.
LEMMA SerialWrites ==
    ASSUME TypeOK, PathInv, NEW w \in Requests, SerialOf(w), writeRow(w)
    PROVE  SerialOf(w)'
<1>1. /\ tx[w].step \in {"respace", "insert", "fill"}
      /\ tx'[w].step \in {tx[w].step, "place", "commit"}
      /\ tx'[w].step = "place" => tx[w].step = "insert"
      /\ tx'[w].step = "insert" => tx[w].step = "insert"
  BY WriteIs
<1>2. Distinct(Final(w)) /\ (tx[w].step = "insert" => High(Final(w)))
  BY <1>1 DEF SerialOf
<1>3. /\ Final(w)' = Final(w)
      /\ tx'[w].step \notin {"respace", "insert", "fill"} => Rows(w)' = Final(w)
  BY FinalKept
<1>. QED  BY <1>1, <1>2, <1>3 DEF SerialOf

\* A request changes its own transaction, and has one.
LEMMA OthersKept ==
    ASSUME TypeOK, NEW w \in Requests, Progress(w), NEW v \in Requests, v # w
    PROVE  tx'[v] = tx[v]
<1>1. lockPositionsForViewUpdate(w) \/ Commit(w) \/ RollBack(w) => tx'[v] = tx[v]
  BY LockIs, CommitIs, RollBackIs
<1>2. Kept(w) => tx'[v] = tx[v]
  BY DEF Kept
<1>3. findNeighbours(w) \/ DeadlockVictim(w) => RollBack(w) \/ Kept(w)
  BY RespaceIs DEF DeadlockVictim
<1>4. upsertTaskPosition(w) \/ findPositionConflicts(w) \/ searchTasks(w) \/ scanRows(w)
      \/ findMissing(w) \/ findLowest(w) \/ placeAdded(w) => Kept(w)
  BY UpsertIs, ConflictsIs, SearchIs, ScanIs, MissingIs, LowestIs, PlaceAddedIs
<1>5. deleteRow(w) \/ writeRow(w) => Kept(w)
  BY DeleteIs, WriteIs
<1>. QED  BY <1>1, <1>2, <1>3, <1>4, <1>5 DEF Progress

\* Only requests under way have statements; others could only be undone.
LEMMA ActiveOrUndone ==
    ASSUME TypeOK, NEW w \in Requests, Progress(w)
    PROVE  tx[w] # Idle \/ RollBack(w)
<1>1. Idle.step = "none"
  BY IdleIs
<1>2. Progress(w) => DeadlockVictim(w) \/ tx[w].step # "none"
  BY DEF Progress, lockPositionsForViewUpdate, upsertTaskPosition, findPositionConflicts,
         findNeighbours, searchTasks, scanRows, deleteRow, findMissing, findLowest, placeAdded,
         writeRow, Commit
<1>. QED  BY <1>1, <1>2 DEF DeadlockVictim

\* Every statement keeps the rows of lone requests distinct.
LEMMA ProgressSerial ==
    ASSUME TypeOK, PathInv, LockInv, SerialInv, NEW w \in Requests, Progress(w)
    PROVE  SerialInv'
<1>1. contended' = contended
  BY LockIs, UpsertIs, ConflictsIs, RespaceIs, RollBackIs, SearchIs, ScanIs, DeleteIs,
     MissingIs, LowestIs, PlaceAddedIs, WriteIs, CommitIs
     DEF Progress, Kept, DeadlockVictim
<1>. SUFFICES ASSUME ~contended
              PROVE  SerialInv'
  BY <1>1 DEF SerialInv
<1>2. Distinct(pos) /\ SerialOf(w)
  BY DEF SerialInv
<1>3. tx[w] # Idle \/ RollBack(w)
  BY ActiveOrUndone
<1>4. \A v \in Requests \ {w} : tx'[v] = tx[v]
  BY OthersKept
<1>5. ASSUME RollBack(w)
      PROVE  SerialInv'
  <2>1. tx'[w] = Idle /\ pos' = pos
    BY <1>5, RollBackIs
  <2>2. SerialOf(w)'
    BY <2>1 DEF SerialOf, Idle
  <2>3. ASSUME NEW v \in Requests, v # w
        PROVE  SerialOf(v)'
    <3>1. tx'[v] = tx[v] /\ SerialOf(v)
      BY <1>4, <2>3 DEF SerialInv
    <3>2. Rows(v)' = Rows(v)
      BY <2>1, <3>1, RowsKept
    <3>. QED  BY <3>1, <3>2 DEF SerialOf, Planned, Final
  <2>. QED  BY <1>4, <2>1, <2>2, <2>3 DEF SerialInv
<1>. SUFFICES ASSUME ~RollBack(w)
              PROVE  SerialInv'
  BY <1>5
<1>6. ASSUME NEW v \in Requests, v # w
      PROVE  tx[v] = Idle /\ tx'[v] = Idle /\ SerialOf(v)'
  <2>1. tx[v] = Idle /\ tx'[v] = Idle
    BY <1>3, <1>4, <1>6 DEF SerialInv
  <2>. QED  BY <2>1 DEF SerialOf, Idle
<1>7. ASSUME Distinct(pos'), SerialOf(w)'
      PROVE  SerialInv'
  BY <1>6, <1>7 DEF SerialInv
<1>8. CASE lockPositionsForViewUpdate(w)
  <2>1. pos' = pos /\ tx'[w].step \in {"upsert", "search"}
    BY <1>8, LockIs
  <2>2. SerialOf(w)'
    BY <2>1 DEF SerialOf
  <2>. QED  BY <1>2, <1>7, <2>1, <2>2
<1>9. CASE upsertTaskPosition(w)
  <2>1. pos' = pos /\ tx'[w].step \in {"lock", "check"}
    BY <1>9, UpsertIs DEF Kept
  <2>2. SerialOf(w)'
    BY <2>1 DEF SerialOf
  <2>. QED  BY <1>2, <1>7, <2>1, <2>2
<1>10. CASE findPositionConflicts(w)
  BY <1>2, <1>7, <1>10, ConflictsIs, SerialChecks DEF Kept
<1>11. CASE findNeighbours(w)
  BY <1>2, <1>7, <1>11, RespaceIs, SerialRespaces DEF Kept
<1>12. CASE searchTasks(w)
  BY <1>2, <1>7, <1>12, SearchIs, SerialSearches DEF Kept
<1>13. CASE scanRows(w)
  BY <1>2, <1>7, <1>13, ScanIs, SerialScans DEF Kept
<1>14. CASE deleteRow(w)
  BY <1>2, <1>7, <1>14, DeleteIs, SerialDeletes DEF Kept
<1>15. CASE findMissing(w)
  <2>1. /\ tx'[w].step \in {"commit", "lowest"} /\ pos' = pos
        /\ tx[w].step = "missing" /\ tx'[w].wrote = tx[w].wrote
    BY <1>15, MissingIs DEF Kept
  <2>2. Rows(w)' = pos
    BY <2>1, UntoldRows, RowsKept DEF LockInv, LockOf
  <2>3. SerialOf(w)'
    BY <1>2, <2>1, <2>2 DEF SerialOf
  <2>. QED  BY <1>2, <1>7, <2>1, <2>3
<1>16. CASE findLowest(w)
  BY <1>2, <1>7, <1>16, LowestIs, SerialLowest DEF Kept
<1>17. CASE placeAdded(w)
  BY <1>2, <1>7, <1>17, PlaceAddedIs, SerialPlaces DEF Kept
<1>18. CASE writeRow(w)
  BY <1>2, <1>7, <1>18, WriteIs, SerialWrites DEF Kept
<1>19. CASE Commit(w)
  <2>1. tx[w].step = "commit" /\ pos' = Rows(w) /\ tx'[w] = Idle
    BY <1>19, CommitIs
  <2>2. Distinct(Rows(w))
    BY <1>2, <2>1 DEF SerialOf
  <2>3. SerialOf(w)'
    BY <2>1 DEF SerialOf, Idle
  <2>. QED  BY <1>7, <2>1, <2>2, <2>3
<1>20. CASE DeadlockVictim(w)
  BY <1>20 DEF DeadlockVictim
<1>. QED
  BY <1>8, <1>9, <1>10, <1>11, <1>12, <1>13, <1>14, <1>15, <1>16, <1>17, <1>18, <1>19, <1>20
     DEF Progress

\* Every step of the system does.
LEMMA NextSerial ==
    ASSUME TypeOK, PathInv, LockInv, SerialInv, [Next]_vars
    PROVE  SerialInv'
<1>1. ASSUME NEW w \in Requests, NEW record, Begin(w, record), pos' = pos,
             record.step \in {"lock", "upsert", "missing"}
      PROVE  SerialInv'
  <2>. SUFFICES ASSUME ~contended'
                PROVE  SerialInv'
    BY DEF SerialInv
  <2>1. ~contended /\ \A v \in Requests : tx[v] = Idle
    BY <1>1, BeginIs
  <2>2. tx'[w] = record /\ \A v \in Requests \ {w} : tx'[v] = Idle
    BY <1>1, <2>1, BeginIs
  <2>3. SerialOf(w)'
    BY <1>1, <2>2 DEF SerialOf
  <2>4. \A v \in Requests \ {w} : SerialOf(v)'
    BY <2>2 DEF SerialOf, Idle
  <2>5. Distinct(pos')
    BY <1>1, <2>1 DEF SerialInv
  <2>. QED  BY <2>2, <2>3, <2>4, <2>5 DEF SerialInv
<1>2. ASSUME NEW w \in Requests, Drag(w)
      PROVE  SerialInv'
  <2>1. PICK i \in DOMAIN shown, j \in DOMAIN shown, at \in Nat :
           Begin(w, DragRecord(i, j, at))
    BY <1>2, DragIs
  <2>2. DragRecord(i, j, at).step \in {"lock", "upsert"}
    BY Zenon DEF DragRecord, Idle, FirstStep
  <2>3. pos' = pos
    BY <1>2 DEF Drag
  <2>. QED  BY <1>1, <2>1, <2>2, <2>3
<1>3. ASSUME NEW w \in Requests, Open(w)
      PROVE  SerialInv'
  <2>. DEFINE y == [Idle EXCEPT !.op = "open", !.step = "missing"]
  <2>1. Begin(w, y) /\ y.step = "missing" /\ pos' = pos
    BY <1>3 DEF Open, Idle
  <2>. HIDE DEF y
  <2>. QED  BY <1>1, <2>1
<1>4. ASSUME tx' = tx, pos' = pos, contended' = contended
      PROVE  SerialInv'
  <2>. SUFFICES ASSUME ~contended, NEW w \in Requests
                PROVE  SerialOf(w)'
    BY <1>4 DEF SerialInv
  <2>1. Rows(w)' = Rows(w) /\ SerialOf(w)
    BY <1>4, RowsKept DEF SerialInv
  <2>. QED  BY <1>4, <2>1 DEF SerialOf, Planned, Final
<1>. QED  BY <1>2, <1>3, <1>4, ProgressSerial DEF Next, Match, vars

\* The rows of a new view differ.
LEMMA InitSerial ==
    ASSUME Init
    PROVE  SerialInv
<1>. DEFINE S == FirstTasks
            plan == Spread(ById(S))
<1>1. S \in SUBSET Tasks
  BY TasksAssumption
<1>2. PlanFor(plan, S)
  BY <1>1, NoRowsIs, SpreadIs DEF ById, NoRows
<1>3. pos = [t \in Tasks |-> IF t \in S THEN plan[t] ELSE NoPosition]
  BY Zenon DEF Init, Spread
<1>. HIDE DEF plan
<1>4. Distinct(pos)
  BY <1>1, <1>2, <1>3 DEF PlanFor, Distinct, Placed
<1>. QED  BY <1>4, IdleSerial DEF Init, SerialInv

\* Whatever drags, conflicts, recalculations and loads follow one another, two tasks
\* never have one position.
THEOREM SerialDistinct == Spec => []SerialRequestsKeepDistinct
<1>1. Init => LockInv /\ SerialInv
  BY IdleLock, InitSerial DEF Init, LockInv
<1>2. SerialInv => SerialRequestsKeepDistinct
  BY DEF SerialInv, SerialRequestsKeepDistinct
<1>. QED
  BY <1>1, <1>2, InitPath, NextLock, NextPath, NextSerial, TypeCorrect, PTL DEF Spec

-----------------------------------------------------------------------------
(* Where a dragged task lands *)

\* The committed rows, with the dragged task where it was dropped.
Dropped(w) == [t \in Tasks |-> IF t = tx[w].task THEN tx[w].at ELSE pos[t]]

\* The dragged task sits between its neighbours on the page, or shares the position of
\* one of them.
AsShown(rows, x, s) ==
    /\ \A i \in DOMAIN s : s[i] \in Tasks /\ rows[s[i]] \in Nat
    /\ \A i, j \in DOMAIN s : i < j =>
          /\ s[i] # s[j] /\ rows[s[i]] <= rows[s[j]]
          /\ rows[s[i]] = rows[s[j]] => x \in {s[i], s[j]}

\* Other rows that put some tasks apart, in the order they had.
PutsApart(rows, final, S) ==
    \A t, u \in S : Precedes(rows, t, u) => final[t] < final[u]

\* A drag that is clean: alone since it began on a page that showed the view as it is.
DropOf(w) ==
    tx[w].clean =>
        /\ tx[w].op = "drag"
        /\ \A v \in Requests \ {w} : tx[v] = Idle
        /\ Distinct(pos)
        /\ Range(tx[w].want) \subseteq matching
        /\ AsShown(Dropped(w), tx[w].task, tx[w].want)
        /\ tx[w].step = "bounds" => tx[w].todo = {t \in Tasks : Rows(w)[t] = tx[w].at}
        /\ tx[w].step = "respace" => PutsApart(Dropped(w), Final(w), Range(tx[w].want))
        /\ tx[w].step = "commit" /\ tx[w].seen = <<>>
              => PutsApart(Dropped(w), Rows(w), Range(tx[w].want))
        /\ tx[w].step \in {"scan", "delete", "insert"} => tx[w].seen # <<>>
        /\ tx[w].seen # <<>> =>
              /\ Range(tx[w].want) \subseteq Range(tx[w].seen)
              /\ Sorted(Dropped(w), tx[w].seen)

\* A drag nothing interferes with writes rows in the order of its drop.
DropInv == \A w \in Requests : DropOf(w)

\* Where the other entries of a list come from when one is moved from i to j.
ComesFrom(list, i, j, f) ==
    /\ f \in [(1..Len(list)) \ {j} -> (1..Len(list)) \ {i}]
    /\ \A k \in (1..Len(list)) \ {j} : Moved(list, i, j)[k] = list[f[k]]
    /\ \A k, l \in (1..Len(list)) \ {j} : k < l => f[k] < f[l]

\* They keep their order.
LEMMA MovedKeeps ==
    ASSUME NEW E, NEW list \in Seq(E), NEW i \in DOMAIN list, NEW j \in DOMAIN list
    PROVE  \E f : ComesFrom(list, i, j, f)
<1>. DEFINE n == Len(list)
            g(k) == IF k < j THEN (IF k < i THEN k ELSE k + 1)
                    ELSE (IF k <= i THEN k - 1 ELSE k)
            f == [k \in (1..n) \ {j} |-> g(k)]
<1>1. n \in Nat /\ i \in 1..n /\ j \in 1..n
  OBVIOUS
<1>2. \A k \in 1..n :
         /\ k < j => Moved(list, i, j)[k] = list[IF k < i THEN k ELSE k + 1]
         /\ k > j => Moved(list, i, j)[k] = list[IF k <= i THEN k - 1 ELSE k]
  BY MovedIs
<1>. HIDE DEF n
<1>3. \A k \in (1..n) \ {j} : g(k) \in (1..n) \ {i}
  BY <1>1
<1>4. \A k, l \in (1..n) \ {j} : k < l => g(k) < g(l)
  BY <1>1
<1>5. \A k \in (1..n) \ {j} : Moved(list, i, j)[k] = list[g(k)]
  BY <1>1, <1>2
<1>. HIDE DEF g
<1>6. f \in [(1..n) \ {j} -> (1..n) \ {i}]
  BY <1>3
<1>7. ComesFrom(list, i, j, f)
  BY <1>4, <1>5, <1>6 DEF n, ComesFrom
<1>. QED  BY <1>7

\* The position the page calculates is between those of the neighbours, or one of them.
LEMMA CalculatedBetween ==
    ASSUME NEW before \in Nat \cup {NoPosition}, NEW after \in Nat \cup {NoPosition},
           before # NoPosition /\ after # NoPosition => before < after,
           NEW at, at = calculateItemPosition(before, after)
    PROVE  /\ at \in Nat
           /\ before # NoPosition => before <= at
           /\ after # NoPosition => at <= after
<1>. USE NamesAssumption, BoundsAssumption
<1>1. at \in Nat
  BY CalculatedIs
<1>2. CASE before = NoPosition /\ after # NoPosition
  <2>1. at = after \div 2 /\ after \in Nat
    BY <1>2 DEF calculateItemPosition
  <2>. QED  BY <1>1, <1>2, <2>1
<1>3. CASE before # NoPosition /\ after = NoPosition
  <2>1. at = before + Gap /\ before \in Nat
    BY <1>3 DEF calculateItemPosition
  <2>. QED  BY <1>1, <1>3, <2>1
<1>4. CASE before # NoPosition /\ after # NoPosition
  <2>1. before \in Nat /\ after \in Nat /\ before < after
    BY <1>4
  <2>2. at = before + (after - before) \div 2
    BY <1>4, <2>1 DEF calculateItemPosition
  <2>. QED  BY <1>1, <2>1, <2>2
<1>. QED  BY <1>1, <1>2, <1>3, <1>4

\* On a page that shows the view as it is, a drag sorts the rows as it sorts the page.
LEMMA DropSorts ==
    ASSUME TypeOK, Shows(pos), Distinct(pos),
           NEW i \in DOMAIN shown, NEW j \in DOMAIN shown, NEW at,
           at = calculateItemPosition(At(Moved(shown, i, j), j - 1),
                                      At(Moved(shown, i, j), j + 1))
    PROVE  AsShown([t \in Tasks |-> IF t = shown[i].task THEN at ELSE pos[t]],
                   shown[i].task, Ids(Moved(shown, i, j)))
<1>. DEFINE n == Len(shown)
            list == Moved(shown, i, j)
            rows == [t \in Tasks |-> IF t = shown[i].task THEN at ELSE pos[t]]
            before == At(list, j - 1)
            after == At(list, j + 1)
<1>1. shown \in Seq(Entry) /\ n \in Nat /\ i \in 1..n /\ j \in 1..n /\ DOMAIN shown = 1..n
  BY DEF TypeOK, Entry
<1>2. \A k \in 1..n : /\ shown[k].task \in Tasks /\ shown[k].position \in Nat
                      /\ shown[k].position = pos[shown[k].task]
  <2>. TAKE k \in 1..n
  <2>1. shown[k] \in Entry
    BY <1>1
  <2>. QED  BY <1>1, <2>1 DEF Entry, Shows
<1>3. ASSUME NEW k \in 1..n, NEW l \in 1..n, k < l
      PROVE  shown[k].position < shown[l].position
  <2>. DEFINE ids == Ids(shown)
              S == Range(ids)
  <2>1. ids = [m \in 1..n |-> shown[m].task]
    BY <1>1 DEF Ids
  <2>2. S \in SUBSET Tasks
    BY <1>2, <2>1 DEF Range
  <2>3. ids = Ordered(pos, S) /\ pos \in Table
    BY DEF Shows, TypeOK
  <2>4. Sorted(pos, ids)
    <3>. HIDE DEF S, ids
    <3>. QED  BY <2>2, <2>3, OrderedIs
  <2>5. Precedes(pos, shown[k].task, shown[l].task)
    <3>1. k \in DOMAIN ids /\ l \in DOMAIN ids /\ ids[k] = shown[k].task /\ ids[l] = shown[l].task
      BY <2>1
    <3>. HIDE DEF ids
    <3>. QED  BY <1>3, <2>4, <3>1 DEF Sorted
  <2>6. shown[k].task # shown[l].task
    BY <1>2, <2>3, <2>5, PrecedesOrders
  <2>7. pos[shown[k].task] # pos[shown[l].task]
    BY <1>2, <2>6, NamesAssumption DEF Distinct, Placed
  <2>. QED  BY <1>2, <2>5, <2>7, NamesAssumption DEF Precedes
<1>4. /\ list \in Seq(Entry) /\ Len(list) = n /\ list[j] = shown[i]
  BY <1>1, MovedIs
<1>5. PICK f \in [(1..n) \ {j} -> (1..n) \ {i}] :
         /\ \A k \in (1..n) \ {j} : list[k] = shown[f[k]]
         /\ \A k, l \in (1..n) \ {j} : k < l => f[k] < f[l]
  <2>1. PICK f : ComesFrom(shown, i, j, f)
    <3>. HIDE DEF n, list
    <3>. QED  BY <1>1, MovedKeeps
  <2>. QED  BY <2>1 DEF ComesFrom
<1>6. DOMAIN list = 1..n
  BY <1>4
<1>. HIDE DEF n, list
<1>7. \A k \in (1..n) \ {j} : f[k] \in 1..n /\ f[k] # i
  BY <1>5
<1>8. \A k \in (1..n) \ {j} :
         /\ list[k].task \in Tasks /\ list[k].position \in Nat
         /\ list[k].position = pos[list[k].task]
         /\ list[k].task # shown[i].task
  <2>. TAKE k \in (1..n) \ {j}
  <2>1. list[k] = shown[f[k]] /\ f[k] \in 1..n /\ (f[k] < i \/ i < f[k])
    BY <1>1, <1>5, <1>7
  <2>2. shown[f[k]].position # shown[i].position
    BY <1>1, <1>2, <1>3, <2>1
  <2>. QED  BY <1>1, <1>2, <2>1, <2>2
<1>9. \A k, l \in (1..n) \ {j} : k < l => list[k].position < list[l].position
  BY <1>3, <1>5, <1>7
<1>10. /\ before = IF j - 1 \in 1..n THEN list[j - 1].position ELSE NoPosition
       /\ after = IF j + 1 \in 1..n THEN list[j + 1].position ELSE NoPosition
       /\ j - 1 \in 1..n => j - 1 \in (1..n) \ {j}
       /\ j + 1 \in 1..n => j + 1 \in (1..n) \ {j}
  BY <1>1, <1>6 DEF At
<1>. HIDE DEF before, after
<1>11. /\ before \in Nat \cup {NoPosition} /\ after \in Nat \cup {NoPosition}
       /\ before # NoPosition /\ after # NoPosition => before < after
       /\ before # NoPosition <=> j - 1 \in 1..n
       /\ after # NoPosition <=> j + 1 \in 1..n
  BY <1>1, <1>8, <1>9, <1>10, NamesAssumption
<1>12. /\ at \in Nat
       /\ before # NoPosition => before <= at
       /\ after # NoPosition => at <= after
  <2>1. at = calculateItemPosition(before, after)
    BY DEF before, after, list
  <2>. QED  BY <1>11, <2>1, CalculatedBetween
<1>13. \A k \in (1..n) \ {j} : k < j => list[k].position <= at
  <2>. SUFFICES ASSUME NEW k \in (1..n) \ {j}, k < j
                PROVE  list[k].position <= at
    OBVIOUS
  <2>1. j - 1 \in 1..n /\ (k = j - 1 \/ k < j - 1)
    BY <1>1
  <2>2. before = list[j - 1].position /\ before <= at /\ before \in Nat
    BY <1>10, <1>11, <1>12, <2>1
  <2>3. list[k].position <= before
    BY <1>8, <1>9, <1>10, <2>1, <2>2
  <2>. QED  BY <1>8, <1>12, <2>2, <2>3
<1>14. \A k \in (1..n) \ {j} : k > j => at <= list[k].position
  <2>. SUFFICES ASSUME NEW k \in (1..n) \ {j}, k > j
                PROVE  at <= list[k].position
    OBVIOUS
  <2>1. j + 1 \in 1..n /\ (k = j + 1 \/ j + 1 < k)
    BY <1>1
  <2>2. after = list[j + 1].position /\ at <= after /\ after \in Nat
    BY <1>10, <1>11, <1>12, <2>1
  <2>3. after <= list[k].position
    BY <1>8, <1>9, <1>10, <2>1, <2>2
  <2>. QED  BY <1>8, <1>12, <2>2, <2>3
<1>. DEFINE x == shown[i].task
<1>15. /\ \A k \in (1..n) \ {j} : rows[list[k].task] = list[k].position
       /\ rows[list[j].task] = at /\ list[j].task = x /\ x \in Tasks
  BY <1>1, <1>2, <1>4, <1>8
<1>16. Ids(list) = [k \in 1..n |-> list[k].task]
  BY <1>6 DEF Ids
<1>. HIDE DEF rows
<1>17. \A k \in 1..n : list[k].task \in Tasks /\ rows[list[k].task] \in Nat
  BY <1>8, <1>12, <1>15
<1>18. ASSUME NEW k \in 1..n, NEW l \in 1..n, k < l
       PROVE  /\ list[k].task # list[l].task
              /\ rows[list[k].task] <= rows[list[l].task]
              /\ rows[list[k].task] = rows[list[l].task] => x \in {list[k].task, list[l].task}
  <2>1. CASE k # j /\ l # j
    <3>1. list[k].position < list[l].position
      BY <1>9, <1>18, <2>1
    <3>2. rows[list[k].task] < rows[list[l].task]
      BY <1>15, <2>1, <3>1
    <3>. QED  BY <1>17, <3>2
  <2>2. CASE k = j
    <3>1. l # j /\ at <= list[l].position
      BY <1>1, <1>14, <1>18, <2>2
    <3>. QED  BY <1>8, <1>15, <2>2, <3>1
  <2>3. CASE l = j
    <3>1. k # j /\ list[k].position <= at
      BY <1>1, <1>13, <1>18, <2>3
    <3>. QED  BY <1>8, <1>15, <2>3, <3>1
  <2>. QED  BY <2>1, <2>2, <2>3
<1>. HIDE DEF x
<1>19. AsShown(rows, x, Ids(list))
  BY <1>16, <1>17, <1>18 DEF AsShown
<1>. QED  BY <1>19 DEF rows, list, x

\* Steps of others do not disturb it.
LEMMA DropKept ==
    ASSUME TypeOK, NEW w \in Requests, DropOf(w), tx'[w] = tx[w], pos' = pos,
           matching \subseteq matching', \A v \in Requests \ {w} : tx'[v] = tx[v]
    PROVE  DropOf(w)'
<1>1. Rows(w)' = Rows(w) /\ Dropped(w)' = Dropped(w)
  BY RowsKept DEF Dropped
<1>2. Final(w)' = Final(w)
  BY <1>1 DEF Final
<1>. QED  BY <1>1, <1>2 DEF DropOf

\* Nothing is said of other requests.
LEMMA NoDrop ==
    ASSUME NEW w \in Requests, tx'[w].clean = FALSE
    PROVE  DropOf(w)'
  BY DEF DropOf

\* Only requests under way have anything to do.
LEMMA ProgressActive ==
    ASSUME TypeOK, NEW w \in Requests, Progress(w)
    PROVE  tx[w] # Idle
<1>. SUFFICES ASSUME tx[w].step = "none"
              PROVE  FALSE
  BY IdleIs
<1>1. ~ DeadlockVictim(w)
  BY DEF DeadlockVictim, DeadlockedSets, WaitsFor, Needs
<1>. QED
  BY <1>1 DEF Progress, lockPositionsForViewUpdate, upsertTaskPosition, findPositionConflicts,
     findNeighbours, searchTasks, scanRows, deleteRow, findMissing, findLowest, placeAdded,
     writeRow, Commit

\* What a recalculation of a lone drag sees is the page's order.
LEMMA DropSearches ==
    ASSUME TypeOK, PathInv, NEW w \in Requests, tx[w].clean, DropOf(w), searchTasks(w)
    PROVE  DropOf(w)'
<1>. DEFINE o == Ordered(Rows(w), matching)
            n == Cardinality(matching)
<1>1. /\ tx[w].step = "search" /\ tx'[w].step = "scan" /\ Kept(w) /\ tx'[w].seen = o
  BY SearchIs
<1>2. /\ tx[w].op = "drag" /\ tx[w].task \in matching /\ tx[w].task \in Tasks
      /\ \A t \in Tasks \ {tx[w].task} : tx[w].wrote[t] = Unwritten
      /\ tx[w].wrote[tx[w].task] = tx[w].at /\ tx[w].at \in Nat
  BY <1>1 DEF DropOf, PathInv, DragOf, TypeOK, Transaction
<1>3. Rows(w) = Dropped(w)
  BY <1>2, NamesAssumption DEF Rows, Dropped
<1>4. Rows(w) \in Table /\ matching \in SUBSET Tasks
  BY RowsIs DEF TypeOK
<1>5. /\ o \in [1..n -> matching] /\ Sorted(Rows(w), o)
      /\ \A t \in matching : \E i \in 1..n : o[i] = t
  BY <1>4, OrderedIs
<1>. HIDE DEF o
<1>6. Range(o) = matching /\ o # <<>>
  <2>. HIDE DEF n
  <2>1. DOMAIN o = 1..n /\ \A i \in 1..n : o[i] \in matching
    BY <1>5
  <2>2. Range(o) = matching
    BY <1>5, <2>1 DEF Range
  <2>3. DOMAIN o # {}
    BY <1>2, <1>5, <2>1
  <2>. QED  BY <2>2, <2>3
<1>7. Dropped(w)' = Dropped(w)
  BY <1>1 DEF Kept, Dropped
<1>8. \A v \in Requests \ {w} : tx'[v] = Idle
  BY <1>1 DEF DropOf, Kept
<1>. QED  BY <1>1, <1>3, <1>5, <1>6, <1>7, <1>8 DEF DropOf, Kept

\* A lone drag leaves the order as it is, or finds the tasks that share its position.
LEMMA DropChecks ==
    ASSUME TypeOK, PathInv, NEW w \in Requests, tx[w].clean, DropOf(w),
           findPositionConflicts(w)
    PROVE  DropOf(w)'
<1>1. tx[w].step = "check" /\ Kept(w) /\ tx'[w].seen = tx[w].seen
  BY ConflictsIs
<1>2. /\ tx[w].op = "drag" /\ tx[w].task \in Tasks /\ tx[w].at \in Nat
      /\ Rows(w)[tx[w].task] = tx[w].at
      /\ \A t \in Tasks \ {tx[w].task} : Rows(w)[t] = pos[t]
  BY <1>1, OwnRow
<1>3. tx[w].seen = <<>> /\ Range(tx[w].want) \subseteq Tasks
  BY <1>1, <1>2 DEF PathInv, DragOf, DropOf, TypeOK
<1>4. Rows(w) = Dropped(w)
  <2>1. \A t \in Tasks : Rows(w)[t] = Dropped(w)[t]
    BY <1>2 DEF Dropped
  <2>. QED  BY <2>1 DEF Rows, Dropped
<1>5. Rows(w)' = Rows(w) /\ Dropped(w)' = Dropped(w)
  BY <1>1, ConflictsIs, RowsKept DEF Kept, Dropped
<1>6. \A v \in Requests \ {w} : tx'[v] = Idle
  BY <1>1 DEF DropOf, Kept
<1>7. CASE tx'[w].step = "bounds"
  <2>1. tx'[w].todo = {t \in Tasks : Rows(w)[t] = tx[w].at}
    BY <1>7, ConflictsIs
  <2>. QED  BY <1>1, <1>3, <1>5, <1>6, <1>7, <2>1 DEF DropOf, Kept
<1>8. CASE tx'[w].step # "bounds"
  <2>1. ~(Cardinality({t \in Tasks : Rows(w)[t] = tx[w].at}) > 1) /\ tx'[w].step = "commit"
    BY <1>8, ConflictsIs
  <2>2. Distinct(Rows(w)) /\ Rows(w) \in Table
    BY <1>1, <2>1, NoConflict, RowsIs DEF DropOf
  <2>3. PutsApart(Dropped(w), Rows(w), Range(tx[w].want))
    <3>. DEFINE d == Rows(w)
    <3>. SUFFICES ASSUME NEW t \in Range(tx[w].want), NEW u \in Range(tx[w].want),
                         Precedes(d, t, u)
                  PROVE  d[t] < d[u]
      BY <1>4 DEF PutsApart
    <3>1. t \in Tasks /\ u \in Tasks
      BY <1>3
    <3>2. d[t] \in Nat /\ d[u] \in Nat
      <4>1. /\ \E k \in DOMAIN tx[w].want : tx[w].want[k] = t
            /\ \E k \in DOMAIN tx[w].want : tx[w].want[k] = u
        BY DEF Range
      <4>. QED  BY <1>4, <4>1 DEF DropOf, AsShown
    <3>3. t # u
      BY <2>2, <3>1, PrecedesOrders
    <3>4. d[t] # d[u]
      BY <2>2, <3>1, <3>2, <3>3, NamesAssumption DEF Distinct, Placed
    <3>. HIDE DEF d
    <3>. QED  BY <3>2, <3>4, NamesAssumption DEF Precedes
  <2>. QED  BY <1>1, <1>3, <1>5, <1>6, <2>1, <2>3 DEF DropOf, Kept
<1>. QED  BY <1>7, <1>8

\* The tasks at the position of a lone drag are put apart by their ids, and stay between
\* the other rows.
LEMMA DropRespaces ==
    ASSUME TypeOK, PathInv, NEW w \in Requests, tx[w].clean, DropOf(w),
           findNeighbours(w), ~RollBack(w)
    PROVE  DropOf(w)'
<1>. DEFINE S == tx[w].todo
            rows == Rows(w)
            plan == Within(ById(tx[w].todo), Lower(w), Upper(w))
            final == Final(w)'
            T == Range(tx[w].want)
<1>1. /\ tx[w].step = "bounds" /\ Rows(w)' = rows /\ Kept(w)
      /\ tx'[w].step = "respace" /\ tx'[w].plan = plan /\ tx'[w].seen = tx[w].seen
  BY RespaceIs, RowsKept DEF Kept
<1>2. S = {t \in Tasks : rows[t] = tx[w].at} /\ S \in SUBSET Tasks
  BY <1>1 DEF DropOf
<1>3. /\ PlanFor(plan, S) /\ \A t \in S : Lower(w) < plan[t] /\ plan[t] < Upper(w)
      /\ \A t, u \in S : t < u => plan[t] < plan[u]
  BY RespaceIs, NeighboursIs
<1>4. /\ \A n \in Taken(rows) : n < tx[w].at => n <= Lower(w)
      /\ \A n \in Taken(rows) : n > tx[w].at => n >= Upper(w)
      /\ Lower(w) \in Nat /\ Upper(w) \in Nat
  BY NeighboursIs
<1>5. rows \in Table /\ \A t \in Placed(rows) : rows[t] \in Taken(rows) /\ rows[t] \in Nat
  BY RowsIs, TakenIs
<1>6. /\ tx[w].op = "drag" /\ tx[w].task \in S /\ tx[w].at \in Nat
      /\ \A t \in Tasks \ {tx[w].task} : rows[t] = pos[t]
      /\ rows[tx[w].task] = tx[w].at
  BY <1>1, <1>2, OwnRow
<1>7. Dropped(w) = rows /\ Dropped(w)' = rows
  <2>1. \A t \in Tasks : rows[t] = Dropped(w)[t]
    BY <1>6 DEF Dropped
  <2>2. Dropped(w) = rows
    BY <2>1 DEF Rows, Dropped
  <2>. QED  BY <1>1, <2>2 DEF Kept, Dropped
<1>8. tx[w].seen = <<>> /\ T \subseteq Tasks /\ Distinct(pos)
  BY <1>1, <1>6 DEF PathInv, DragOf, DropOf, TypeOK
<1>9. \A t \in T : rows[t] \in Nat
  <2>1. \A t \in T : \E k \in DOMAIN tx[w].want : tx[w].want[k] = t
    BY DEF Range
  <2>. QED  BY <1>7, <2>1 DEF DropOf, AsShown
<1>. HIDE DEF S, rows, plan, T
<1>10. final = [t \in Tasks |-> IF plan[t] = Unwritten \/ rows[t] = NoPosition
                                THEN rows[t] ELSE plan[t]]
  BY <1>1 DEF Final
<1>. HIDE DEF final
<1>11. \A t \in S : t \in Tasks /\ plan[t] # Unwritten /\ rows[t] = tx[w].at /\ rows[t] # NoPosition
  BY <1>2, <1>3, <1>6, NamesAssumption DEF PlanFor
<1>12. \A t \in S : final[t] = plan[t] /\ plan[t] \in Nat
  BY <1>3, <1>10, <1>11 DEF PlanFor, Plan
<1>13. \A t \in Tasks \ S : final[t] = rows[t]
  BY <1>3, <1>10 DEF PlanFor
<1>14. ASSUME NEW t \in T, NEW u \in T, Precedes(rows, t, u)
       PROVE  final[t] < final[u]
  <2>1. /\ t \in Tasks /\ u \in Tasks /\ rows[t] \in Nat /\ rows[u] \in Nat
        /\ rows[t] \in Taken(rows) /\ rows[u] \in Taken(rows)
    BY <1>5, <1>8, <1>9, NamesAssumption DEF Placed
  <2>2. rows[t] < rows[u] \/ (rows[t] = rows[u] /\ t < u)
    BY <1>14, <2>1, NamesAssumption DEF Precedes
  <2>3. t # u
    BY <1>5, <1>14, <2>1, PrecedesOrders
  <2>4. CASE t \in S /\ u \in S
    <3>1. t < u
      BY <1>6, <1>11, <2>2, <2>4
    <3>. QED  BY <1>3, <1>12, <2>4, <3>1
  <2>5. CASE t \in S /\ u \notin S
    <3>1. rows[t] = tx[w].at /\ rows[u] # tx[w].at
      BY <1>2, <1>11, <2>1, <2>5
    <3>2. rows[u] >= Upper(w)
      BY <1>4, <1>6, <2>1, <2>2, <3>1
    <3>. QED  BY <1>3, <1>4, <1>12, <1>13, <2>1, <2>5, <3>2
  <2>6. CASE t \notin S /\ u \in S
    <3>1. rows[u] = tx[w].at /\ rows[t] # tx[w].at
      BY <1>2, <1>11, <2>1, <2>6
    <3>2. rows[t] <= Lower(w)
      BY <1>4, <1>6, <2>1, <2>2, <3>1
    <3>. QED  BY <1>3, <1>4, <1>12, <1>13, <2>1, <2>6, <3>2
  <2>7. CASE t \notin S /\ u \notin S
    <3>1. rows[t] = pos[t] /\ rows[u] = pos[u]
      BY <1>6, <2>1, <2>7
    <3>2. rows[t] # rows[u]
      BY <1>8, <2>1, <2>3, <3>1, NamesAssumption DEF Distinct, Placed
    <3>. QED  BY <1>13, <2>1, <2>2, <2>7, <3>2
  <2>. QED  BY <2>4, <2>5, <2>6, <2>7
<1>15. PutsApart(rows, final, T)
  BY <1>14 DEF PutsApart
<1>16. PutsApart(Dropped(w)', Final(w)', Range(tx'[w].want))
  BY <1>1, <1>7, <1>15 DEF final, T, Kept
<1>17. \A v \in Requests \ {w} : tx'[v] = Idle
  BY <1>1 DEF DropOf, Kept
<1>18. Dropped(w)' = Dropped(w)
  BY <1>7
<1>. QED  BY <1>1, <1>8, <1>16, <1>17, <1>18 DEF DropOf, Kept

\* Writing the rows of a respacing does not change what they will be.
LEMMA DropWrites ==
    ASSUME TypeOK, PathInv, NEW w \in Requests, tx[w].clean, DropOf(w), writeRow(w),
           tx[w].step = "respace"
    PROVE  DropOf(w)'
<1>1. /\ Kept(w) /\ tx'[w].step \in {"respace", "commit"} /\ tx'[w].seen = tx[w].seen
  BY WriteIs
<1>2. /\ Final(w)' = Final(w)
      /\ tx'[w].step = "commit" => Rows(w)' = Final(w)
  BY FinalKept
<1>3. tx[w].seen = <<>>
  BY DEF PathInv, DragOf, DropOf
<1>4. Dropped(w)' = Dropped(w) /\ \A v \in Requests \ {w} : tx'[v] = Idle
  BY <1>1 DEF DropOf, Kept, Dropped
<1>. QED  BY <1>1, <1>2, <1>3, <1>4 DEF DropOf, Kept

\* The other steps of a lone drag.
LEMMA DropSteps ==
    ASSUME TypeOK, NEW w \in Requests, DropOf(w), tx[w].clean,
           \A v \in Requests \ {w} : tx'[v] = tx[v],
           tx'[w].op = tx[w].op, tx'[w].task = tx[w].task, tx'[w].at = tx[w].at,
           tx'[w].want = tx[w].want, tx'[w].clean = tx[w].clean,
           tx'[w].seen = tx[w].seen, UNCHANGED <<pos, matching>>,
           tx'[w].step \notin {"bounds", "respace"},
           tx'[w].step = "commit" \/ tx'[w].step \in {"scan", "delete", "insert"}
              => tx[w].step \in {"scan", "delete", "insert"}
    PROVE  DropOf(w)'
<1>1. Dropped(w)' = Dropped(w)
  BY DEF Dropped
<1>2. \A v \in Requests \ {w} : tx'[v] = Idle
  BY DEF DropOf
<1>. QED  BY <1>1, <1>2 DEF DropOf

\* Every statement keeps the order of a clean drag.
LEMMA ProgressDrop ==
    ASSUME TypeOK, PathInv, LockInv, DropInv, NEW w \in Requests, Progress(w)
    PROVE  DropInv'
<1>. SUFFICES ASSUME NEW v \in Requests
              PROVE  DropOf(v)'
  BY DEF DropInv
<1>1. \A u \in Requests \ {w} : tx'[u] = tx[u]
  BY OthersKept
<1>2. CASE v # w
  <2>1. tx'[v] = tx[v] /\ (tx[v].clean => tx[w] = Idle)
    BY <1>1, <1>2 DEF DropInv, DropOf
  <2>2. ~ tx[v].clean
    BY <2>1, ProgressActive
  <2>. QED  BY <2>1, <2>2 DEF DropOf
<1>3. CASE v = w /\ ~ tx[w].clean
  <2>1. tx'[w].clean = tx[w].clean \/ tx'[w] = Idle
    <3>1. lockPositionsForViewUpdate(w) \/ Commit(w) \/ RollBack(w)
            => tx'[w].clean = tx[w].clean \/ tx'[w] = Idle
      BY LockIs, CommitIs, RollBackIs
    <3>2. Kept(w) => tx'[w].clean = tx[w].clean
      BY DEF Kept
    <3>3. findNeighbours(w) \/ DeadlockVictim(w) => RollBack(w) \/ Kept(w)
      BY RespaceIs DEF DeadlockVictim
    <3>4. upsertTaskPosition(w) \/ findPositionConflicts(w) \/ searchTasks(w) \/ scanRows(w)
          \/ findMissing(w) \/ findLowest(w) \/ placeAdded(w) => Kept(w)
      BY UpsertIs, ConflictsIs, SearchIs, ScanIs, MissingIs, LowestIs, PlaceAddedIs
    <3>5. deleteRow(w) \/ writeRow(w) => Kept(w)
      BY DeleteIs, WriteIs
    <3>. QED  BY <3>1, <3>2, <3>3, <3>4, <3>5 DEF Progress
  <2>2. ~ tx'[w].clean
    BY <1>3, <2>1 DEF Idle
  <2>. QED  BY <1>3, <2>2 DEF DropOf
<1>. SUFFICES ASSUME v = w, tx[w].clean
              PROVE  DropOf(w)'
  BY <1>2, <1>3
<1>4. DropOf(w) /\ DragOf(w) /\ LockOf(w) /\ tx[w].op = "drag"
  BY DEF DropInv, DropOf, PathInv, LockInv
<1>5. ASSUME tx'[w] = Idle
      PROVE  DropOf(w)'
  BY <1>5 DEF DropOf, Idle
<1>6. CASE lockPositionsForViewUpdate(w)
  BY <1>4, <1>6, LockIs, DropSteps
<1>7. CASE upsertTaskPosition(w)
  BY <1>4, <1>7, UpsertIs, DropSteps DEF Kept
<1>8. CASE findPositionConflicts(w)
  BY <1>4, <1>8, DropChecks
<1>9. CASE findNeighbours(w)
  <2>1. CASE RollBack(w)
    BY <1>5, <2>1, RollBackIs
  <2>. QED  BY <1>4, <1>9, <2>1, DropRespaces
<1>10. CASE searchTasks(w)
  BY <1>4, <1>10, DropSearches
<1>11. CASE scanRows(w)
  BY <1>4, <1>11, ScanIs, DropSteps DEF Kept
<1>12. CASE deleteRow(w)
  <2>1. /\ Kept(w) /\ tx[w].step = "delete" /\ tx'[w].step \in {"delete", "insert"}
        /\ tx'[w].seen = tx[w].seen
    BY <1>12, DeleteIs
  <2>. QED  BY <1>4, <2>1, DropSteps DEF Kept
<1>13. CASE findMissing(w)
  BY <1>4, <1>13, MissingIs DEF DragOf
<1>14. CASE findLowest(w)
  BY <1>4, <1>14, LowestIs DEF DragOf
<1>15. CASE placeAdded(w)
  BY <1>4, <1>15, PlaceAddedIs DEF DragOf
<1>16. CASE writeRow(w)
  <2>1. CASE tx[w].step = "respace"
    BY <1>4, <1>16, <2>1, DropWrites
  <2>2. CASE tx[w].step # "respace"
    <3>1. /\ Kept(w) /\ tx[w].step = "insert" /\ tx'[w].step \in {"insert", "commit"}
          /\ tx'[w].seen = tx[w].seen
      BY <1>4, <1>16, <2>2, WriteIs DEF DragOf
    <3>. QED  BY <1>4, <3>1, DropSteps DEF Kept
  <2>. QED  BY <2>1, <2>2
<1>17. CASE Commit(w)
  BY <1>5, <1>17, CommitIs
<1>18. CASE DeadlockVictim(w)
  BY <1>5, <1>18, RollBackIs DEF DeadlockVictim
<1>. QED
  BY <1>6, <1>7, <1>8, <1>9, <1>10, <1>11, <1>12, <1>13, <1>14, <1>15, <1>16, <1>17, <1>18
     DEF Progress

\* Every step of the system does.
LEMMA NextDrop ==
    ASSUME TypeOK, PathInv, LockInv, DropInv, [Next]_vars
    PROVE  DropInv'
<1>1. ASSUME NEW w \in Requests, NEW record, Begin(w, record), DropOf(w)'
      PROVE  DropInv'
  <2>1. ASSUME NEW v \in Requests, v # w
        PROVE  DropOf(v)'
    BY <1>1, <2>1, BeginIs DEF DropOf
  <2>. QED  BY <1>1, <2>1 DEF DropInv
<1>2. ASSUME NEW w \in Requests, Drag(w)
      PROVE  DropInv'
  <2>1. PICK i \in DOMAIN shown, j \in DOMAIN shown, at \in Nat :
           /\ at = calculateItemPosition(At(Moved(shown, i, j), j - 1),
                                         At(Moved(shown, i, j), j + 1))
           /\ shown' = Moved(shown, i, j) /\ shown' \in Seq(Entry)
           /\ Begin(w, DragRecord(i, j, at))
           /\ DragRecord(i, j, at).task = shown[i].task /\ shown[i].task \in Tasks
           /\ DragRecord(i, j, at).op = "drag" /\ DragRecord(i, j, at).at = at
           /\ DragRecord(i, j, at).want = Ids(shown')
    BY <1>2, DragIs
  <2>2. /\ DragRecord(i, j, at).step \in {"lock", "upsert"}
        /\ DragRecord(i, j, at).seen = <<>>
        /\ DragRecord(i, j, at).clean => /\ \A v \in Requests : tx[v] = Idle
                                         /\ Shows(pos) /\ Distinct(pos)
    BY Zenon DEF DragRecord, Idle, FirstStep
  <2>3. UNCHANGED <<matching, pos>>
    BY <1>2 DEF Drag
  <2>4. tx'[w] = DragRecord(i, j, at) /\ \A v \in Requests \ {w} : tx[v] = Idle => tx'[v] = Idle
    BY <2>1, BeginIs
  <2>5. ASSUME tx'[w].clean
        PROVE  AsShown(Dropped(w)', tx'[w].task, tx'[w].want)
    <3>1. Shows(pos) /\ Distinct(pos)
      BY <2>2, <2>4, <2>5
    <3>2. AsShown([t \in Tasks |-> IF t = shown[i].task THEN at ELSE pos[t]],
                  shown[i].task, Ids(Moved(shown, i, j)))
      BY <2>1, <3>1, DropSorts
    <3>3. Dropped(w)' = [t \in Tasks |-> IF t = shown[i].task THEN at ELSE pos[t]]
      BY <2>1, <2>3, <2>4 DEF Dropped
    <3>. QED  BY <2>1, <2>4, <3>2, <3>3
  <2>6. Range(Ids(shown')) \subseteq matching
    <3>1. \A k \in DOMAIN shown' : shown'[k].task \in matching
      BY <2>3, NextPath DEF PathInv
    <3>. QED  BY <3>1 DEF Range, Ids
  <2>7. DropOf(w)'
    BY <2>1, <2>2, <2>3, <2>4, <2>5, <2>6 DEF DropOf
  <2>. QED  BY <1>1, <2>1, <2>7
<1>3. ASSUME NEW w \in Requests, Open(w)
      PROVE  DropInv'
  <2>. DEFINE y == [Idle EXCEPT !.op = "open", !.step = "missing"]
  <2>1. Begin(w, y) /\ y.clean = FALSE
    BY <1>3 DEF Open, Idle
  <2>. HIDE DEF y
  <2>2. DropOf(w)'
    BY <2>1, BeginIs DEF DropOf
  <2>. QED  BY <1>1, <2>1, <2>2
<1>4. ASSUME tx' = tx, pos' = pos, matching \subseteq matching'
      PROVE  DropInv'
  BY <1>4, DropKept DEF DropInv
<1>. QED  BY <1>2, <1>3, <1>4, ProgressDrop DEF Next, Match, vars

\* At the commit of a lone drag the tasks of the page are in the order of the drop.
LEMMA StepLands ==
    ASSUME TypeOK, OrderInv, DropInv, [Next]_vars, NEW w \in Requests,
           tx[w].clean, tx[w].step = "commit", tx'[w] = Idle
    PROVE  PutsApart(Dropped(w), pos', Range(tx[w].want))
<1>. DEFINE T == Range(tx[w].want)
            d == Dropped(w)
            o == tx[w].seen
<1>1. pos' = Rows(w)
  BY CommitEnds, CommitIs
<1>2. /\ tx[w].op = "drag" /\ T \subseteq Tasks
      /\ o = <<>> => PutsApart(d, Rows(w), T)
      /\ o # <<>> => T \subseteq Range(o) /\ Sorted(d, o)
  BY DEF DropInv, DropOf, TypeOK
<1>3. o \in Seq(Tasks) /\ d \in Table
  <2>1. pos \in [Tasks -> Nat \cup {NoPosition}] /\ tx[w].at \in Nat
    BY DEF TypeOK, Transaction, Table
  <2>2. d \in Table
    BY <2>1 DEF Dropped, Table
  <2>. QED  BY <2>2 DEF TypeOK, Transaction
<1>4. CASE o = <<>>
  BY <1>1, <1>2, <1>4
<1>5. CASE o # <<>>
  <2>1. \A i \in DOMAIN o : Rows(w)[o[i]] = Position(w, i)
    BY <1>2, <1>5, SeenIsSorted
  <2>2. \A i, j \in DOMAIN o : i < j => Position(w, i) < Position(w, j)
    BY <1>2, <1>5, PositionIs DEF OrderInv, OrderOf
  <2>. HIDE DEF o, d, T
  <2>. SUFFICES ASSUME NEW t \in T, NEW u \in T, Precedes(d, t, u)
                PROVE  Rows(w)[t] < Rows(w)[u]
    BY <1>1 DEF PutsApart, T, d
  <2>3. PICK k \in DOMAIN o : o[k] = t
    BY <1>2, <1>5 DEF Range
  <2>4. PICK l \in DOMAIN o : o[l] = u
    BY <1>2, <1>5 DEF Range
  <2>5. ~ Precedes(d, u, t) /\ t # u
    BY <1>2, <1>3, PrecedesOrders
  <2>6. k \in Nat /\ l \in Nat /\ k # l
    BY <1>3, <2>3, <2>4, <2>5
  <2>7. ~(l < k)
    BY <1>2, <1>5, <2>3, <2>4, <2>5 DEF Sorted
  <2>8. k < l
    BY <2>6, <2>7
  <2>. QED  BY <2>1, <2>2, <2>3, <2>4, <2>8
<1>. QED  BY <1>4, <1>5

\* So every pair of them is as it was dropped, or by its ids where there was no room.
LEMMA StepDrops ==
    ASSUME TypeOK, OrderInv, DropInv, [Next]_vars, NEW w \in Requests,
           tx[w].clean, tx[w].step = "commit", tx'[w] = Idle,
           NEW i \in DOMAIN tx[w].want, NEW j \in DOMAIN tx[w].want, i < j
    PROVE  LET t == tx[w].want[i]
               u == tx[w].want[j]
           IN  IF NoRoom(w, t, u) /\ u < t THEN pos'[u] < pos'[t] ELSE pos'[t] < pos'[u]
<1>. DEFINE t == tx[w].want[i]
            u == tx[w].want[j]
            d == Dropped(w)
            x == tx[w].task
<1>1. /\ t \in Tasks /\ u \in Tasks /\ d[t] \in Nat /\ d[u] \in Nat
      /\ t # u /\ d[t] <= d[u] /\ (d[t] = d[u] => x \in {t, u})
  BY DEF DropInv, DropOf, AsShown
<1>2. t \in Range(tx[w].want) /\ u \in Range(tx[w].want)
  BY DEF Range
<1>3. /\ Precedes(d, t, u) => pos'[t] < pos'[u]
      /\ Precedes(d, u, t) => pos'[u] < pos'[t]
  BY <1>2, StepLands DEF PutsApart
<1>4. NoRoom(w, t, u) <=> d[t] = d[u]
  <2>1. \A v \in Tasks : d[v] = IF v = x THEN tx[w].at ELSE pos[v]
    BY DEF Dropped
  <2>. HIDE DEF t, u, d
  <2>. QED  BY <1>1, <2>1 DEF NoRoom
<1>. HIDE DEF t, u, d
<1>5. CASE d[t] < d[u]
  <2>1. Precedes(d, t, u) /\ ~NoRoom(w, t, u)
    BY <1>1, <1>4, <1>5, NamesAssumption DEF Precedes
  <2>. QED  BY <1>3, <2>1 DEF t, u
<1>6. CASE d[t] = d[u]
  <2>1. t < u \/ u < t
    BY <1>1, TasksAssumption
  <2>2. (t < u => Precedes(d, t, u)) /\ (u < t => Precedes(d, u, t)) /\ NoRoom(w, t, u)
    BY <1>4, <1>6 DEF Precedes
  <2>. QED  BY <1>3, <2>1, <2>2 DEF t, u
<1>. QED  BY <1>1, <1>5, <1>6

\* A task dragged on a page that shows the view as it is, while nothing else happens, is
\* afterwards where it was dropped, whether or not rows were respaced or the view was
\* recalculated; only of two tasks sent with one position the lower id comes first.
THEOREM DragLands == Spec => DropLands
<1>1. Init => LockInv /\ OrderInv /\ DropInv
  <2>1. \A w \in Requests : tx[w] = Idle => DropOf(w)
    BY DEF DropOf, Idle
  <2>. QED  BY <2>1, IdleLock, IdleOrder DEF Init, LockInv, OrderInv, DropInv
<1>2. TypeOK /\ OrderInv /\ DropInv /\ [Next]_vars
        => [\A w \in Requests :
               tx[w].clean /\ tx[w].step = "commit" /\ tx'[w] = Idle
                   => \A i, j \in DOMAIN tx[w].want :
                         LET t == tx[w].want[i]
                             u == tx[w].want[j]
                         IN  i < j => IF NoRoom(w, t, u) /\ u < t THEN pos'[u] < pos'[t]
                                      ELSE pos'[t] < pos'[u]]_vars
  BY StepDrops
<1>. QED
  BY <1>1, <1>2, InitPath, NextLock, NextPath, NextOrder, NextDrop, TypeCorrect, PTL
     DEF Spec, DropLands
=============================================================================
