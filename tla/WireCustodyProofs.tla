------------------------- MODULE WireCustodyProofs -------------------------
(***************************************************************************)
(* Custody of the shywire application: what the lots have lost is what the *)
(* settlements were given, and a request is settled once.  The first rests *)
(* on a fact about allocateCustodyInventory, that the lots of a pool taken *)
(* in order give what was asked for if they hold as much; both on what     *)
(* validation saw of lots, requests and settlements, which the blocks of a *)
(* restart may show a second time.                                         *)
(***************************************************************************)
EXTENDS WireLedgerProofs

-----------------------------------------------------------------------------
(* Allocation                                                               *)

Part(f, A) == [k \in A |-> f[k]]

\* The units of a part.
LEMMA PartUnits ==
    ASSUME NEW S, NEW f \in [S -> Nat], NEW A \in SUBSET S
    PROVE  Units(Part(f, A)) = {u \in Units(f) : u[1] \in A}
  <1>1. f \in [S -> Int] /\ Part(f, A) \in [A -> Int]
    BY DEF Part
  <1>2. Units(f) = {u \in S \X Int : u[2] \in 1..f[u[1]]}
    BY <1>1, UnitsPairs
  <1>3. Units(Part(f, A)) = {u \in A \X Int : u[2] \in 1..Part(f, A)[u[1]]}
    BY <1>1, UnitsPairs
  <1>4. \A k \in A : Part(f, A)[k] = f[k]
    BY DEF Part
  <1> QED
    BY <1>2, <1>3, <1>4

\* The sum of a part is a natural number, no less than that of a smaller part.
LEMMA PartTotals ==
    ASSUME NEW S, IsFiniteSet(S), NEW f \in [S -> Nat], NEW A \in SUBSET S,
           NEW C \in SUBSET A
    PROVE  /\ Total(Part(f, A)) \in Nat /\ Total(Part(f, C)) \in Nat
           /\ Total(Part(f, C)) <= Total(Part(f, A))
  <1>1. IsFiniteSet(A) /\ IsFiniteSet(C)
    BY FS_Subset
  <1>2. Part(f, A) \in [A -> Nat] /\ Part(f, C) \in [C -> Nat]
        /\ Part(f, A) \in [A -> Int] /\ Part(f, C) \in [C -> Int]
    BY DEF Part
  <1>3. /\ Total(Part(f, A)) \in Nat /\ Total(Part(f, A)) = Cardinality(Units(Part(f, A)))
        /\ Total(Part(f, C)) \in Nat /\ Total(Part(f, C)) = Cardinality(Units(Part(f, C)))
    BY <1>1, <1>2, TotalNat
  <1>4. Units(Part(f, C)) \in SUBSET Units(Part(f, A))
    BY PartUnits
  <1>5. IsFiniteSet(Units(Part(f, A)))
    BY <1>1, <1>2, UnitsFinite
  <1> QED
    BY <1>3, <1>4, <1>5, FS_Subset

\* Arguments with value 0 add nothing.
LEMMA TotalPart ==
    ASSUME NEW S, IsFiniteSet(S), NEW f \in [S -> Nat], NEW A \in SUBSET S,
           \A x \in S \ A : f[x] = 0
    PROVE  Total(f) = Total(Part(f, A))
  <1>1. f \in [S -> Int] /\ Part(f, A) \in [A -> Nat] /\ IsFiniteSet(A)
    BY FS_Subset DEF Part
  <1>2. Units(f) = {u \in S \X Int : u[2] \in 1..f[u[1]]}
    BY <1>1, UnitsPairs
  <1>3. Units(Part(f, A)) = {u \in Units(f) : u[1] \in A}
    BY PartUnits
  <1>4. ASSUME NEW u \in Units(f) PROVE u[1] \in A
    <2>1. u[1] \in S /\ u[2] \in 1..f[u[1]] /\ f[u[1]] \in Nat
      BY <1>2
    <2>2. f[u[1]] # 0
      BY <2>1
    <2> QED
      BY <2>1, <2>2
  <1>5. Units(Part(f, A)) = Units(f)
    BY <1>3, <1>4
  <1>6. Total(f) = Cardinality(Units(f)) /\ Total(Part(f, A)) = Cardinality(Units(Part(f, A)))
    BY <1>1, TotalNat
  <1> QED
    BY <1>5, <1>6

\* One more argument adds its value.
LEMMA PartAdd ==
    ASSUME NEW S, IsFiniteSet(S), NEW f \in [S -> Nat], NEW A \in SUBSET S, NEW x \in S \ A
    PROVE  Total(Part(f, A \cup {x})) = Total(Part(f, A)) + f[x]
  <1> DEFINE T == A \cup {x}
             g == Part(f, T)
             R == {u \in Units(g) : u[1] # x}
  <1>1. T \in SUBSET S /\ IsFiniteSet(T) /\ IsFiniteSet(A) /\ x \in T
    BY FS_Subset
  <1>2. g \in [T -> Nat] /\ g \in [T -> Int] /\ g[x] = f[x] /\ f[x] \in Nat
    BY DEF Part
  <1>3. Part(f, A) \in [A -> Nat]
    BY DEF Part
  <1>4. R = Units(Part(f, A))
    <2>1. Units(g) = {u \in Units(f) : u[1] \in T}
      BY <1>1, PartUnits
    <2>2. Units(Part(f, A)) = {u \in Units(f) : u[1] \in A}
      BY PartUnits
    <2> HIDE DEF g
    <2> QED
      BY <2>1, <2>2
  <1> HIDE DEF g, T
  <1>5. Total(g) = Cardinality(Units(g)) /\ Total(Part(f, A)) = Cardinality(R)
        /\ Total(Part(f, A)) \in Nat
    BY <1>1, <1>2, <1>3, <1>4, TotalNat
  <1>6. Cardinality(Units(g)) = Cardinality(R) + (IF g[x] > 0 THEN g[x] ELSE 0)
    BY <1>1, <1>2, UnitsSplit
  <1>7. Total(g) = Total(Part(f, A)) + f[x]
    BY <1>2, <1>5, <1>6
  <1> QED
    BY <1>7 DEF g, T

\* Taking from the arguments of f in the order that B gives (B[x] are those
\* before x) until q is reached takes q, if f has as much.
LEMMA Waterfill ==
    ASSUME NEW S, IsFiniteSet(S), NEW f \in [S -> Nat], NEW B \in [S -> SUBSET S],
           \A x \in S : x \notin B[x],
           \A x, y \in S : x # y => x \in B[y] \/ y \in B[x],
           \A x, y \in S : x \in B[y] => B[x] \subseteq B[y],
           NEW q \in Nat, q <= Total(f), NEW c \in [S -> Nat],
           \A x \in S : \A n \in Int :
              n \in 1..c[x] <=> n \in 1..f[x] /\ Total(Part(f, B[x])) + n <= q
    PROVE  Total(c) = q
  <1> DEFINE P(x) == Total(Part(f, B[x]))
             U == Units(f)
             N == Total(f)
             rank == [u \in U |-> P(u[1]) + u[2]]
             A == Units(c)
  <1>1. f \in [S -> Int] /\ c \in [S -> Int]
    OBVIOUS
  <1>2. U = {u \in S \X Int : u[2] \in 1..f[u[1]]} /\ A = {u \in S \X Int : u[2] \in 1..c[u[1]]}
    BY <1>1, UnitsPairs
  <1>3. IsFiniteSet(U) /\ N \in Nat /\ Cardinality(U) = N
        /\ IsFiniteSet(A) /\ Total(c) = Cardinality(A)
    BY <1>1, UnitsFinite, TotalNat
  <1>4. \A x \in S : P(x) \in Nat
    BY PartTotals
  <1>5. ASSUME NEW x \in S PROVE P(x) + f[x] <= N
    <2>1. Total(Part(f, B[x] \cup {x})) = P(x) + f[x]
      BY PartAdd
    <2>2. Total(Part(f, B[x] \cup {x})) <= Total(Part(f, S))
      <3>1. S \in SUBSET S /\ B[x] \cup {x} \in SUBSET S
        OBVIOUS
      <3> QED
        BY <3>1, PartTotals
    <2>3. Part(f, S) = f
      BY DEF Part
    <2> QED
      BY <2>1, <2>2, <2>3
  <1>6. ASSUME NEW x \in S, NEW y \in S, x \in B[y] PROVE P(x) + f[x] <= P(y)
    <2>1. Total(Part(f, B[x] \cup {x})) = P(x) + f[x]
      BY PartAdd
    <2>2. B[x] \cup {x} \in SUBSET B[y] /\ B[y] \in SUBSET S
      BY <1>6
    <2>3. Total(Part(f, B[x] \cup {x})) <= Total(Part(f, B[y]))
      BY <2>2, PartTotals
    <2> QED
      BY <2>1, <2>3
  <1>7. \A u \in U : u[1] \in S /\ u[2] \in 1..f[u[1]] /\ u = <<u[1], u[2]>>
    BY <1>2
  <1>8. \A x \in S : f[x] \in Nat
    OBVIOUS
  <1>r. \A u \in U : rank[u] = P(u[1]) + u[2]
    OBVIOUS
  <1> HIDE DEF P, U, N, A
  <1>9. \A u \in U : rank[u] \in 1..N
    <2> SUFFICES ASSUME NEW u \in U PROVE rank[u] \in 1..N
      OBVIOUS
    <2>1. P(u[1]) \in Nat /\ P(u[1]) + f[u[1]] <= N /\ f[u[1]] \in Nat
      BY <1>4, <1>5, <1>7, <1>8
    <2> QED
      BY <1>3, <1>7, <1>r, <2>1
  <1>10. rank \in [U -> 1..N]
    BY <1>9
  <1>11. \A u, v \in U : rank[u] = rank[v] => u = v
    <2> SUFFICES ASSUME NEW u \in U, NEW v \in U, rank[u] = rank[v] PROVE u = v
      OBVIOUS
    <2>1. P(u[1]) + u[2] = P(v[1]) + v[2]
      BY <1>r
    <2>2. /\ u[1] \in S /\ v[1] \in S /\ f[u[1]] \in Nat /\ f[v[1]] \in Nat
          /\ P(u[1]) \in Nat /\ P(v[1]) \in Nat
          /\ u[2] \in 1..f[u[1]] /\ v[2] \in 1..f[v[1]]
      BY <1>4, <1>7, <1>8
    <2>3. u[1] \notin B[v[1]]
      <3>1. u[1] \in B[v[1]] => P(u[1]) + f[u[1]] <= P(v[1])
        BY <1>6, <2>2
      <3> QED
        BY <2>1, <2>2, <3>1
    <2>4. v[1] \notin B[u[1]]
      <3>1. v[1] \in B[u[1]] => P(v[1]) + f[v[1]] <= P(u[1])
        BY <1>6, <2>2
      <3> QED
        BY <2>1, <2>2, <3>1
    <2>5. u[1] = v[1]
      BY <2>2, <2>3, <2>4
    <2>6. u[2] = v[2]
      BY <2>1, <2>2, <2>5
    <2> QED
      BY <1>7, <2>5, <2>6
  <1> HIDE DEF rank
  <1>12. \A m \in 1..N : \E u \in U : rank[u] = m
    <2>1. rank \in Injection(U, 1..N)
      BY <1>10, <1>11 DEF Injection, IsInjective
    <2>2. IsFiniteSet(1..N) /\ Cardinality(1..N) = N
      <3>1. IsFiniteSet(1..N) /\ Cardinality(1..N) = IF 1 > N THEN 0 ELSE N - 1 + 1
        BY <1>3, FS_Interval
      <3> QED
        BY <1>3, <3>1
    <2>3. rank \in Surjection(U, 1..N)
      BY <1>3, <2>1, <2>2, FS_Injection
    <2> QED
      BY <2>3 DEF Surjection
  <1>13. \A u : u \in A <=> u \in U /\ rank[u] <= q
    <2>1. ASSUME NEW u \in A PROVE u \in U /\ rank[u] <= q
      <3>1. u \in S \X Int /\ u[1] \in S /\ u[2] \in Int /\ u[2] \in 1..c[u[1]]
        BY <1>2
      <3>2. u[2] \in 1..f[u[1]] /\ P(u[1]) + u[2] <= q
        BY <3>1 DEF P
      <3>3. u \in U
        BY <1>2, <3>1, <3>2
      <3> QED
        BY <1>r, <3>2, <3>3
    <2>2. ASSUME NEW u \in U, rank[u] <= q PROVE u \in A
      <3>1. u \in S \X Int /\ u[1] \in S /\ u[2] \in Int /\ u[2] \in 1..f[u[1]]
        BY <1>2
      <3>2. P(u[1]) + u[2] <= q
        BY <1>r, <2>2
      <3>3. u[2] \in 1..c[u[1]]
        BY <3>1, <3>2 DEF P
      <3> QED
        BY <1>2, <3>1, <3>3
    <2> QED
      BY <2>1, <2>2
  <1> DEFINE rk == [u \in A |-> rank[u]]
  <1>14. rk \in Bijection(A, 1..q)
    <2>1. \A u \in A : rank[u] \in 1..q
      BY <1>9, <1>13, <1>3
    <2>2. \A m \in 1..q : m \in 1..N
      BY <1>3 DEF N
    <2>3. \A m \in 1..q : \E u \in A : rank[u] = m
      <3> SUFFICES ASSUME NEW m \in 1..q PROVE \E u \in A : rank[u] = m
        OBVIOUS
      <3>1. PICK u \in U : rank[u] = m
        BY <1>12, <2>2
      <3>2. rank[u] <= q
        BY <3>1
      <3> QED
        BY <1>13, <3>1, <3>2
    <2>4. \A u, v \in A : rank[u] = rank[v] => u = v
      BY <1>11, <1>13
    <2>5. rk \in Injection(A, 1..q)
      BY <2>1, <2>4 DEF Injection, IsInjective
    <2>6. rk \in Surjection(A, 1..q)
      BY <2>1, <2>3 DEF Surjection
    <2> QED
      BY <2>5, <2>6 DEF Bijection
  <1>15. Cardinality(1..q) = Cardinality(A)
    BY <1>3, <1>14, FS_Bijection DEF ExistsBijection
  <1>16. Cardinality(1..q) = q
    <2>1. Cardinality(1..q) = IF 1 > q THEN 0 ELSE q - 1 + 1
      BY FS_Interval
    <2> QED
      BY <2>1
  <1> QED
    BY <1>3, <1>15, <1>16

\* Types of the lots and settlements, and the lots' bounds.
LotRecords == [pool : Assets \X Warehouses \X SkuClasses, quantity : Int, remaining : Int,
               policy : Policies, at : Int,
               status : {"recorded", "partially_allocated", "exhausted"}]
SettlementRecords == [request : Requests, quantity : 1..MaxQuantity, allocated : [Lots -> Nat]]

LotMaps(lo, se) ==
    /\ lo \in [Lots -> LotRecords \cup {None}]
    /\ se \in [Settlements -> SettlementRecords \cup {None}]
    /\ \A l \in Lots : lo[l] # None => lo[l].remaining \in 0..lo[l].quantity

\* The lots of a pool and what is left in them.
LEMMA StockFacts ==
    ASSUME NEW lo, NEW se, LotMaps(lo, se), NEW pool
    PROVE  /\ IsFiniteSet(StockIn(lo, pool)) /\ StockIn(lo, pool) \subseteq Lots
           /\ [l \in StockIn(lo, pool) |-> lo[l].remaining] \in [StockIn(lo, pool) -> Nat]
           /\ \A l \in StockIn(lo, pool) : lo[l] # None /\ lo[l].remaining \in Nat
  <1>1. StockIn(lo, pool) \in SUBSET Lots
    BY DEF StockIn
  <1>2. IsFiniteSet(StockIn(lo, pool))
    BY <1>1, CustodyConstants, FS_Subset
  <1>3. \A l \in StockIn(lo, pool) : lo[l] # None /\ lo[l].remaining \in Nat
    <2> SUFFICES ASSUME NEW l \in StockIn(lo, pool)
                 PROVE  lo[l] # None /\ lo[l].remaining \in Nat
      OBVIOUS
    <2>1. l \in Lots /\ lo[l] # None
      BY DEF StockIn
    <2>2. lo[l] \in LotRecords /\ lo[l].remaining \in 0..lo[l].quantity
      BY <2>1 DEF LotMaps
    <2> QED
      BY <2>1, <2>2 DEF LotRecords
  <1> QED
    BY <1>1, <1>2, <1>3

\* What is taken from a lot for a quantity.
LEMMA ConsumedFacts ==
    ASSUME LotMaps(intakeLots, redemptionSettlements), NEW pool, NEW q \in Nat, NEW l \in Lots
    PROVE  /\ Consumed(pool, q, l) \in Nat
           /\ l \notin StockIn(intakeLots, pool) => Consumed(pool, q, l) = 0
           /\ Consumed(pool, q, l) # 0 =>
                 /\ intakeLots[l] # None /\ intakeLots[l].pool = pool
                 /\ Consumed(pool, q, l) <= intakeLots[l].remaining
           /\ l \in StockIn(intakeLots, pool) =>
                 LET before == {k \in StockIn(intakeLots, pool) : Before(k, l)}
                     open == q - Total([k \in before |-> intakeLots[k].remaining])
                 IN  /\ open \in Int
                     /\ Consumed(pool, q, l) = IF open <= 0 THEN 0
                                               ELSE IF intakeLots[l].remaining > open THEN open
                                               ELSE intakeLots[l].remaining
  <1> DEFINE I == StockIn(intakeLots, pool)
             before == {k \in I : Before(k, l)}
             f == [k \in I |-> intakeLots[k].remaining]
             given == Total([k \in before |-> intakeLots[k].remaining])
             open == q - given
  <1>1. /\ IsFiniteSet(I) /\ f \in [I -> Nat] /\ before \in SUBSET I
        /\ \A k \in I : intakeLots[k] # None /\ intakeLots[k].remaining \in Nat
    BY StockFacts
  <1>2. InventoryLots(pool) = I
    BY DEF InventoryLots, StockIn
  <1>3. Part(f, before) = [k \in before |-> intakeLots[k].remaining]
    BY <1>1 DEF Part
  <1>4. given \in Nat
    <2>1. before \in SUBSET before
      OBVIOUS
    <2>2. Total(Part(f, before)) \in Nat
      <3> HIDE DEF I, before, f
      <3> QED
        BY <1>1, <2>1, PartTotals
    <2> QED
      BY <1>3, <2>2
  <1>5. Consumed(pool, q, l) = IF l \notin I \/ open <= 0 THEN 0
                               ELSE IF intakeLots[l].remaining > open THEN open
                               ELSE intakeLots[l].remaining
    BY <1>2 DEF Consumed, RemainingIn
  <1>6. l \in I => intakeLots[l].pool = pool
    BY DEF StockIn
  <1>7. open \in Int
    BY <1>4
  <1> HIDE DEF open, I
  <1>8. /\ Consumed(pool, q, l) \in Nat
        /\ l \notin I => Consumed(pool, q, l) = 0
        /\ Consumed(pool, q, l) # 0 => l \in I /\ Consumed(pool, q, l) <= intakeLots[l].remaining
    BY <1>1, <1>5, <1>7
  <1> QED
    BY <1>1, <1>5, <1>6, <1>7, <1>8 DEF open, I

\* allocateCustodyInventory gives what is asked for if the pool has as much.
LEMMA AllocationsTotal ==
    ASSUME LotMaps(intakeLots, redemptionSettlements), NEW pool, NEW q \in Nat,
           Stock(intakeLots, pool) >= q
    PROVE  Total(Allocations(pool, q)) = q
  <1> DEFINE I == StockIn(intakeLots, pool)
             f == [k \in I |-> intakeLots[k].remaining]
             B == [l \in I |-> {k \in I : Before(k, l)}]
             c == [l \in I |-> Consumed(pool, q, l)]
  <1>1. /\ IsFiniteSet(I) /\ I \subseteq Lots /\ f \in [I -> Nat]
        /\ \A k \in I : intakeLots[k] # None /\ intakeLots[k].remaining \in Nat
    BY StockFacts
  <1>2. \A k \in I : intakeLots[k].at \in Int /\ k \in Nat
    <2> SUFFICES ASSUME NEW k \in I PROVE intakeLots[k].at \in Int /\ k \in Nat
      OBVIOUS
    <2>1. intakeLots[k] \in LotRecords
      BY <1>1 DEF LotMaps
    <2> QED
      BY <1>1, <2>1, CustodyConstants DEF LotRecords
  <1>3. /\ \A x \in I : ~ Before(x, x)
        /\ \A x, y \in I : x # y => Before(x, y) \/ Before(y, x)
        /\ \A x, y, z \in I : Before(z, x) /\ Before(x, y) => Before(z, y)
    BY <1>2 DEF Before
  <1>4. /\ B \in [I -> SUBSET I]
        /\ \A x \in I : x \notin B[x]
        /\ \A x, y \in I : x # y => x \in B[y] \/ y \in B[x]
        /\ \A x, y \in I : x \in B[y] => B[x] \subseteq B[y]
    <2> HIDE DEF I
    <2> QED
      BY <1>3
  <1>5. c \in [I -> Nat]
    BY <1>1, ConsumedFacts
  <1>6. Total(f) \in Nat /\ q <= Total(f)
    <2>1. Total(f) \in Nat
      BY <1>1, TotalNat
    <2>2. Stock(intakeLots, pool) = Total(f)
      BY DEF Stock
    <2> HIDE DEF f
    <2> QED
      BY <2>1, <2>2
  <1>7. ASSUME NEW x \in I, NEW n \in Int
        PROVE  n \in 1..c[x] <=> n \in 1..f[x] /\ Total(Part(f, B[x])) + n <= q
    <2> DEFINE before == {k \in I : Before(k, x)}
               given == Total([k \in before |-> intakeLots[k].remaining])
               open == q - given
    <2>1. /\ open \in Int
          /\ Consumed(pool, q, x) = IF open <= 0 THEN 0
                                    ELSE IF intakeLots[x].remaining > open THEN open
                                    ELSE intakeLots[x].remaining
      BY <1>1, ConsumedFacts
    <2>2. Part(f, B[x]) = [k \in before |-> intakeLots[k].remaining]
      BY DEF Part
    <2>3. B[x] \in SUBSET I /\ B[x] \in SUBSET B[x]
      BY <1>4
    <2>4. Total(Part(f, B[x])) \in Nat
      <3> HIDE DEF f, B, I
      <3> QED
        BY <1>1, <2>3, PartTotals
    <2>5. given = Total(Part(f, B[x]))
      BY <2>2
    <2>6. c[x] = Consumed(pool, q, x) /\ f[x] = intakeLots[x].remaining
          /\ intakeLots[x].remaining \in Nat
      BY <1>1
    <2> HIDE DEF c, f, B, I, before, given
    <2> QED
      BY <2>1, <2>4, <2>5, <2>6
  <1> HIDE DEF I, f, B, c
  <1>8. Total(c) = q
    BY <1>1, <1>4, <1>5, <1>6, <1>7, Waterfill
  <1>9. Total(Allocations(pool, q)) = Total(c)
    <2>1. Allocations(pool, q) \in [Lots -> Nat]
      BY ConsumedFacts DEF Allocations
    <2>2. Part(Allocations(pool, q), I) = c
      BY <1>1 DEF Part, Allocations, c
    <2>3. ASSUME NEW l \in Lots \ I PROVE Allocations(pool, q)[l] = 0
      <3>1. Consumed(pool, q, l) = 0
        BY ConsumedFacts DEF I
      <3> QED
        BY <3>1 DEF Allocations
    <2> DEFINE al == Allocations(pool, q)
    <2>4. IsFiniteSet(Lots) /\ I \in SUBSET Lots /\ al \in [Lots -> Nat]
          /\ \A l \in Lots \ I : al[l] = 0
      BY <1>1, <2>1, <2>3, CustodyConstants
    <2> HIDE DEF al
    <2>5. Total(al) = Total(Part(al, I))
      BY <2>4, TotalPart
    <2> QED
      BY <2>2, <2>5 DEF al
  <1> QED
    BY <1>8, <1>9

-----------------------------------------------------------------------------
(* Lots                                                                     *)

PoolOf(t) == redemptionRequests[t.request].pool

\* Only lots of the pool are taken from.
LEMMA ConsumedFrom ==
    ASSUME LotMaps(intakeLots, redemptionSettlements), NEW pool, NEW q \in Nat, NEW l \in Lots
    PROVE  /\ Consumed(pool, q, l) \in Nat
           /\ Consumed(pool, q, l) # 0 => intakeLots[l] # None /\ intakeLots[l].pool = pool
  <1>1. /\ Consumed(pool, q, l) \in Nat
        /\ Consumed(pool, q, l) # 0 => /\ intakeLots[l] # None /\ intakeLots[l].pool = pool
                                       /\ Consumed(pool, q, l) <= intakeLots[l].remaining
    BY ConsumedFacts
  <1> QED
    BY <1>1

\* A lot after an allocation.
LEMMA AllocatedLot ==
    ASSUME LotMaps(intakeLots, redemptionSettlements), NEW pool, NEW q \in Nat, NEW l \in Lots
    PROVE  LET n == Consumed(pool, q, l)
               a == AllocatedLots(pool, q)[l]
           IN  /\ n = 0 => a = intakeLots[l]
               /\ n # 0 => /\ a \in LotRecords /\ a # None /\ a.pool = intakeLots[l].pool
                           /\ a.quantity = intakeLots[l].quantity
                           /\ a.remaining = intakeLots[l].remaining - n
                           /\ a.remaining \in 0..a.quantity
  <1> DEFINE n == Consumed(pool, q, l)
             old == intakeLots[l]
             left == old.remaining - n
             st == LotStatus(left, old.quantity)
             a == [old EXCEPT !.remaining = left, !.status = st]
  <1>1. AllocatedLots(pool, q)[l] = IF n = 0 THEN old ELSE a
    BY DEF AllocatedLots
  <1>2. n \in Nat /\ (n # 0 => old # None /\ n <= old.remaining)
    BY ConsumedFacts
  <1>3. ASSUME n # 0
        PROVE  /\ a \in LotRecords /\ a # None /\ a.pool = old.pool
               /\ a.quantity = old.quantity /\ a.remaining = old.remaining - n
               /\ a.remaining \in 0..a.quantity
    <2>1. old # None /\ old \in LotRecords /\ old.remaining \in 0..old.quantity
      BY <1>2, <1>3 DEF LotMaps
    <2>2. old.remaining \in Int /\ old.quantity \in Int
      BY <2>1 DEF LotRecords
    <2> HIDE DEF n, old
    <2>3. left \in Int /\ left \in 0..old.quantity
      BY <1>2, <1>3, <2>1, <2>2
    <2>4. st \in {"recorded", "partially_allocated", "exhausted"}
      BY DEF LotStatus
    <2>5. left = old.remaining - n
      OBVIOUS
    <2> HIDE DEF left, st
    <2>6. a \in LotRecords /\ a.pool = old.pool /\ a.quantity = old.quantity
          /\ a.remaining = left
      BY <2>1, <2>3, <2>4 DEF LotRecords
    <2>7. a # None
      BY <2>6, CustodyNone DEF LotRecords
    <2> HIDE DEF a
    <2> QED
      BY <2>3, <2>5, <2>6, <2>7
  <1> HIDE DEF a
  <1> QED
    BY <1>1, <1>3

\* The lots and settlements after a transaction.
LEMMA LotRows ==
    ASSUME MemLedger, MemCustody, LotMaps(intakeLots, redemptionSettlements), height \in Int,
           NEW t \in Txs, MemGrounded(t), ExecuteTx(t)
    PROVE  /\ LotMaps(intakeLots', redemptionSettlements')
           /\ t.type = "RecordCustodyIntakeLot" =>
                 /\ t.lot \in Lots /\ intakeLots'[t.lot] # None
                 /\ intakeLots'[t.lot].quantity \in Int
                 /\ intakeLots'[t.lot].remaining = intakeLots'[t.lot].quantity
                 /\ \A l \in Lots \ {t.lot} : intakeLots'[l] = intakeLots[l]
                 /\ redemptionSettlements' = redemptionSettlements
           /\ t.type = "SettleCustodyRedemption" =>
                 /\ t.settlement \in Settlements /\ t.request \in Requests
                 /\ t.quantity \in Nat /\ redemptionRequests[t.request] # None
                 /\ intakeLots' = AllocatedLots(PoolOf(t), t.quantity)
                 /\ redemptionSettlements'[t.settlement] # None
                 /\ redemptionSettlements'[t.settlement].request = t.request
                 /\ redemptionSettlements'[t.settlement].quantity = t.quantity
                 /\ redemptionSettlements'[t.settlement].allocated
                    = Allocations(PoolOf(t), t.quantity)
                 /\ \A s \in Settlements \ {t.settlement} :
                       redemptionSettlements'[s] = redemptionSettlements[s]
           /\ t.type \notin {"RecordCustodyIntakeLot", "SettleCustodyRedemption"} =>
                 intakeLots' = intakeLots /\ redemptionSettlements' = redemptionSettlements
  <1>r. /\ intakeLots \in [Lots -> LotRecords \cup {None}]
        /\ redemptionSettlements \in [Settlements -> SettlementRecords \cup {None}]
        /\ \A l \in Lots : intakeLots[l] # None =>
              intakeLots[l].remaining \in 0..intakeLots[l].quantity
    BY DEF LotMaps
  <1>1. CASE /\ intakeLots' = intakeLots /\ redemptionSettlements' = redemptionSettlements
             /\ t.type \notin {"RecordCustodyIntakeLot", "SettleCustodyRedemption"}
    BY <1>1
  <1>2. CASE t.type = "RecordCustodyIntakeLot" /\ ExecuteIntakeLot(t, height)
    <2> DEFINE q == [pool |-> <<t.asset, t.warehouse, t.sku>>, quantity |-> t.quantity,
                     remaining |-> t.quantity, policy |-> t.policy, at |-> height,
                     status |-> "recorded"]
    <2>1. /\ intakeLots' = [intakeLots EXCEPT ![t.lot] = q]
          /\ redemptionSettlements' = redemptionSettlements
      BY <1>2 DEF ExecuteIntakeLot
    <2>2. /\ t.lot \in Lots /\ t.policy \in Policies /\ t.quantity \in 1..MaxQuantity
          /\ t.asset \in Assets /\ t.warehouse \in Warehouses /\ t.sku \in SkuClasses
      BY <1>2, TxKinds DEF IntakeLotTxs, Quantities
    <2>3. t.quantity \in Int /\ t.quantity \in 0..t.quantity
      BY <2>2, CustodyConstants
    <2>4. q \in LotRecords /\ q.quantity = t.quantity /\ q.remaining = t.quantity
      BY <2>2, <2>3 DEF LotRecords
    <2>5. q # None
      BY <2>4, CustodyNone DEF LotRecords
    <2> HIDE DEF q
    <2>6. intakeLots' \in [Lots -> LotRecords \cup {None}] /\ intakeLots'[t.lot] = q
          /\ \A l \in Lots \ {t.lot} : intakeLots'[l] = intakeLots[l]
      BY <1>r, <2>1, <2>2, <2>4
    <2>7. \A l \in Lots : intakeLots'[l] # None =>
              intakeLots'[l].remaining \in 0..intakeLots'[l].quantity
      BY <1>r, <2>3, <2>4, <2>6
    <2>8. LotMaps(intakeLots', redemptionSettlements')
      BY <1>r, <2>1, <2>6, <2>7 DEF LotMaps
    <2>9. intakeLots'[t.lot] # None /\ intakeLots'[t.lot].quantity \in Int
          /\ intakeLots'[t.lot].remaining = intakeLots'[t.lot].quantity
      BY <2>3, <2>4, <2>5, <2>6
    <2> QED
      BY <1>2, <2>1, <2>2, <2>6, <2>8, <2>9
  <1>3. CASE t.type = "SettleCustodyRedemption" /\ ExecuteSettle(t)
    <2> DEFINE al == Allocations(PoolOf(t), t.quantity)
               q == [request |-> t.request, quantity |-> t.quantity, allocated |-> al]
    <2>1. /\ intakeLots' = AllocatedLots(PoolOf(t), t.quantity)
          /\ redemptionSettlements' = [redemptionSettlements EXCEPT ![t.settlement] = q]
      BY <1>3 DEF ExecuteSettle, PoolOf
    <2>2. /\ t.settlement \in Settlements /\ t.request \in Requests
          /\ t.quantity \in 1..MaxQuantity
      BY <1>3, TxKinds DEF SettleTxs, Quantities
    <2>3. t.quantity \in Nat
      BY <2>2, CustodyConstants
    <2>4. redemptionRequests[t.request] # None
      BY <1>3 DEF MemGrounded, Grounded
    <2>5. al \in [Lots -> Nat]
      <3>1. \A l \in Lots : Consumed(PoolOf(t), t.quantity, l) \in Nat
        BY <2>3, ConsumedFacts
      <3> QED
        BY <3>1 DEF Allocations
    <2>6. /\ \A l \in Lots : AllocatedLots(PoolOf(t), t.quantity)[l] \in LotRecords \cup {None}
          /\ \A l \in Lots : AllocatedLots(PoolOf(t), t.quantity)[l] # None =>
                 AllocatedLots(PoolOf(t), t.quantity)[l].remaining
                 \in 0..AllocatedLots(PoolOf(t), t.quantity)[l].quantity
      <3> SUFFICES ASSUME NEW l \in Lots
                   PROVE  /\ AllocatedLots(PoolOf(t), t.quantity)[l] \in LotRecords \cup {None}
                          /\ AllocatedLots(PoolOf(t), t.quantity)[l] # None =>
                                AllocatedLots(PoolOf(t), t.quantity)[l].remaining
                                \in 0..AllocatedLots(PoolOf(t), t.quantity)[l].quantity
        OBVIOUS
      <3>1. CASE Consumed(PoolOf(t), t.quantity, l) = 0
        <4>1. AllocatedLots(PoolOf(t), t.quantity)[l] = intakeLots[l]
          BY <2>3, <3>1, AllocatedLot
        <4> QED
          BY <1>r, <4>1
      <3>2. CASE Consumed(PoolOf(t), t.quantity, l) # 0
        BY <2>3, <3>2, AllocatedLot
      <3> QED
        BY <3>1, <3>2
    <2>7. DOMAIN AllocatedLots(PoolOf(t), t.quantity) = Lots
          /\ AllocatedLots(PoolOf(t), t.quantity)
             = [l \in Lots |-> AllocatedLots(PoolOf(t), t.quantity)[l]]
      BY DEF AllocatedLots
    <2>8. intakeLots' \in [Lots -> LotRecords \cup {None}]
      BY <2>1, <2>6, <2>7
    <2> HIDE DEF al
    <2>9. q \in SettlementRecords /\ q.request = t.request /\ q.quantity = t.quantity
          /\ q.allocated = al
      BY <2>2, <2>5 DEF SettlementRecords
    <2>10. q # None
      BY <2>9, CustodyNone DEF SettlementRecords
    <2> HIDE DEF q
    <2>11. /\ redemptionSettlements' \in [Settlements -> SettlementRecords \cup {None}]
           /\ redemptionSettlements'[t.settlement] = q
           /\ \A s \in Settlements \ {t.settlement} :
                 redemptionSettlements'[s] = redemptionSettlements[s]
      BY <1>r, <2>1, <2>2, <2>9
    <2>12. LotMaps(intakeLots', redemptionSettlements')
      BY <2>1, <2>6, <2>8, <2>11 DEF LotMaps
    <2> QED
      BY <1>3, <2>1, <2>2, <2>3, <2>4, <2>9, <2>10, <2>11, <2>12 DEF al
  <1>4. CASE LedgerExecuteTx(t) /\ UNCHANGED custodyVars
    BY <1>1, <1>4 DEF custodyVars, LedgerExecuteTx
  <1>5. CASE CustodyExecuteTx(t, height)
    <2>1. \/ ExecuteWarehouseOperator(t) \/ ExecuteSkuClass(t) \/ ExecutePolicy(t)
          \/ ExecuteRedemption(t) \/ ExecuteDemurrage(t)
          => intakeLots' = intakeLots /\ redemptionSettlements' = redemptionSettlements
      BY DEF ExecuteWarehouseOperator, ExecuteSkuClass, ExecutePolicy, ExecuteRedemption,
         ExecuteDemurrage
    <2> QED
      BY <1>1, <1>2, <1>3, <1>5, <2>1 DEF CustodyExecuteTx
  <1> QED
    BY <1>4, <1>5 DEF ExecuteTx

\* What settlements were given from a lot.
Taken(se, l) == [s \in Settlements |-> IF se[s] = None THEN 0 ELSE se[s].allocated[l]]

\* Every lot has lost what settlements were given from it.
Booked(lo, se) ==
    \A l \in Lots :
        /\ lo[l] # None => lo[l].quantity = lo[l].remaining + Total(Taken(se, l))
        /\ lo[l] = None => \A s \in Settlements : Taken(se, l)[s] = 0

\* Every settlement was given its quantity, or its pool was contended.
Filled(rq, se, cn) ==
    \A s \in Settlements : se[s] # None =>
        \/ Total(se[s].allocated) = se[s].quantity
        \/ <<"pool", rq[se[s].request].pool>> \in cn

\* The request of a settlement was there at the last commit, and is settled.
Answered(dbrq, rq, se) ==
    \A s \in Settlements : se[s] # None =>
        dbrq[se[s].request] # None /\ rq[se[s].request].status = "settled"

\* What this block changed since the last commit it has claimed: new lots, new
\* settlements, and the pools of the lots that lost something.
Since(dblo, dbse, lo, se, cl) ==
    /\ \A l \in Lots : lo[l] # None /\ dblo[l] = None => <<"lot", l>> \in cl
    /\ \A s \in Settlements : se[s] # None /\ dbse[s] = None => <<"settlement", s>> \in cl
    /\ \A l \in Lots : dblo[l] # None /\ <<"pool", dblo[l].pool>> \notin cl => lo[l] = dblo[l]

SettledApart(cn) == \A s \in Settlements : <<"settlement", s>> \notin cn
Calm(cn, re) == /\ \A l \in Lots : <<"lot", l>> \notin cn
                /\ SettledApart(cn) /\ ~ re

LotInv ==
    /\ LotMaps(intakeLots, redemptionSettlements) /\ LotMaps(db[2][5], db[2][7])
    /\ height \in Int
    /\ ~ replayed =>
          /\ Answered(db[2][6], redemptionRequests, redemptionSettlements)
          /\ Answered(db[2][6], db[2][6], db[2][7])
          /\ Since(db[2][5], db[2][7], intakeLots, redemptionSettlements, claimed)
    /\ Calm(contended, replayed) =>
          /\ Booked(intakeLots, redemptionSettlements)
          /\ Booked(db[2][5], db[2][7])
          /\ Filled(redemptionRequests, redemptionSettlements, contended)
          /\ Filled(db[2][6], db[2][7], contended)

\* What was taken from a lot is a natural number.
LEMMA TakenFacts ==
    ASSUME NEW lo, NEW se, LotMaps(lo, se), NEW l \in Lots
    PROVE  /\ Taken(se, l) \in [Settlements -> Nat]
           /\ Total(Taken(se, l)) \in Nat
           /\ (\A s \in Settlements : Taken(se, l)[s] = 0) => Total(Taken(se, l)) = 0
  <1>1. ASSUME NEW s \in Settlements, se[s] # None PROVE se[s].allocated[l] \in Nat
    <2>1. se[s] \in SettlementRecords
      BY <1>1 DEF LotMaps
    <2> QED
      BY <2>1 DEF SettlementRecords
  <1>2. \A s \in Settlements : (IF se[s] = None THEN 0 ELSE se[s].allocated[l]) \in Nat
    BY <1>1
  <1>3. Taken(se, l) \in [Settlements -> Nat] /\ Taken(se, l) \in [Settlements -> Int]
    BY <1>2 DEF Taken
  <1> QED
    BY <1>3, TotalType, CustodyConstants

\* What intakes and settlements claim.
LEMMA CustodyClaims ==
    ASSUME NEW t \in Txs
    PROVE  /\ t.type = "RecordCustodyIntakeLot" => <<"lot", t.lot>> \in Claims(t)
           /\ t.type = "SettleCustodyRedemption" =>
                 /\ <<"pool", PoolOf(t)>> \in Claims(t)
                 /\ <<"request", t.request>> \in Claims(t)
                 /\ <<"settlement", t.settlement>> \in Claims(t)
  <1>1. t.type = "RecordCustodyIntakeLot" => Claims(t) = {<<"lot", t.lot>>}
    BY DEF Claims
  <1>2. t.type = "SettleCustodyRedemption" =>
           Claims(t) = {<<"account", redemptionRequests[t.request].pool[1],
                          redemptionRequests[t.request].account>>,
                        <<"pool", redemptionRequests[t.request].pool>>,
                        <<"request", t.request>>, <<"settlement", t.settlement>>}
    BY DEF Claims
  <1> QED
    BY <1>1, <1>2 DEF PoolOf

\* A pool holds no less once lots are added to it.
LEMMA StockGrows ==
    ASSUME NEW lo, NEW se, LotMaps(lo, se), NEW lo2, NEW se2, LotMaps(lo2, se2), NEW pool,
           \A l \in Lots : lo[l] # None /\ lo[l].pool = pool => lo2[l] = lo[l]
    PROVE  /\ Stock(lo, pool) \in Nat /\ Stock(lo2, pool) \in Nat
           /\ Stock(lo, pool) <= Stock(lo2, pool)
  <1> DEFINE A == StockIn(lo2, pool)
             C == StockIn(lo, pool)
             f == [l \in A |-> lo2[l].remaining]
  <1>1. IsFiniteSet(A) /\ f \in [A -> Nat]
    BY StockFacts
  <1>2. C \in SUBSET A /\ A \in SUBSET A /\ \A l \in C : lo2[l] = lo[l]
    BY DEF StockIn
  <1>3. Part(f, A) = f
    BY DEF Part
  <1>4. Part(f, C) = [l \in C |-> lo[l].remaining]
    BY <1>2 DEF Part
  <1>5. Stock(lo2, pool) = Total(Part(f, A)) /\ Stock(lo, pool) = Total(Part(f, C))
    BY <1>3, <1>4 DEF Stock
  <1> HIDE DEF A, C, f
  <1>6. /\ Total(Part(f, A)) \in Nat /\ Total(Part(f, C)) \in Nat
        /\ Total(Part(f, C)) <= Total(Part(f, A))
    BY <1>1, <1>2, PartTotals
  <1> QED
    BY <1>5, <1>6

\* A settlement takes from the lots what it is given.
LEMMA SettleBooked ==
    ASSUME LotMaps(intakeLots, redemptionSettlements), Booked(intakeLots, redemptionSettlements),
           NEW pool, NEW q \in Nat, NEW s \in Settlements, redemptionSettlements[s] = None,
           NEW lo2, NEW se2, LotMaps(lo2, se2), lo2 = AllocatedLots(pool, q),
           se2[s] # None, se2[s].allocated = Allocations(pool, q),
           \A x \in Settlements \ {s} : se2[x] = redemptionSettlements[x]
    PROVE  Booked(lo2, se2)
  <1> SUFFICES ASSUME NEW l \in Lots
               PROVE  /\ lo2[l] # None => lo2[l].quantity = lo2[l].remaining + Total(Taken(se2, l))
                      /\ lo2[l] = None => \A x \in Settlements : Taken(se2, l)[x] = 0
    BY DEF Booked
  <1> DEFINE n == Consumed(pool, q, l)
             f == Taken(redemptionSettlements, l)
             g == Taken(se2, l)
  <1>1. n \in Nat /\ (n # 0 => intakeLots[l] # None)
    BY ConsumedFrom
  <1>2. f \in [Settlements -> Nat] /\ g \in [Settlements -> Nat] /\ Total(f) \in Nat
        /\ Total(g) \in Nat
    BY TakenFacts
  <1>3. f[s] = 0 /\ g[s] = n /\ \A x \in Settlements \ {s} : g[x] = f[x]
    BY DEF Taken, Allocations
  <1>4. /\ n = 0 => lo2[l] = intakeLots[l]
        /\ n # 0 => /\ lo2[l] # None /\ lo2[l].quantity = intakeLots[l].quantity
                    /\ lo2[l].remaining = intakeLots[l].remaining - n
    BY AllocatedLot
  <1>5. /\ intakeLots[l] # None => /\ intakeLots[l].quantity = intakeLots[l].remaining + Total(f)
                                   /\ intakeLots[l].remaining \in Int
        /\ intakeLots[l] = None => \A x \in Settlements : f[x] = 0
    <2>1. intakeLots[l] # None => intakeLots[l] \in LotRecords
      BY DEF LotMaps
    <2> QED
      BY <2>1 DEF Booked, LotRecords
  <1> HIDE DEF f, g, n
  <1>6. Total(g) = Total(f) + n
    <2>1. f \in [Settlements -> Int] /\ g \in [Settlements -> Int] /\ IsFiniteSet(Settlements)
      BY <1>2, CustodyConstants
    <2>2. Total(g) = Total(f) + g[s] - f[s]
      BY <1>3, <2>1, TotalChange
    <2> QED
      BY <1>1, <1>2, <1>3, <2>2
  <1>7. CASE n = 0
    <2>1. \A x \in Settlements : g[x] = f[x]
      BY <1>3, <1>7
    <2>2. Total(g) = Total(f)
      BY <1>2, <1>6, <1>7
    <2> QED
      BY <1>4, <1>5, <1>7, <2>1, <2>2 DEF g
  <1>8. CASE n # 0
    <2>1. lo2[l].quantity = lo2[l].remaining + Total(g)
      BY <1>1, <1>2, <1>4, <1>5, <1>6, <1>8
    <2> QED
      BY <1>4, <1>8, <2>1 DEF g
  <1> QED
    BY <1>7, <1>8

\* A transaction keeps the lots accounted: the lot or the settlement it records
\* is new unless the block has claimed it before, and a pool the block has not
\* claimed holds what validation saw.
LEMMA DeliverLots ==
    ASSUME NodeTypes, FreshInv, BalanceInv, LotInv, DeliverTx
    PROVE  LotInv'
  <1> DEFINE t == stored[next][txi]
  <1>1. /\ UNCHANGED <<db, stored, next, replayed, height>> /\ ExecuteTx(t)
        /\ claimed' = claimed \cup Claims(t)
        /\ contended' = contended \cup (claimed \cap Claims(t))
    BY DEF DeliverTx, Note
  <1>2. t \in Txs /\ MemGrounded(t) /\ next \in 1..Len(stored) /\ txi \in 1..Len(stored[next])
        /\ MemLedger /\ MemCustody
    BY DeliverEffects DEF NodeTypes
  <1>3. DbGrounded(t) /\ (~ replayed => DbChecked(t))
    <2>1. next \in next..Len(stored)
      BY <1>2
    <2> QED
      BY <1>2, <2>1 DEF FreshInv, NodeTypes
  <1> HIDE DEF t
  <1>h. /\ LotMaps(intakeLots, redemptionSettlements) /\ LotMaps(db[2][5], db[2][7])
        /\ height \in Int
    BY DEF LotInv
  <1>4. LotMaps(intakeLots', redemptionSettlements') /\ LotMaps(db'[2][5], db'[2][7])
        /\ height' \in Int
    BY <1>1, <1>2, <1>h, LotRows
  <1>i. t.type = "RecordCustodyIntakeLot" =>
                 /\ t.lot \in Lots /\ intakeLots'[t.lot] # None
                 /\ intakeLots'[t.lot].quantity \in Int
                 /\ intakeLots'[t.lot].remaining = intakeLots'[t.lot].quantity
                 /\ \A l \in Lots \ {t.lot} : intakeLots'[l] = intakeLots[l]
                 /\ redemptionSettlements' = redemptionSettlements
    BY <1>1, <1>2, <1>h, LotRows
  <1>s. t.type = "SettleCustodyRedemption" =>
                 /\ t.settlement \in Settlements /\ t.request \in Requests
                 /\ t.quantity \in Nat /\ redemptionRequests[t.request] # None
                 /\ intakeLots' = AllocatedLots(PoolOf(t), t.quantity)
                 /\ redemptionSettlements'[t.settlement] # None
                 /\ redemptionSettlements'[t.settlement].request = t.request
                 /\ redemptionSettlements'[t.settlement].quantity = t.quantity
                 /\ redemptionSettlements'[t.settlement].allocated
                    = Allocations(PoolOf(t), t.quantity)
                 /\ \A s \in Settlements \ {t.settlement} :
                       redemptionSettlements'[s] = redemptionSettlements[s]
    BY <1>1, <1>2, <1>h, LotRows
  <1>o. t.type \notin {"RecordCustodyIntakeLot", "SettleCustodyRedemption"} =>
                 intakeLots' = intakeLots /\ redemptionSettlements' = redemptionSettlements
    BY <1>1, <1>2, <1>h, LotRows
  <1>r. \A s \in Settlements : redemptionSettlements[s] # None =>
            redemptionSettlements[s].request \in Requests
    BY <1>h DEF LotMaps, SettlementRecords
  <1>5. ASSUME ~ replayed, NEW r \in Requests, db[2][6][r] # None
        PROVE  /\ redemptionRequests'[r].pool = redemptionRequests[r].pool
               /\ redemptionRequests[r].pool = db[2][6][r].pool
               /\ redemptionRequests[r].status = "settled" =>
                     redemptionRequests'[r].status = "settled"
               /\ t.type = "SettleCustodyRedemption" /\ t.request = r =>
                     redemptionRequests'[r].status = "settled"
    <2>1. ~ (t.type = "RequestCustodyRedemption" /\ t.request = r)
      BY <1>3, <1>5 DEF DbChecked, Checked
    <2>2. redemptionRequests[r] # None
      BY <1>5 DEF NodeTypes, DbGrows, Grows
    <2>3. redemptionRequests'[r].pool = redemptionRequests[r].pool
      BY <1>1, <1>2, <2>1, <2>2, RequestEffects
    <2>4. redemptionRequests[r].pool = db[2][6][r].pool
      BY <1>5 DEF BalanceInv
    <2>5. /\ ~ (t.type = "SettleCustodyRedemption" /\ t.request = r) =>
               redemptionRequests'[r] = redemptionRequests[r]
          /\ t.type = "SettleCustodyRedemption" /\ t.request = r =>
               redemptionRequests'[r].status = "settled"
      BY <1>1, <1>2, <2>1, RequestRows
    <2> QED
      BY <2>3, <2>4, <2>5
  <1>6. ASSUME t.type = "SettleCustodyRedemption" PROVE db[2][6][t.request] # None
    BY <1>3, <1>6 DEF DbGrounded, Grounded
  <1>7. ASSUME ~ replayed
        PROVE  Answered(db[2][6], redemptionRequests', redemptionSettlements')
    <2> SUFFICES ASSUME NEW s \in Settlements, redemptionSettlements'[s] # None
                 PROVE  /\ db[2][6][redemptionSettlements'[s].request] # None
                        /\ redemptionRequests'[redemptionSettlements'[s].request].status
                           = "settled"
      BY DEF Answered
    <2>1. CASE t.type = "SettleCustodyRedemption" /\ s = t.settlement
      BY <1>s, <1>5, <1>6, <1>7, <2>1
    <2>2. CASE ~ (t.type = "SettleCustodyRedemption" /\ s = t.settlement)
      <3>1. redemptionSettlements'[s] = redemptionSettlements[s]
        BY <1>i, <1>s, <1>o, <2>2
      <3>2. /\ db[2][6][redemptionSettlements[s].request] # None
            /\ redemptionRequests[redemptionSettlements[s].request].status = "settled"
        BY <1>7, <3>1 DEF LotInv, Answered
      <3> QED
        BY <1>r, <1>5, <1>7, <3>1, <3>2
    <2> QED
      BY <2>1, <2>2
  <1>8. ASSUME ~ replayed
        PROVE  Since(db[2][5], db[2][7], intakeLots', redemptionSettlements', claimed')
    <2>0. Since(db[2][5], db[2][7], intakeLots, redemptionSettlements, claimed)
      BY <1>8 DEF LotInv
    <2>1. CASE t.type = "RecordCustodyIntakeLot"
      <3>1. <<"lot", t.lot>> \in claimed' /\ claimed \subseteq claimed'
        BY <1>1, <1>2, <2>1, CustodyClaims
      <3>2. db[2][5][t.lot] = None
        BY <1>3, <1>8, <2>1 DEF DbChecked, Checked
      <3> QED
        BY <1>i, <2>0, <2>1, <3>1, <3>2 DEF Since
    <2>2. CASE t.type = "SettleCustodyRedemption"
      <3>1. /\ <<"pool", PoolOf(t)>> \in claimed' /\ <<"settlement", t.settlement>> \in claimed'
            /\ claimed \subseteq claimed'
        BY <1>1, <1>2, <2>2, CustodyClaims
      <3>2. ASSUME NEW l \in Lots
            PROVE  /\ intakeLots'[l] # None => intakeLots[l] # None
                   /\ intakeLots'[l] = intakeLots[l] \/ intakeLots[l].pool = PoolOf(t)
        <4>1. CASE Consumed(PoolOf(t), t.quantity, l) = 0
          BY <1>h, <1>s, <2>2, <4>1, AllocatedLot
        <4>2. CASE Consumed(PoolOf(t), t.quantity, l) # 0
          BY <1>h, <1>s, <2>2, <4>2, ConsumedFrom
        <4> QED
          BY <4>1, <4>2
      <3>3. \A l \in Lots : intakeLots'[l] # None /\ db[2][5][l] = None => <<"lot", l>> \in claimed'
        BY <2>0, <3>1, <3>2 DEF Since
      <3>4. \A s \in Settlements : redemptionSettlements'[s] # None /\ db[2][7][s] = None =>
               <<"settlement", s>> \in claimed'
        BY <1>s, <2>0, <2>2, <3>1 DEF Since
      <3>5. ASSUME NEW l \in Lots, db[2][5][l] # None, <<"pool", db[2][5][l].pool>> \notin claimed'
            PROVE  intakeLots'[l] = db[2][5][l]
        <4>1. intakeLots[l] = db[2][5][l]
          BY <2>0, <3>1, <3>5 DEF Since
        <4>2. intakeLots[l].pool # PoolOf(t)
          BY <3>1, <3>5, <4>1
        <4> QED
          BY <3>2, <4>1, <4>2
      <3> QED
        BY <3>3, <3>4, <3>5 DEF Since
    <2>3. CASE t.type \notin {"RecordCustodyIntakeLot", "SettleCustodyRedemption"}
      BY <1>1, <1>o, <2>0, <2>3 DEF Since
    <2> QED
      BY <2>1, <2>2, <2>3
  <1>9. ASSUME Calm(contended', replayed)
        PROVE  /\ Booked(intakeLots', redemptionSettlements')
               /\ Filled(redemptionRequests', redemptionSettlements', contended')
               /\ Booked(db[2][5], db[2][7]) /\ Filled(db[2][6], db[2][7], contended')
    <2>0. /\ Calm(contended, replayed) /\ ~ replayed /\ contended \subseteq contended'
          /\ \A l \in Lots : <<"lot", l>> \notin contended'
          /\ \A s \in Settlements : <<"settlement", s>> \notin contended'
      BY <1>1, <1>9 DEF Calm, SettledApart
    <2>1. /\ Booked(intakeLots, redemptionSettlements) /\ Booked(db[2][5], db[2][7])
          /\ Filled(redemptionRequests, redemptionSettlements, contended)
          /\ Filled(db[2][6], db[2][7], contended)
          /\ Answered(db[2][6], redemptionRequests, redemptionSettlements)
          /\ Since(db[2][5], db[2][7], intakeLots, redemptionSettlements, claimed)
      BY <2>0 DEF LotInv
    <2>2. ASSUME NEW s \in Settlements, redemptionSettlements[s] # None
          PROVE  \/ Total(redemptionSettlements[s].allocated) = redemptionSettlements[s].quantity
                 \/ <<"pool", redemptionRequests'[redemptionSettlements[s].request].pool>>
                    \in contended'
      <3>1. redemptionSettlements[s].request \in Requests
            /\ db[2][6][redemptionSettlements[s].request] # None
        BY <1>r, <2>1, <2>2 DEF Answered
      <3>2. redemptionRequests'[redemptionSettlements[s].request].pool
            = redemptionRequests[redemptionSettlements[s].request].pool
        BY <1>5, <2>0, <3>1
      <3> QED
        BY <2>0, <2>1, <2>2, <3>2 DEF Filled
    <2>3. Filled(db[2][6], db[2][7], contended')
      BY <2>0, <2>1 DEF Filled
    <2>4. CASE t.type = "RecordCustodyIntakeLot"
      <3>1. <<"lot", t.lot>> \notin claimed
        BY <1>1, <1>2, <1>i, <2>0, <2>4, CustodyClaims
      <3>2. db[2][5][t.lot] = None
        BY <1>3, <2>0, <2>4 DEF DbChecked, Checked
      <3>3. intakeLots[t.lot] = None
        BY <1>i, <2>1, <2>4, <3>1, <3>2 DEF Since
      <3>4. Total(Taken(redemptionSettlements, t.lot)) = 0
        BY <1>h, <1>i, <2>1, <2>4, <3>3, TakenFacts DEF Booked
      <3>5. intakeLots'[t.lot].quantity
            = intakeLots'[t.lot].remaining + Total(Taken(redemptionSettlements, t.lot))
        BY <1>i, <2>4, <3>4
      <3>6. Booked(intakeLots', redemptionSettlements)
        BY <1>i, <2>1, <2>4, <3>5 DEF Booked
      <3>7. Filled(redemptionRequests', redemptionSettlements, contended')
        BY <2>2 DEF Filled
      <3> QED
        BY <1>i, <2>1, <2>3, <2>4, <3>6, <3>7
    <2>5. CASE t.type = "SettleCustodyRedemption"
      <3>0. /\ t.settlement \in Settlements /\ t.request \in Requests
            /\ t.quantity \in Nat
            /\ intakeLots' = AllocatedLots(PoolOf(t), t.quantity)
            /\ redemptionSettlements'[t.settlement] # None
            /\ redemptionSettlements'[t.settlement].request = t.request
            /\ redemptionSettlements'[t.settlement].quantity = t.quantity
            /\ redemptionSettlements'[t.settlement].allocated
               = Allocations(PoolOf(t), t.quantity)
            /\ \A s \in Settlements \ {t.settlement} :
                  redemptionSettlements'[s] = redemptionSettlements[s]
        BY <1>s, <2>5
      <3>1. <<"settlement", t.settlement>> \notin claimed
        BY <1>1, <1>2, <2>0, <2>5, <3>0, CustodyClaims
      <3>2. /\ db[2][7][t.settlement] = None
            /\ Stock(db[2][5], db[2][6][t.request].pool) >= t.quantity
        BY <1>3, <2>0, <2>5 DEF DbChecked, Checked
      <3>3. redemptionSettlements[t.settlement] = None
        BY <2>1, <3>0, <3>1, <3>2 DEF Since
      <3> DEFINE pool == PoolOf(t)
                 q == t.quantity
                 sid == t.settlement
                 lo2 == intakeLots'
                 se2 == redemptionSettlements'
      <3>4. /\ q \in Nat /\ sid \in Settlements /\ redemptionSettlements[sid] = None
            /\ LotMaps(lo2, se2) /\ lo2 = AllocatedLots(pool, q)
            /\ se2[sid] # None /\ se2[sid].allocated = Allocations(pool, q)
            /\ \A x \in Settlements \ {sid} : se2[x] = redemptionSettlements[x]
        BY <1>4, <3>0, <3>3
      <3>5. Booked(lo2, se2)
        <4> HIDE DEF pool, q, sid, lo2, se2
        <4> QED
          BY <1>h, <2>1, <3>4, SettleBooked
      <3>6. /\ redemptionRequests'[t.request].pool = pool
            /\ pool = db[2][6][t.request].pool
        BY <1>5, <1>6, <2>0, <2>5, <3>0 DEF PoolOf
      <3>7. Total(Allocations(pool, q)) = q \/ <<"pool", pool>> \in contended'
        <4>1. CASE <<"pool", pool>> \in claimed
          BY <1>1, <1>2, <2>5, <4>1, CustodyClaims
        <4>2. CASE <<"pool", pool>> \notin claimed
          <5>1. \A l \in Lots : db[2][5][l] # None /\ db[2][5][l].pool = pool =>
                   intakeLots[l] = db[2][5][l]
            BY <2>1, <4>2 DEF Since
          <5> HIDE DEF pool, q
          <5>2. /\ Stock(db[2][5], pool) \in Nat /\ Stock(intakeLots, pool) \in Nat
                /\ Stock(db[2][5], pool) <= Stock(intakeLots, pool)
            BY <1>h, <5>1, StockGrows
          <5>3. Stock(db[2][5], pool) >= q
            BY <3>2, <3>6 DEF q
          <5>4. Stock(intakeLots, pool) >= q
            BY <3>4, <5>2, <5>3
          <5> QED
            BY <1>h, <3>4, <5>4, AllocationsTotal
        <4> QED
          BY <4>1, <4>2
      <3>8. Filled(redemptionRequests', redemptionSettlements', contended')
        <4> SUFFICES ASSUME NEW s \in Settlements, redemptionSettlements'[s] # None
                     PROVE  \/ Total(redemptionSettlements'[s].allocated)
                               = redemptionSettlements'[s].quantity
                            \/ <<"pool", redemptionRequests'[redemptionSettlements'[s].request].pool>>
                               \in contended'
          BY DEF Filled
        <4>1. CASE s = t.settlement
          BY <3>0, <3>6, <3>7, <4>1
        <4>2. CASE s # t.settlement
          BY <2>2, <3>0, <4>2
        <4> QED
          BY <4>1, <4>2
      <3> QED
        BY <2>1, <2>3, <3>5, <3>8
    <2>6. CASE t.type \notin {"RecordCustodyIntakeLot", "SettleCustodyRedemption"}
      <3>1. intakeLots' = intakeLots /\ redemptionSettlements' = redemptionSettlements
        BY <1>o, <2>6
      <3>2. Filled(redemptionRequests', redemptionSettlements, contended')
        BY <2>2 DEF Filled
      <3> QED
        BY <2>1, <2>3, <3>1, <3>2
    <2> QED
      BY <2>4, <2>5, <2>6
  <1>10. ~ replayed => Answered(db[2][6], db[2][6], db[2][7])
    BY DEF LotInv
  <1> QED
    BY <1>1, <1>4, <1>7, <1>8, <1>9, <1>10 DEF LotInv

\* Every step keeps the lots accounted.
LEMMA StepLots ==
    ASSUME NodeTypes, DirtyInv, FreshInv, BalanceInv, LotInv, [WireNext]_wireVars
    PROVE  LotInv'
  <1>u. ASSUME UNCHANGED <<intakeLots, redemptionRequests, redemptionSettlements, db, height,
                           claimed, contended, replayed>>
        PROVE  LotInv'
    BY <1>u DEF LotInv
  <1>1. ASSUME NEW t \in Traffic[profile], CheckTx(t) PROVE LotInv'
    BY <1>1, <1>u DEF CheckTx, custodyVars
  <1>2. CASE DecideBlock
    BY <1>2, <1>u DEF DecideBlock, custodyVars
  <1>3. CASE DeliverTx
    BY <1>3, DeliverLots
  <1>4. CASE EndBlock
    <2>1. db' = Persisted
      BY <1>4, EndBlockSaves
    <2>2. /\ UNCHANGED <<intakeLots, redemptionRequests, redemptionSettlements, contended,
                         replayed>>
          /\ height' = height \/ height' = height + 1
      BY <1>4 DEF EndBlock, Commit, custodyVars
    <2>3. /\ db'[2][5] = intakeLots /\ db'[2][6] = redemptionRequests
          /\ db'[2][7] = redemptionSettlements
      BY <2>1 DEF Persisted, CustodyPersisted
    <2>4. LotMaps(intakeLots, redemptionSettlements) /\ height' \in Int
      BY <2>2 DEF LotInv
    <2>5. ASSUME ~ replayed
          PROVE  Answered(redemptionRequests, redemptionRequests, redemptionSettlements)
      <3>1. /\ Answered(db[2][6], redemptionRequests, redemptionSettlements)
            /\ \A s \in Settlements : redemptionSettlements[s] # None =>
                  redemptionSettlements[s].request \in Requests
        BY <2>5 DEF LotInv, LotMaps, SettlementRecords
      <3>2. \A r \in Requests : db[2][6][r] # None => redemptionRequests[r] # None
        BY DEF NodeTypes, DbGrows, Grows
      <3> QED
        BY <3>1, <3>2 DEF Answered
    <2>6. Since(intakeLots, redemptionSettlements, intakeLots, redemptionSettlements, claimed')
      BY DEF Since
    <2>7. Calm(contended, replayed) =>
             /\ Booked(intakeLots, redemptionSettlements)
             /\ Filled(redemptionRequests, redemptionSettlements, contended)
      BY DEF LotInv
    <2> QED
      BY <2>2, <2>3, <2>4, <2>5, <2>6, <2>7 DEF LotInv
  <1>5. CASE Restart
    <2>1. /\ intakeLots' = db[2][5] /\ redemptionRequests' = db[2][6]
          /\ redemptionSettlements' = db[2][7]
          /\ UNCHANGED <<db, height, contended>> /\ (replayed => replayed')
      BY <1>5 DEF Restart, CustodyLoaded
    <2>2. /\ LotMaps(db[2][5], db[2][7]) /\ height \in Int
          /\ ~ replayed => Answered(db[2][6], db[2][6], db[2][7])
          /\ Calm(contended, replayed) => /\ Booked(db[2][5], db[2][7])
                                          /\ Filled(db[2][6], db[2][7], contended)
      BY DEF LotInv
    <2>3. Since(db[2][5], db[2][7], db[2][5], db[2][7], claimed')
      BY DEF Since
    <2>4. Calm(contended, replayed') => Calm(contended, replayed)
      BY <2>1 DEF Calm
    <2> QED
      BY <2>1, <2>2, <2>3, <2>4 DEF LotInv
  <1>6. CASE UNCHANGED wireVars
    BY <1>6, <1>u DEF wireVars, history, custodyVars
  <1> QED
    BY <1>1, <1>2, <1>3, <1>4, <1>5, <1>6 DEF WireNext

\* There are no lots and no settlements at the start.
LEMMA InitLots ==
    ASSUME WireInit
    PROVE  LotInv
  <1>1. db = Persisted /\ height = 0 /\ CustodyInit
    BY DEF WireInit
  <1>2. db[2][5] = intakeLots /\ db[2][7] = redemptionSettlements
        /\ db[2][6] = redemptionRequests
    BY <1>1 DEF Persisted, CustodyPersisted
  <1>3. intakeLots = [l \in Lots |-> None] /\ redemptionSettlements = [s \in Settlements |-> None]
    BY <1>1 DEF CustodyInit
  <1>4. LotMaps(intakeLots, redemptionSettlements)
    BY <1>3 DEF LotMaps
  <1>5. /\ Answered(redemptionRequests, redemptionRequests, redemptionSettlements)
        /\ Since(intakeLots, redemptionSettlements, intakeLots, redemptionSettlements, claimed)
        /\ Filled(redemptionRequests, redemptionSettlements, contended)
    BY <1>3 DEF Answered, Since, Filled
  <1>6. Booked(intakeLots, redemptionSettlements)
    BY <1>3 DEF Booked, Taken
  <1> QED
    BY <1>1, <1>2, <1>4, <1>5, <1>6 DEF LotInv

\* The invariant about lots.
LEMMA LotInvariant == WireSpec => [](NodeTypes /\ DirtyInv /\ FreshInv /\ LotInv)
  <1>1. WireInit => LotInv
    BY InitLots
  <1>2. NodeTypes /\ DirtyInv /\ FreshInv /\ BalanceInv /\ LotInv /\ [WireNext]_wireVars
        => LotInv'
    BY StepLots
  <1> QED
    BY <1>1, <1>2, FreshInvariant, BalanceInvariant, PTL DEF WireSpec

\* No goods appear or get lost: FinalizeBlock allocates without looking whether
\* the pool has enough, yet a lot never goes below zero, it loses what the
\* settlements say they were given from it, and a settlement gets all it says
\* unless another one of its block drew on the pool.
THEOREM LotsAreAccounted == WireSpec => []LotAccounting
  <1>1. ASSUME LotInv PROVE LotAccounting
    <2> DEFINE settled == {s \in Settlements : redemptionSettlements[s] # None}
               given(l) == Total([s \in settled |-> redemptionSettlements[s].allocated[l]])
    <2>1. LotMaps(intakeLots, redemptionSettlements)
      BY <1>1 DEF LotInv
    <2>2. ASSUME NEW l \in Lots PROVE given(l) = Total(Taken(redemptionSettlements, l))
      <3> DEFINE f == Taken(redemptionSettlements, l)
      <3>1. /\ f \in [Settlements -> Nat] /\ IsFiniteSet(Settlements)
            /\ settled \in SUBSET Settlements
        BY <2>1, TakenFacts, CustodyConstants
      <3>2. \A x \in Settlements \ settled : f[x] = 0
        BY DEF Taken
      <3>3. Part(f, settled) = [s \in settled |-> redemptionSettlements[s].allocated[l]]
        BY DEF Part, Taken
      <3> HIDE DEF f, settled
      <3>4. Total(f) = Total(Part(f, settled))
        BY <3>1, <3>2, TotalPart
      <3> QED
        BY <3>3, <3>4 DEF f
    <2>3. \A l \in Lots : intakeLots[l] # None =>
             intakeLots[l].remaining \in 0..intakeLots[l].quantity
      BY <2>1 DEF LotMaps
    <2>4. ASSUME Calm(contended, replayed)
          PROVE  /\ \A l \in Lots : intakeLots[l] # None =>
                       intakeLots[l].quantity = intakeLots[l].remaining + given(l)
                 /\ \A s \in settled :
                       \/ Total(redemptionSettlements[s].allocated)
                          = redemptionSettlements[s].quantity
                       \/ \E r \in Requests : r = redemptionSettlements[s].request
                             /\ <<"pool", redemptionRequests[r].pool>> \in contended
      <3>1. /\ Booked(intakeLots, redemptionSettlements)
            /\ Filled(redemptionRequests, redemptionSettlements, contended)
        BY <1>1, <2>4 DEF LotInv
      <3>2. \A s \in settled : redemptionSettlements[s].request \in Requests
        BY <2>1 DEF LotMaps, SettlementRecords
      <3>3. \A l \in Lots : intakeLots[l] # None =>
                       intakeLots[l].quantity = intakeLots[l].remaining + given(l)
        <4> HIDE DEF given
        <4> QED
          BY <2>2, <3>1 DEF Booked
      <3>4. \A s \in settled :
               \/ Total(redemptionSettlements[s].allocated) = redemptionSettlements[s].quantity
               \/ \E r \in Requests : r = redemptionSettlements[s].request
                             /\ <<"pool", redemptionRequests[r].pool>> \in contended
        BY <3>1, <3>2 DEF Filled
      <3> QED
        BY <3>3, <3>4
    <2> QED
      BY <2>3, <2>4 DEF LotAccounting, Calm, SettledApart
  <1> QED
    BY <1>1, LotInvariant, PTL

-----------------------------------------------------------------------------
(* Settlements                                                              *)

Settles(t) == t.type = "SettleCustodyRedemption"
Asks(t) == t.type = "RequestCustodyRedemption"
SettledFor(se, r) == {s \in Settlements : se[s] # None /\ se[s].request = r}
Open(r, cn) == <<"request", r>> \notin cn

\* A transaction yet to be executed settles request r.
ToCome(st, nx, ti, r) ==
    \E i \in nx..Len(st) : \E j \in 1..Len(st[i]) :
        Settles(st[i][j]) /\ st[i][j].request = r /\ (i = nx => j >= ti)

\* A settled request has a settlement, and only one unless it was contended; the
\* request of a settlement is settled, or will be when the blocks executed again
\* after a restart have come to its settlement.
Matched(rq, se, st, nx, ti, cn) ==
    \A r \in Requests :
        /\ Open(r, cn) => \A s, s2 \in SettledFor(se, r) : s = s2
        /\ rq[r] # None /\ rq[r].status = "settled" => SettledFor(se, r) # {}
        /\ SettledFor(se, r) # {} =>
              rq[r] # None /\ (rq[r].status = "settled" \/ ToCome(st, nx, ti, r))

\* Transaction j of block i, if it is a settlement: in the database its ID is
\* free or its own, in memory too unless another transaction of the current
\* block took it; what the current block has executed is claimed, and blocks
\* before it are in the database.
SlotAt(i, j, t, dbse, se, nx, ti, cl) ==
    Settles(t) =>
        /\ dbse[t.settlement] = None \/ dbse[t.settlement].request = t.request
        /\ \/ se[t.settlement] = None
           \/ se[t.settlement].request = t.request
           \/ i = nx /\ j >= ti /\ <<"settlement", t.settlement>> \in cl
        /\ i = nx /\ j < ti => /\ <<"settlement", t.settlement>> \in cl
                               /\ <<"request", t.request>> \in cl
                               /\ se[t.settlement] # None
        /\ i < nx => dbse[t.settlement] # None

\* The same for its request, which no other settlement has.
OnceAt(i, j, t, dbse, se, nx, ti, cl, cn) ==
    Settles(t) /\ Open(t.request, cn) =>
        /\ SettledFor(dbse, t.request) \subseteq {t.settlement}
        /\ \/ SettledFor(se, t.request) \subseteq {t.settlement}
           \/ i = nx /\ j >= ti /\ <<"request", t.request>> \in cl

\* A request that blocks executed again make pending is settled again by a
\* later block.
AskAt(i, t, se, st) ==
    Asks(t) /\ SettledFor(se, t.request) # {} =>
        \E k \in (i + 1)..Len(st) : \E j \in 1..Len(st[k]) :
            Settles(st[k][j]) /\ st[k][j].request = t.request

\* A request comes in an earlier block than its settlement, and two blocks
\* share no settlement and no request to settle.
Ordered(st, cn) ==
    \A i, k \in 1..Len(st) : \A j \in 1..Len(st[i]), l \in 1..Len(st[k]) :
        /\ Asks(st[i][j]) /\ Settles(st[k][l]) /\ st[i][j].request = st[k][l].request => i < k
        /\ i # k /\ Settles(st[i][j]) /\ Settles(st[k][l]) =>
              /\ st[i][j].settlement # st[k][l].settlement
              /\ Open(st[i][j].request, cn) => st[i][j].request # st[k][l].request

SettleInv ==
    /\ mempool # {} => next >= Len(stored)
    /\ \A s \in Settlements : db[2][7][s] # None => redemptionSettlements[s] # None
    /\ SettledApart(contended) =>
          /\ Matched(redemptionRequests, redemptionSettlements, stored, next, txi, contended)
          /\ Matched(db[2][6], db[2][7], stored, 1, 1, contended)
          /\ \A t \in mempool : Settles(t) /\ Open(t.request, contended) =>
                SettledFor(db[2][7], t.request) = {}
          /\ \A i \in 1..Len(stored) : \A j \in 1..Len(stored[i]) :
                /\ SlotAt(i, j, stored[i][j], db[2][7], redemptionSettlements, next, txi, claimed)
                /\ OnceAt(i, j, stored[i][j], db[2][7], redemptionSettlements, next, txi, claimed,
                          contended)
                /\ AskAt(i, stored[i][j], db[2][7], stored)
                /\ AskAt(i, stored[i][j], redemptionSettlements, stored)
          /\ Ordered(stored, contended)

\* Executing another transaction leaves a settlement to come.
LEMMA ToComeSkip ==
    ASSUME NEW st, NEW nx \in Nat, NEW ti \in Nat, NEW r, ToCome(st, nx, ti, r),
           ~ (Settles(st[nx][ti]) /\ st[nx][ti].request = r)
    PROVE  ToCome(st, nx, ti + 1, r)
  <1>1. PICK i \in nx..Len(st) : \E j \in 1..Len(st[i]) :
           Settles(st[i][j]) /\ st[i][j].request = r /\ (i = nx => j >= ti)
    BY DEF ToCome
  <1>2. PICK j \in 1..Len(st[i]) :
           Settles(st[i][j]) /\ st[i][j].request = r /\ (i = nx => j >= ti)
    BY <1>1
  <1>3. i = nx => j >= ti + 1
    <2> SUFFICES ASSUME i = nx PROVE j >= ti + 1
      OBVIOUS
    <2>1. j # ti /\ j >= ti
      BY <1>2
    <2> QED
      BY <2>1
  <1> QED
    BY <1>2, <1>3 DEF ToCome

\* What is to come is to come whatever has been executed, and if more is decided.
LEMMA ToComeMore ==
    ASSUME NEW st, NEW nx \in Nat, NEW nx2 \in Nat, nx2 <= nx, NEW st2,
           Len(st) \in Nat, Len(st2) \in Nat, Len(st) <= Len(st2),
           \A i \in 1..Len(st) : st2[i] = st[i], nx2 >= 1,
           NEW r, ToCome(st, nx, 1, r)
    PROVE  ToCome(st2, nx2, 1, r)
  <1>1. PICK i \in nx..Len(st) : \E j \in 1..Len(st[i]) :
           Settles(st[i][j]) /\ st[i][j].request = r /\ (i = nx => j >= 1)
    BY DEF ToCome
  <1>2. PICK j \in 1..Len(st[i]) :
           Settles(st[i][j]) /\ st[i][j].request = r
    BY <1>1
  <1>3. i \in nx2..Len(st2) /\ st2[i] = st[i] /\ j >= 1
    BY <1>1
  <1> QED
    BY <1>2, <1>3 DEF ToCome

\* Executing a transaction: a settlement, a request that may become pending
\* again, or another.
LEMMA DeliverSettle ==
    ASSUME NodeTypes, LotInv, SettleInv, DeliverTx
    PROVE  SettleInv'
  <1> DEFINE t == stored[next][txi]
             cn == contended
             cn2 == contended'
             se == redemptionSettlements
             se2 == redemptionSettlements'
  <1>1. /\ UNCHANGED <<db, mempool, stored, next, height>> /\ ExecuteTx(t) /\ txi' = txi + 1
        /\ claimed' = claimed \cup Claims(t)
        /\ contended' = contended \cup (claimed \cap Claims(t))
    BY DEF DeliverTx, Note
  <1>2. t \in Txs /\ MemGrounded(t) /\ next \in 1..Len(stored) /\ txi \in 1..Len(stored[next])
        /\ MemLedger /\ MemCustody /\ txi \in Nat /\ next \in Nat
    <2>1. t \in Txs /\ MemGrounded(t) /\ next \in 1..Len(stored) /\ txi \in 1..Len(stored[next])
      BY DeliverEffects
    <2>2. MemLedger /\ MemCustody /\ txi \in Nat /\ Len(stored) \in Nat
      BY DEF NodeTypes
    <2> HIDE DEF t
    <2> QED
      BY <2>1, <2>2
  <1>3. \A i \in 1..Len(stored) : \A j \in 1..Len(stored[i]) :
           /\ i \in Nat /\ j \in Nat
           /\ i = next /\ j = txi => stored[i][j] = t
    OBVIOUS
  <1>l. LotMaps(intakeLots, redemptionSettlements) /\ height \in Int
    BY DEF LotInv
  <1>4. /\ Settles(t) => /\ t.settlement \in Settlements /\ t.request \in Requests
                         /\ redemptionRequests[t.request] # None
                         /\ se2[t.settlement] # None /\ se2[t.settlement].request = t.request
                         /\ \A s \in Settlements \ {t.settlement} : se2[s] = se[s]
        /\ ~ Settles(t) => se2 = se
    BY <1>1, <1>2, <1>l, LotRows DEF Settles
  <1>5. /\ Settles(t) => redemptionRequests'[t.request].status = "settled"
        /\ Asks(t) => t.request \in Requests /\ redemptionRequests'[t.request] # None
                      /\ redemptionRequests'[t.request].status = "pending"
        /\ \A r \in Requests : ~ (Settles(t) /\ t.request = r) /\ ~ (Asks(t) /\ t.request = r) =>
              redemptionRequests'[r] = redemptionRequests[r]
        /\ \A r \in Requests : redemptionRequests[r] # None => redemptionRequests'[r] # None
    <2>1. Asks(t) => t.request \in Requests
      BY <1>2, TxFields DEF Asks
    <2>2. MemGrows
      BY DeliverEffects
    <2>3. \A r \in Requests : redemptionRequests[r] # None => redemptionRequests'[r] # None
      BY <2>2 DEF MemGrows, Grows
    <2>4. \A r \in Requests :
             /\ Asks(t) /\ t.request = r =>
                  redemptionRequests'[r] # None /\ redemptionRequests'[r].status = "pending"
             /\ Settles(t) /\ t.request = r => redemptionRequests'[r].status = "settled"
             /\ ~ (Settles(t) /\ t.request = r) /\ ~ (Asks(t) /\ t.request = r) =>
                  redemptionRequests'[r] = redemptionRequests[r]
      BY <1>1, <1>2, RequestRows DEF Asks, Settles
    <2> HIDE DEF t
    <2> QED
      BY <1>4, <2>1, <2>3, <2>4
  <1>6. Settles(t) => <<"request", t.request>> \in Claims(t)
                      /\ <<"settlement", t.settlement>> \in Claims(t)
    BY <1>2, CustodyClaims DEF Settles
  <1>7. \A s \in Settlements : db[2][7][s] # None => se2[s] # None
    <2> HIDE DEF t
    <2> QED
      BY <1>4 DEF SettleInv
  <1>8. mempool' # {} => next' >= Len(stored')
    BY <1>1 DEF SettleInv
  <1> SUFFICES ASSUME SettledApart(contended') PROVE SettleInv'
    BY <1>1, <1>7, <1>8 DEF SettleInv
  <1>9. SettledApart(cn) /\ \A r : Open(r, cn2) => Open(r, cn)
    BY <1>1 DEF SettledApart, Open
  <1>h. /\ Matched(redemptionRequests, se, stored, next, txi, cn)
        /\ Matched(db[2][6], db[2][7], stored, 1, 1, cn)
        /\ \A x \in mempool : Settles(x) /\ Open(x.request, cn) =>
              SettledFor(db[2][7], x.request) = {}
        /\ \A i \in 1..Len(stored) : \A j \in 1..Len(stored[i]) :
              /\ SlotAt(i, j, stored[i][j], db[2][7], se, next, txi, claimed)
              /\ OnceAt(i, j, stored[i][j], db[2][7], se, next, txi, claimed, cn)
              /\ AskAt(i, stored[i][j], db[2][7], stored)
              /\ AskAt(i, stored[i][j], se, stored)
        /\ Ordered(stored, cn)
    BY <1>9 DEF SettleInv
  <1>10. /\ SlotAt(next, txi, t, db[2][7], se, next, txi, claimed)
         /\ OnceAt(next, txi, t, db[2][7], se, next, txi, claimed, cn)
         /\ AskAt(next, t, se, stored)
    BY <1>2, <1>h
  <1>11. ASSUME Settles(t)
         PROVE  /\ <<"settlement", t.settlement>> \notin claimed
                /\ Open(t.request, cn2) => <<"request", t.request>> \notin claimed
                /\ se[t.settlement] = None \/ se[t.settlement].request = t.request
                /\ SettledFor(se2, t.request) = SettledFor(se, t.request) \cup {t.settlement}
                /\ \A q : q # t.request => SettledFor(se2, q) = SettledFor(se, q)
                /\ Open(t.request, cn2) => SettledFor(se2, t.request) = {t.settlement}
    <2>1. <<"settlement", t.settlement>> \notin claimed
      BY <1>1, <1>4, <1>6, <1>11 DEF SettledApart
    <2>2. Open(t.request, cn2) => <<"request", t.request>> \notin claimed
      BY <1>1, <1>6, <1>11 DEF Open
    <2>3. se[t.settlement] = None \/ se[t.settlement].request = t.request
      BY <1>10, <1>11, <2>1 DEF SlotAt
    <2>4. /\ SettledFor(se2, t.request) = SettledFor(se, t.request) \cup {t.settlement}
          /\ \A q : q # t.request => SettledFor(se2, q) = SettledFor(se, q)
      <3> DEFINE sid == t.settlement
                 rid == t.request
      <3>1. /\ sid \in Settlements
            /\ se[sid] = None \/ se[sid].request = rid
            /\ se2[sid] # None /\ se2[sid].request = rid
            /\ \A x \in Settlements \ {sid} : se2[x] = se[x]
        BY <1>4, <1>11, <2>3
      <3> HIDE DEF sid, rid, se, se2
      <3>2. /\ SettledFor(se2, rid) = SettledFor(se, rid) \cup {sid}
            /\ \A q : q # rid => SettledFor(se2, q) = SettledFor(se, q)
        BY <3>1 DEF SettledFor
      <3> QED
        BY <3>2 DEF sid, rid
    <2>5. Open(t.request, cn2) => SettledFor(se, t.request) \subseteq {t.settlement}
      BY <1>9, <1>10, <1>11, <2>2 DEF OnceAt
    <2> QED
      BY <2>1, <2>2, <2>3, <2>4, <2>5
  <1>12. ~ Settles(t) => \A q : SettledFor(se2, q) = SettledFor(se, q)
    BY <1>4
  <1>13. \A r : ToCome(stored, next, txi, r) /\ ~ (Settles(t) /\ t.request = r) =>
            ToCome(stored, next, txi + 1, r)
    BY <1>2, ToComeSkip
  <1>14. ASSUME Asks(t), SettledFor(se, t.request) # {}
         PROVE  ToCome(stored, next, txi + 1, t.request)
    <2>1. PICK k \in (next + 1)..Len(stored) : \E j \in 1..Len(stored[k]) :
             Settles(stored[k][j]) /\ stored[k][j].request = t.request
      BY <1>10, <1>14 DEF AskAt
    <2>2. k \in next..Len(stored) /\ k # next
      BY <1>2, <2>1
    <2> QED
      BY <2>1, <2>2 DEF ToCome
  <1>15. Asks(t) => ~ Settles(t)
    BY DEF Asks, Settles
  <1>w. next \in 1..Len(stored) /\ txi \in 1..Len(stored[next]) /\ stored[next][txi] = t
    BY <1>2
  <1> HIDE DEF t, se, se2, cn, cn2
  <1>16. Matched(redemptionRequests', se2, stored, next, txi + 1, cn2)
    <2> SUFFICES ASSUME NEW r \in Requests
                 PROVE  /\ Open(r, cn2) => \A s, s2 \in SettledFor(se2, r) : s = s2
                        /\ redemptionRequests'[r] # None /\ redemptionRequests'[r].status = "settled"
                           => SettledFor(se2, r) # {}
                        /\ SettledFor(se2, r) # {} =>
                              /\ redemptionRequests'[r] # None
                              /\ \/ redemptionRequests'[r].status = "settled"
                                 \/ ToCome(stored, next, txi + 1, r)
      BY DEF Matched
    <2>0. /\ Open(r, cn) => \A s, s2 \in SettledFor(se, r) : s = s2
          /\ redemptionRequests[r] # None /\ redemptionRequests[r].status = "settled"
             => SettledFor(se, r) # {}
          /\ SettledFor(se, r) # {} =>
                /\ redemptionRequests[r] # None
                /\ redemptionRequests[r].status = "settled" \/ ToCome(stored, next, txi, r)
      BY <1>h DEF Matched
    <2>1. CASE Settles(t) /\ t.request = r
      BY <1>4, <1>5, <1>11, <2>1
    <2>2. CASE Asks(t) /\ t.request = r
      BY <1>5, <1>9, <1>12, <1>14, <1>15, <2>0, <2>2
    <2>3. CASE ~ (Settles(t) /\ t.request = r) /\ ~ (Asks(t) /\ t.request = r)
      <3>1. SettledFor(se2, r) = SettledFor(se, r) /\ redemptionRequests'[r] = redemptionRequests[r]
        BY <1>5, <1>11, <1>12, <2>3
      <3>2. ToCome(stored, next, txi, r) => ToCome(stored, next, txi + 1, r)
        BY <1>13, <2>3
      <3> QED
        BY <1>9, <2>0, <3>1, <3>2
    <2> QED
      BY <2>1, <2>2, <2>3
  <1>17. Matched(db[2][6], db[2][7], stored, 1, 1, cn2)
    BY <1>9, <1>h DEF Matched
  <1>18. ASSUME NEW i \in 1..Len(stored), NEW j \in 1..Len(stored[i])
         PROVE  /\ SlotAt(i, j, stored[i][j], db[2][7], se2, next, txi + 1, claimed')
                /\ OnceAt(i, j, stored[i][j], db[2][7], se2, next, txi + 1, claimed', cn2)
                /\ AskAt(i, stored[i][j], se2, stored)
    <2> DEFINE u == stored[i][j]
    <2>1. /\ SlotAt(i, j, u, db[2][7], se, next, txi, claimed)
          /\ OnceAt(i, j, u, db[2][7], se, next, txi, claimed, cn)
          /\ AskAt(i, u, se, stored)
      BY <1>h
    <2>2. i = next /\ j = txi => u = t
      BY <1>3
    <2>3. i # next /\ Settles(u) /\ Settles(t) =>
             /\ u.settlement # t.settlement
             /\ Open(u.request, cn) => u.request # t.request
      BY <1>h, <1>w DEF Ordered
    <2>4. Asks(u) /\ Settles(t) /\ u.request = t.request =>
             \E k \in (i + 1)..Len(stored) : \E l \in 1..Len(stored[k]) :
                 Settles(stored[k][l]) /\ stored[k][l].request = u.request
      <3> SUFFICES ASSUME Asks(u), Settles(t), u.request = t.request
                   PROVE  \E k \in (i + 1)..Len(stored) : \E l \in 1..Len(stored[k]) :
                             Settles(stored[k][l]) /\ stored[k][l].request = u.request
        OBVIOUS
      <3>1. i < next
        BY <1>h, <1>w DEF Ordered
      <3>2. next \in (i + 1)..Len(stored)
        BY <1>2, <1>3, <3>1
      <3> QED
        BY <1>w, <3>2
    <2>5. Settles(u) => u.settlement \in Settlements /\ u.request \in Requests
      <3>1. u \in Txs
        BY DEF NodeTypes
      <3> QED
        BY <3>1, TxFields DEF Settles
    <2>6. /\ i = next /\ j >= txi => j = txi \/ j >= txi + 1
          /\ i = next /\ j < txi + 1 => j = txi \/ j < txi
          /\ i = next => j >= txi \/ j < txi
          /\ ~ (txi >= txi + 1) /\ txi < txi + 1
          /\ j >= txi + 1 => ~ (j < txi + 1)
      BY <1>2, <1>3
    <2> SUFFICES /\ SlotAt(i, j, u, db[2][7], se2, next, txi + 1, claimed')
                 /\ OnceAt(i, j, u, db[2][7], se2, next, txi + 1, claimed', cn2)
                 /\ AskAt(i, u, se2, stored)
      OBVIOUS
    <2> HIDE DEF u
    <2>7. AskAt(i, u, se2, stored)
      <3>1. CASE Settles(t) /\ u.request = t.request
        BY <2>4, <3>1 DEF AskAt
      <3>2. CASE ~ (Settles(t) /\ u.request = t.request)
        <4>1. SettledFor(se2, u.request) = SettledFor(se, u.request)
          BY <1>11, <1>12, <3>2
        <4> QED
          BY <2>1, <4>1 DEF AskAt
      <3> QED
        BY <3>1, <3>2
    <2>8. claimed \subseteq claimed'
      BY <1>1
    <2>9. SlotAt(i, j, u, db[2][7], se2, next, txi + 1, claimed')
      <3> SUFFICES ASSUME Settles(u)
                   PROVE  SlotAt(i, j, u, db[2][7], se2, next, txi + 1, claimed')
        BY DEF SlotAt
      <3>g. ASSUME /\ \/ se2[u.settlement] = None
                      \/ se2[u.settlement].request = u.request
                      \/ i = next /\ j >= txi + 1 /\ <<"settlement", u.settlement>> \in claimed',
                   i = next /\ j < txi + 1 => /\ <<"settlement", u.settlement>> \in claimed'
                                              /\ <<"request", u.request>> \in claimed'
                                              /\ se2[u.settlement] # None
            PROVE  SlotAt(i, j, u, db[2][7], se2, next, txi + 1, claimed')
        BY <2>1, <3>g DEF SlotAt
      <3>h. /\ \/ se[u.settlement] = None
               \/ se[u.settlement].request = u.request
               \/ i = next /\ j >= txi /\ <<"settlement", u.settlement>> \in claimed
            /\ i = next /\ j < txi => /\ <<"settlement", u.settlement>> \in claimed
                                      /\ <<"request", u.request>> \in claimed
                                      /\ se[u.settlement] # None
        BY <2>1 DEF SlotAt
      <3>1. CASE i = next /\ j = txi
        <4>1. u = t /\ se2[u.settlement].request = u.request /\ se2[u.settlement] # None
              /\ <<"settlement", u.settlement>> \in claimed'
              /\ <<"request", u.request>> \in claimed'
          BY <1>1, <1>4, <1>6, <2>2, <3>1
        <4> QED
          BY <3>g, <4>1
      <3>2. CASE ~ (i = next /\ j = txi) /\ Settles(t) /\ u.settlement = t.settlement
        <4>1. ~ (i = next /\ j < txi)
          BY <1>11, <3>h, <3>2
        <4>2. i = next /\ j >= txi + 1 /\ ~ (j < txi + 1)
          BY <2>3, <2>6, <3>2, <4>1
        <4>3. <<"settlement", u.settlement>> \in claimed'
          BY <1>1, <1>6, <3>2
        <4> QED
          BY <3>g, <4>2, <4>3
      <3>3. CASE ~ (i = next /\ j = txi) /\ ~ (Settles(t) /\ u.settlement = t.settlement)
        <4>1. se2[u.settlement] = se[u.settlement]
          BY <1>4, <2>5, <3>3
        <4> QED
          BY <2>6, <2>8, <3>g, <3>h, <3>3, <4>1
      <3> QED
        BY <3>1, <3>2, <3>3
    <2>10. OnceAt(i, j, u, db[2][7], se2, next, txi + 1, claimed', cn2)
      <3> SUFFICES ASSUME Settles(u), Open(u.request, cn2)
                   PROVE  /\ SettledFor(db[2][7], u.request) \subseteq {u.settlement}
                          /\ \/ SettledFor(se2, u.request) \subseteq {u.settlement}
                             \/ /\ i = next /\ j >= txi + 1
                                /\ <<"request", u.request>> \in claimed'
        BY DEF OnceAt
      <3>0. Open(u.request, cn)
        BY <1>9
      <3>h. /\ SettledFor(db[2][7], u.request) \subseteq {u.settlement}
            /\ \/ SettledFor(se, u.request) \subseteq {u.settlement}
               \/ i = next /\ j >= txi /\ <<"request", u.request>> \in claimed
            /\ i = next /\ j < txi => <<"request", u.request>> \in claimed
        BY <2>1, <3>0 DEF OnceAt, SlotAt
      <3>1. CASE i = next /\ j = txi
        BY <1>11, <2>2, <3>h, <3>1
      <3>2. CASE ~ (i = next /\ j = txi) /\ Settles(t) /\ u.request = t.request
        <4>1. ~ (i = next /\ j < txi)
          BY <1>11, <3>h, <3>2
        <4>2. i = next /\ j >= txi + 1
          BY <2>3, <2>6, <3>0, <3>2, <4>1
        <4>3. <<"request", u.request>> \in claimed'
          BY <1>1, <1>6, <3>2
        <4> QED
          BY <3>h, <4>2, <4>3
      <3>3. CASE ~ (i = next /\ j = txi) /\ ~ (Settles(t) /\ u.request = t.request)
        <4>1. SettledFor(se2, u.request) = SettledFor(se, u.request)
          BY <1>11, <1>12, <3>3
        <4> QED
          BY <2>6, <2>8, <3>h, <3>3, <4>1
      <3> QED
        BY <3>1, <3>2, <3>3
    <2> QED
      BY <2>7, <2>9, <2>10
  <1>19. Ordered(stored, cn2)
    BY <1>9, <1>h DEF Ordered
  <1>20. \A x \in mempool : Settles(x) /\ Open(x.request, cn2) =>
            SettledFor(db[2][7], x.request) = {}
    BY <1>9, <1>h
  <1>21. \A i \in 1..Len(stored) : \A j \in 1..Len(stored[i]) :
            AskAt(i, stored[i][j], db[2][7], stored)
    BY <1>h
  <1> QED
    BY <1>1, <1>7, <1>8, <1>16, <1>17, <1>18, <1>19, <1>20, <1>21 DEF SettleInv, se2, cn2

\* A settlement or request that passes validation, or was checked since the last
\* commit.
LEMMA ValidSettles ==
    ASSUME MemLedger, MemCustody, NEW t \in Txs, ValidateTx(t), Settles(t)
    PROVE  /\ t.request \in Requests /\ redemptionRequests[t.request] # None
           /\ redemptionRequests[t.request].status # "settled"
  <1>1. MemChecked(t) /\ MemGrounded(t)
    BY ValidChecked, ValidGrounded
  <1>2. t.request \in Requests
    BY TxFields DEF Settles
  <1>3. redemptionRequests[t.request] # None
    BY <1>1 DEF MemGrounded, Grounded, Settles
  <1>4. redemptionRequests[t.request].status = "pending"
    BY <1>1 DEF MemChecked, Checked, Settles
  <1> QED
    BY <1>2, <1>3, <1>4

\* The end of a block: the next blocks, whose indices may have moved.
LEMMA EndSettle ==
    ASSUME NodeTypes, DirtyInv, SettleInv, EndBlock
    PROVE  SettleInv'
  <1> DEFINE cn == contended
             se == redemptionSettlements
             rq == redemptionRequests
  <1>t. /\ Len(stored) \in Nat /\ stored \in Seq(Seq(Txs)) /\ txi \in Nat
        /\ next \in Nat /\ next >= 1 /\ MemLedger /\ MemCustody
    BY DEF NodeTypes
  <1>m. mempool \subseteq Txs
    BY TrafficTxs
  <1>1. PICK d \in {0, 1} :
           /\ Len(stored') = Len(stored) - d /\ next' = next + 1 - d
           /\ \A i \in 1..Len(stored') : i + d \in 1..Len(stored) /\ stored'[i] = stored[i + d]
    <2>1. \/ /\ next' = next /\ Len(stored') = Len(stored) - 1
             /\ \A i \in 1..Len(stored') : stored'[i] = stored[i + 1]
          \/ next' = next + 1 /\ stored' = stored
      BY EndBlockSaves
    <2>2. CASE /\ next' = next /\ Len(stored') = Len(stored) - 1
               /\ \A i \in 1..Len(stored') : stored'[i] = stored[i + 1]
      <3>1. \A i \in 1..Len(stored') : i + 1 \in 1..Len(stored) /\ stored'[i] = stored[i + 1]
        BY <1>t, <2>2
      <3>2. Len(stored') = Len(stored) - 1 /\ next' = next + 1 - 1
        BY <1>t, <2>2
      <3> QED
        BY <3>1, <3>2
    <2>3. CASE next' = next + 1 /\ stored' = stored
      <3>1. \A i \in 1..Len(stored') : i + 0 \in 1..Len(stored) /\ stored'[i] = stored[i + 0]
        BY <1>t, <2>3
      <3>2. Len(stored') = Len(stored) - 0 /\ next' = next + 1 - 0
        BY <1>t, <2>3
      <3> QED
        BY <3>1, <3>2
    <2> QED
      BY <2>1, <2>2, <2>3
  <1>2. /\ db' = Persisted /\ next \in 1..Len(stored)
    BY EndBlockSaves
  <1>3. /\ UNCHANGED <<contended, redemptionRequests, redemptionSettlements>>
        /\ claimed' = {} /\ txi' = 1 /\ mempool' = {t \in mempool : ValidateTx(t)}
        /\ txi > Len(stored[next])
    BY DEF EndBlock, custodyVars
  <1>4. db'[2][6] = rq /\ db'[2][7] = se
    BY <1>2 DEF Persisted, CustodyPersisted
  <1>5. mempool' # {} => next' >= Len(stored')
    <2>1. mempool' # {} => next >= Len(stored)
      BY <1>3 DEF SettleInv
    <2> QED
      BY <1>t, <1>1, <2>1
  <1>6. \A s \in Settlements : db'[2][7][s] # None => redemptionSettlements'[s] # None
    BY <1>3, <1>4
  <1> SUFFICES ASSUME SettledApart(contended) PROVE SettleInv'
    BY <1>3, <1>5, <1>6 DEF SettleInv
  <1>h. /\ Matched(rq, se, stored, next, txi, cn)
        /\ \A i \in 1..Len(stored) : \A j \in 1..Len(stored[i]) :
              /\ SlotAt(i, j, stored[i][j], db[2][7], se, next, txi, claimed)
              /\ OnceAt(i, j, stored[i][j], db[2][7], se, next, txi, claimed, cn)
              /\ AskAt(i, stored[i][j], se, stored)
        /\ Ordered(stored, cn)
        /\ \A s \in Settlements : db[2][7][s] # None => se[s] # None
    BY DEF SettleInv
  <1>b. \A j \in 1..Len(stored[next]) : ~ (j >= txi) /\ j < txi
    <2>1. stored[next] \in Seq(Txs)
      BY <1>t, <1>2
    <2>2. Len(stored[next]) \in Nat
      BY <2>1
    <2> QED
      BY <1>t, <1>3, <2>2
  <1>7. ASSUME NEW r, ToCome(stored, next, txi, r) PROVE ToCome(stored', next', 1, r)
    <2>1. PICK i \in next..Len(stored) : \E j \in 1..Len(stored[i]) :
             Settles(stored[i][j]) /\ stored[i][j].request = r /\ (i = next => j >= txi)
      BY <1>7 DEF ToCome
    <2>2. PICK j \in 1..Len(stored[i]) :
             Settles(stored[i][j]) /\ stored[i][j].request = r /\ (i = next => j >= txi)
      BY <2>1
    <2>3. i # next
      BY <1>b, <2>2
    <2> DEFINE k == i - d
    <2>4. k \in next'..Len(stored') /\ k \in 1..Len(stored') /\ k + d = i
      BY <1>t, <1>1, <2>1, <2>3
    <2> HIDE DEF k
    <2>5. stored'[k] = stored[i] /\ j >= 1
      BY <1>1, <2>4
    <2>6. j \in 1..Len(stored'[k]) /\ Settles(stored'[k][j]) /\ stored'[k][j].request = r
      BY <2>2, <2>5
    <2> QED
      BY <2>4, <2>5, <2>6 DEF ToCome
  <1>8. ASSUME NEW r, ToCome(stored', next', 1, r) PROVE ToCome(stored', 1, 1, r)
    <2> DEFINE st == stored'
               nx == next'
    <2>1. /\ nx \in Nat /\ 1 \in Nat /\ 1 <= nx /\ Len(st) \in Nat /\ Len(st) <= Len(st)
          /\ \A i \in 1..Len(st) : st[i] = st[i] /\ ToCome(st, nx, 1, r)
      BY <1>t, <1>1, <1>2, <1>8
    <2>2. ToCome(st, nx, 1, r)
      BY <1>8
    <2> HIDE DEF st, nx
    <2>3. ToCome(st, 1, 1, r)
      BY <2>1, <2>2, ToComeMore
    <2> QED
      BY <2>3 DEF st
  <1>9. /\ Matched(rq, se, stored', next', 1, cn)
        /\ Matched(rq, se, stored', 1, 1, cn)
    BY <1>7, <1>8, <1>h DEF Matched
  <1>10. ASSUME NEW i \in 1..Len(stored'), NEW j \in 1..Len(stored'[i])
         PROVE  /\ SlotAt(i, j, stored'[i][j], se, se, next', 1, {})
                /\ OnceAt(i, j, stored'[i][j], se, se, next', 1, {}, cn)
                /\ AskAt(i, stored'[i][j], se, stored')
    <2> DEFINE m == i + d
               u == stored[m][j]
    <2>1. /\ m \in 1..Len(stored) /\ stored'[i] = stored[m] /\ j \in 1..Len(stored[m])
      BY <1>1
    <2>2. /\ SlotAt(m, j, u, db[2][7], se, next, txi, claimed)
          /\ OnceAt(m, j, u, db[2][7], se, next, txi, claimed, cn)
          /\ AskAt(m, u, se, stored)
      BY <1>h, <2>1
    <2>3. ~ (j < 1) /\ j \in Nat
      OBVIOUS
    <2>4. /\ m = next => ~ (j >= txi) /\ j < txi
          /\ i < next' => m = next \/ m < next
      BY <1>t, <1>1, <1>b, <2>1
    <2>5. Settles(u) => u.settlement \in Settlements
      <3>1. u \in Txs
        BY <1>t, <2>1
      <3> QED
        BY <3>1, TxFields DEF Settles
    <2>6. AskAt(i, u, se, stored')
      <3> SUFFICES ASSUME Asks(u), SettledFor(se, u.request) # {}
                   PROVE  \E k \in (i + 1)..Len(stored') : \E l \in 1..Len(stored'[k]) :
                             Settles(stored'[k][l]) /\ stored'[k][l].request = u.request
        BY DEF AskAt
      <3>1. PICK k \in (m + 1)..Len(stored) : \E l \in 1..Len(stored[k]) :
               Settles(stored[k][l]) /\ stored[k][l].request = u.request
        BY <2>2 DEF AskAt
      <3> DEFINE n == k - d
      <3>a. k \in Int /\ k >= i + d + 1 /\ k <= Len(stored) /\ i \in Int /\ i >= 1 /\ d \in Int
        OBVIOUS
      <3>b. Len(stored') = Len(stored) - d /\ Len(stored) \in Int
        BY <1>t, <1>1
      <3>2. n \in (i + 1)..Len(stored') /\ n \in 1..Len(stored') /\ n + d = k
        BY <3>a, <3>b
      <3> HIDE DEF n
      <3>3. stored'[n] = stored[k]
        BY <1>1, <3>2
      <3> QED
        BY <3>1, <3>2, <3>3
    <2>7. stored'[i][j] = u
      BY <2>1
    <2> HIDE DEF u, m
    <2>8. SlotAt(i, j, u, se, se, next', 1, {})
      BY <1>h, <2>2, <2>3, <2>4, <2>5 DEF SlotAt
    <2>9. OnceAt(i, j, u, se, se, next', 1, {}, cn)
      BY <2>2, <2>4 DEF OnceAt
    <2> QED
      BY <2>6, <2>7, <2>8, <2>9
  <1>11. Ordered(stored', cn)
    <2> SUFFICES ASSUME NEW i \in 1..Len(stored'), NEW k \in 1..Len(stored'),
                        NEW j \in 1..Len(stored'[i]), NEW l \in 1..Len(stored'[k])
                 PROVE  LET a == stored'[i][j]
                            b == stored'[k][l]
                        IN  /\ Asks(a) /\ Settles(b) /\ a.request = b.request => i < k
                            /\ i # k /\ Settles(a) /\ Settles(b) =>
                                  /\ a.settlement # b.settlement
                                  /\ Open(a.request, cn) => a.request # b.request
      BY DEF Ordered
    <2> DEFINE a == stored[i + d][j]
               b == stored[k + d][l]
    <2>1. /\ i + d \in 1..Len(stored) /\ k + d \in 1..Len(stored)
          /\ stored'[i] = stored[i + d] /\ stored'[k] = stored[k + d]
          /\ j \in 1..Len(stored[i + d]) /\ l \in 1..Len(stored[k + d])
      BY <1>1
    <2>2. /\ Asks(a) /\ Settles(b) /\ a.request = b.request => i + d < k + d
          /\ i + d # k + d /\ Settles(a) /\ Settles(b) =>
                /\ a.settlement # b.settlement
                /\ Open(a.request, cn) => a.request # b.request
      BY <1>h, <2>1 DEF Ordered
    <2>3. (i + d < k + d => i < k) /\ (i # k => i + d # k + d)
      BY <1>1
    <2>4. stored'[i][j] = a /\ stored'[k][l] = b
      BY <2>1
    <2> HIDE DEF a, b
    <2> QED
      BY <2>2, <2>3, <2>4
  <1>12. ASSUME NEW t \in mempool', Settles(t)
         PROVE  SettledFor(se, t.request) = {}
    <2>1. t \in Txs /\ ValidateTx(t) /\ next >= Len(stored)
      BY <1>m, <1>3 DEF SettleInv
    <2>2. t.request \in Requests /\ rq[t.request].status # "settled"
      BY <1>t, <1>12, <2>1, ValidSettles
    <2>3. ~ ToCome(stored, next, txi, t.request)
      <3>1. \A i \in next..Len(stored) : i = next
        BY <1>t, <2>1
      <3> QED
        BY <1>b, <3>1 DEF ToCome
    <2> QED
      BY <1>h, <2>2, <2>3 DEF Matched
  <1> QED
    BY <1>3, <1>4, <1>5, <1>6, <1>9, <1>10, <1>11, <1>12 DEF SettleInv

\* A block is decided between blocks: what it asks for and settles is free.
LEMMA DecideSettle ==
    ASSUME NodeTypes, DirtyInv, FreshInv, SettleInv, DecideBlock
    PROVE  SettleInv'
  <1> DEFINE cn == contended
             se == db[2][7]
             rq == db[2][6]
  <1>t. /\ Len(stored) \in Nat /\ stored \in Seq(Seq(Txs)) /\ txi \in Nat
        /\ next \in 1..(Len(stored) + 1)
    BY DEF NodeTypes
  <1>1. /\ UNCHANGED <<redemptionRequests, redemptionSettlements, db, next, txi, claimed,
                       contended>> /\ Idle
    BY DEF DecideBlock, custodyVars
  <1>2. redemptionSettlements = se /\ redemptionRequests = rq /\ txi = 1
    BY <1>1 DEF DirtyInv, Persisted, CustodyPersisted
  <1>3. PICK txs \in Seq(Txs) :
            /\ \A j \in 1..Len(txs) : txs[j] \in mempool
            /\ stored' = Append(stored, txs)
            /\ mempool' \subseteq mempool
    BY DecidedBlock
  <1>4. /\ Len(stored') = Len(stored) + 1
        /\ \A i \in 1..Len(stored) : stored'[i] = stored[i]
        /\ stored'[Len(stored) + 1] = txs
        /\ \A i \in 1..Len(stored') : i \in 1..Len(stored) \/ i = Len(stored) + 1
        /\ \A i \in 1..Len(stored) : i # Len(stored) + 1 /\ i < next /\ i < Len(stored) + 1
        /\ next = Len(stored) + 1
    BY <1>t, <1>1, <1>3 DEF Idle
  <1>5. mempool' # {} => next' >= Len(stored')
    BY <1>t, <1>1, <1>4
  <1>6. \A s \in Settlements : db'[2][7][s] # None => redemptionSettlements'[s] # None
    BY <1>1 DEF SettleInv
  <1> SUFFICES ASSUME SettledApart(contended) PROVE SettleInv'
    BY <1>1, <1>5, <1>6 DEF SettleInv
  <1>h. /\ Matched(rq, se, stored, next, 1, cn) /\ Matched(rq, se, stored, 1, 1, cn)
        /\ \A x \in mempool : Settles(x) /\ Open(x.request, cn) => SettledFor(se, x.request) = {}
        /\ \A i \in 1..Len(stored) : \A j \in 1..Len(stored[i]) :
              /\ SlotAt(i, j, stored[i][j], se, se, next, 1, claimed)
              /\ OnceAt(i, j, stored[i][j], se, se, next, 1, claimed, cn)
              /\ AskAt(i, stored[i][j], se, stored)
        /\ Ordered(stored, cn)
    BY <1>2 DEF SettleInv
  <1>7. ASSUME NEW j \in 1..Len(txs)
        PROVE  /\ txs[j] \in Txs /\ txs[j] \in mempool
               /\ Asks(txs[j]) => txs[j].request \in Requests /\ rq[txs[j].request] = None
               /\ Settles(txs[j]) =>
                     /\ txs[j].request \in Requests /\ txs[j].settlement \in Settlements
                     /\ se[txs[j].settlement] = None /\ rq[txs[j].request] # None
                     /\ Open(txs[j].request, cn) => SettledFor(se, txs[j].request) = {}
    <2> DEFINE u == txs[j]
    <2>1. u \in Txs /\ u \in mempool
      BY <1>3
    <2>2. DbChecked(u) /\ DbGrounded(u)
      BY <2>1 DEF FreshInv, NodeTypes
    <2> SUFFICES /\ Asks(u) => u.request \in Requests /\ rq[u.request] = None
                 /\ Settles(u) => /\ u.request \in Requests /\ u.settlement \in Settlements
                                  /\ se[u.settlement] = None /\ rq[u.request] # None
                                  /\ Open(u.request, cn) => SettledFor(se, u.request) = {}
      BY <2>1
    <2> HIDE DEF u
    <2>3. /\ Asks(u) => u.request \in Requests
          /\ Settles(u) => u.request \in Requests /\ u.settlement \in Settlements
      BY <2>1, TxFields DEF Asks, Settles
    <2>4. /\ Asks(u) => rq[u.request] = None
          /\ Settles(u) => se[u.settlement] = None
      BY <2>2 DEF DbChecked, Checked, Asks, Settles
    <2>5. Settles(u) => rq[u.request] # None
      BY <2>2 DEF DbGrounded, Grounded, Settles
    <2>6. Settles(u) /\ Open(u.request, cn) => SettledFor(se, u.request) = {}
      BY <1>h, <2>1
    <2> QED
      BY <2>3, <2>4, <2>5, <2>6
  <1>8. \A i \in 1..Len(stored) : \A j \in 1..Len(stored[i]) :
           Settles(stored[i][j]) =>
              /\ rq[stored[i][j].request] # None
              /\ stored[i][j].settlement \in Settlements
              /\ se[stored[i][j].settlement] # None
              /\ se[stored[i][j].settlement].request = stored[i][j].request
    <2> SUFFICES ASSUME NEW i \in 1..Len(stored), NEW j \in 1..Len(stored[i]),
                        Settles(stored[i][j])
                 PROVE  /\ rq[stored[i][j].request] # None
                        /\ stored[i][j].settlement \in Settlements
                        /\ se[stored[i][j].settlement] # None
                        /\ se[stored[i][j].settlement].request = stored[i][j].request
      OBVIOUS
    <2> DEFINE u == stored[i][j]
    <2>1. u \in Txs /\ DbGrounded(u) /\ Settles(u) /\ i < next
          /\ SlotAt(i, j, u, se, se, next, 1, claimed)
      BY <1>t, <1>h, <1>4 DEF NodeTypes
    <2> HIDE DEF u
    <2>2. rq[u.request] # None
      BY <2>1 DEF DbGrounded, Grounded, Settles
    <2>3. u.settlement \in Settlements
      BY <2>1, TxFields DEF Settles
    <2>4. se[u.settlement] # None /\ se[u.settlement].request = u.request
      BY <2>1 DEF SlotAt
    <2> QED
      BY <2>2, <2>3, <2>4 DEF u
  <1>9. /\ Matched(rq, se, stored', next, 1, cn) /\ Matched(rq, se, stored', 1, 1, cn)
    <2>1. ASSUME NEW r, NEW nx \in Nat, nx >= 1, ToCome(stored, nx, 1, r)
          PROVE  ToCome(stored', nx, 1, r)
      <3> DEFINE st == stored'
      <3>1. /\ Len(st) \in Nat /\ Len(stored) <= Len(st) /\ nx <= nx
            /\ \A i \in 1..Len(stored) : st[i] = stored[i]
        BY <1>t, <1>4
      <3> HIDE DEF st
      <3>2. ToCome(st, nx, 1, r)
        BY <1>t, <2>1, <3>1, ToComeMore
      <3> QED
        BY <3>2 DEF st
    <2>2. next \in Nat /\ next >= 1 /\ 1 \in Nat /\ 1 >= 1
      BY <1>t
    <2> HIDE DEF rq, se, cn
    <2>3. \A r : (ToCome(stored, next, 1, r) => ToCome(stored', next, 1, r))
                 /\ (ToCome(stored, 1, 1, r) => ToCome(stored', 1, 1, r))
      BY <2>1, <2>2
    <2> QED
      BY <1>h, <2>3 DEF Matched
  <1>10. ASSUME NEW i \in 1..Len(stored'), NEW j \in 1..Len(stored'[i])
         PROVE  /\ SlotAt(i, j, stored'[i][j], se, se, next, 1, claimed)
                /\ OnceAt(i, j, stored'[i][j], se, se, next, 1, claimed, cn)
                /\ AskAt(i, stored'[i][j], se, stored')
    <2>1. CASE i \in 1..Len(stored)
      <3> DEFINE u == stored[i][j]
      <3>1. stored'[i] = stored[i] /\ j \in 1..Len(stored[i])
        BY <1>4, <2>1
      <3>2. /\ SlotAt(i, j, u, se, se, next, 1, claimed)
            /\ OnceAt(i, j, u, se, se, next, 1, claimed, cn)
            /\ AskAt(i, u, se, stored)
        BY <1>h, <2>1, <3>1
      <3>3. stored'[i][j] = u
        BY <3>1
      <3> HIDE DEF u
      <3>4. \A k \in (i + 1)..Len(stored) :
               k \in 1..Len(stored) /\ k \in (i + 1)..Len(stored') /\ stored'[k] = stored[k]
        BY <1>t, <1>4
      <3>5. AskAt(i, u, se, stored')
        BY <3>2, <3>4 DEF AskAt
      <3> QED
        BY <3>2, <3>3, <3>5
    <2>2. CASE i = Len(stored) + 1
      <3> DEFINE u == txs[j]
      <3>1. stored'[i] = txs /\ j \in 1..Len(txs)
        BY <1>4, <2>2
      <3>2. stored'[i][j] = u
        BY <3>1
      <3>3. /\ Asks(u) => u.request \in Requests /\ rq[u.request] = None
            /\ Settles(u) =>
                     /\ se[u.settlement] = None
                     /\ Open(u.request, cn) => SettledFor(se, u.request) = {}
        BY <1>7, <3>1
      <3>4. ~ (j < 1) /\ ~ (i < next)
        BY <1>t, <1>4, <2>2
      <3> HIDE DEF u
      <3>5. Asks(u) => SettledFor(se, u.request) = {}
        BY <1>h, <3>3 DEF Matched
      <3>6. SlotAt(i, j, u, se, se, next, 1, claimed)
        BY <3>3, <3>4 DEF SlotAt
      <3>7. OnceAt(i, j, u, se, se, next, 1, claimed, cn)
        BY <3>3 DEF OnceAt
      <3>8. AskAt(i, u, se, stored')
        BY <3>5 DEF AskAt
      <3> QED
        BY <3>2, <3>6, <3>7, <3>8
    <2> QED
      BY <1>4, <2>1, <2>2
  <1>11. Ordered(stored', cn)
    <2> SUFFICES ASSUME NEW i \in 1..Len(stored'), NEW k \in 1..Len(stored'),
                        NEW j \in 1..Len(stored'[i]), NEW l \in 1..Len(stored'[k])
                 PROVE  LET a == stored'[i][j]
                            b == stored'[k][l]
                        IN  /\ Asks(a) /\ Settles(b) /\ a.request = b.request => i < k
                            /\ i # k /\ Settles(a) /\ Settles(b) =>
                                  /\ a.settlement # b.settlement
                                  /\ Open(a.request, cn) => a.request # b.request
      BY DEF Ordered
    <2> DEFINE a == stored'[i][j]
               b == stored'[k][l]
    <2>a. /\ i = Len(stored) + 1 =>
               /\ Asks(a) => rq[a.request] = None
               /\ Settles(a) => /\ rq[a.request] # None /\ se[a.settlement] = None
                                /\ Open(a.request, cn) => SettledFor(se, a.request) = {}
          /\ i \in 1..Len(stored) /\ Settles(a) =>
               /\ rq[a.request] # None /\ se[a.settlement] # None
               /\ a.settlement \in SettledFor(se, a.request)
      <3>1. CASE i \in 1..Len(stored)
        <4>1. a = stored[i][j] /\ j \in 1..Len(stored[i]) /\ i # Len(stored) + 1
          BY <1>4, <3>1
        <4> HIDE DEF a
        <4> QED
          BY <1>8, <3>1, <4>1 DEF SettledFor
      <3>2. CASE i = Len(stored) + 1
        <4>1. a = txs[j] /\ j \in 1..Len(txs) /\ i \notin 1..Len(stored)
          BY <1>4, <3>2
        <4> HIDE DEF a
        <4> QED
          BY <1>7, <3>2, <4>1
      <3> QED
        BY <1>4, <3>1, <3>2
    <2>b. /\ k = Len(stored) + 1 =>
               /\ Asks(b) => rq[b.request] = None
               /\ Settles(b) => /\ rq[b.request] # None /\ se[b.settlement] = None
                                /\ Open(b.request, cn) => SettledFor(se, b.request) = {}
          /\ k \in 1..Len(stored) /\ Settles(b) =>
               /\ rq[b.request] # None /\ se[b.settlement] # None
               /\ b.settlement \in SettledFor(se, b.request)
      <3>1. CASE k \in 1..Len(stored)
        <4>1. b = stored[k][l] /\ l \in 1..Len(stored[k]) /\ k # Len(stored) + 1
          BY <1>4, <3>1
        <4> HIDE DEF b
        <4> QED
          BY <1>8, <3>1, <4>1 DEF SettledFor
      <3>2. CASE k = Len(stored) + 1
        <4>1. b = txs[l] /\ l \in 1..Len(txs) /\ k \notin 1..Len(stored)
          BY <1>4, <3>2
        <4> HIDE DEF b
        <4> QED
          BY <1>7, <3>2, <4>1
      <3> QED
        BY <1>4, <3>1, <3>2
    <2>1. CASE i \in 1..Len(stored) /\ k \in 1..Len(stored)
      <3>1. /\ a = stored[i][j] /\ b = stored[k][l]
            /\ j \in 1..Len(stored[i]) /\ l \in 1..Len(stored[k])
        BY <1>4, <2>1
      <3>2. /\ Asks(stored[i][j]) /\ Settles(stored[k][l])
               /\ stored[i][j].request = stored[k][l].request => i < k
            /\ i # k /\ Settles(stored[i][j]) /\ Settles(stored[k][l]) =>
                  /\ stored[i][j].settlement # stored[k][l].settlement
                  /\ Open(stored[i][j].request, cn) =>
                        stored[i][j].request # stored[k][l].request
        BY <1>h, <2>1, <3>1 DEF Ordered
      <3> QED
        BY <3>1, <3>2
    <2>2. CASE i \in 1..Len(stored) /\ k = Len(stored) + 1
      <3>1. i < k
        BY <1>4, <2>2
      <3> HIDE DEF a, b
      <3>2. /\ Asks(a) /\ Settles(b) /\ a.request = b.request => i < k
            /\ i # k /\ Settles(a) /\ Settles(b) =>
                  /\ a.settlement # b.settlement
                  /\ Open(a.request, cn) => a.request # b.request
        BY <2>a, <2>b, <2>2, <3>1
      <3> QED
        BY <3>2 DEF a, b
    <2>3. CASE i = Len(stored) + 1
      <3>1. k \in 1..Len(stored) \/ k = i
        BY <1>4, <2>3
      <3> HIDE DEF a, b
      <3>2. /\ ~ (Asks(a) /\ Settles(b) /\ a.request = b.request)
            /\ i # k /\ Settles(a) /\ Settles(b) =>
                  /\ a.settlement # b.settlement
                  /\ Open(a.request, cn) => a.request # b.request
        BY <2>a, <2>b, <2>3, <3>1
      <3> QED
        BY <3>2 DEF a, b
    <2> QED
      BY <1>4, <2>1, <2>2, <2>3
  <1>12. \A x \in mempool' : Settles(x) /\ Open(x.request, cn) => SettledFor(se, x.request) = {}
    BY <1>h, <1>3
  <1> QED
    BY <1>1, <1>2, <1>5, <1>6, <1>9, <1>10, <1>11, <1>12 DEF SettleInv

\* Every step keeps requests and settlements matched.
LEMMA StepSettle ==
    ASSUME NodeTypes, DirtyInv, FreshInv, LotInv, SettleInv, [WireNext]_wireVars
    PROVE  SettleInv'
  <1>1. ASSUME NEW t \in Traffic[profile], CheckTx(t) PROVE SettleInv'
    <2>1. /\ UNCHANGED <<redemptionRequests, redemptionSettlements, db, stored, next, txi, claimed,
                         contended>>
          /\ mempool' = mempool \cup {t} /\ ValidateTx(t) /\ Idle
      BY <1>1 DEF CheckTx, custodyVars
    <2>2. db[2][7] = redemptionSettlements
      BY <2>1 DEF DirtyInv, Persisted, CustodyPersisted
    <2>3. t \in Txs
      BY TrafficTxs
    <2>4. MemLedger /\ MemCustody /\ Len(stored) \in Nat
      BY DEF NodeTypes
    <2>5. next >= Len(stored) /\ \A i \in next..Len(stored) : FALSE
      BY <2>1, <2>4 DEF Idle
    <2>6. ASSUME SettledApart(contended), Settles(t)
          PROVE  SettledFor(db[2][7], t.request) = {}
      <3>1. /\ t.request \in Requests /\ redemptionRequests[t.request].status # "settled"
        BY <2>1, <2>3, <2>4, <2>6, ValidSettles
      <3>2. ~ ToCome(stored, next, txi, t.request)
        BY <2>5 DEF ToCome
      <3>3. Matched(redemptionRequests, redemptionSettlements, stored, next, txi, contended)
        BY <2>6 DEF SettleInv
      <3> QED
        BY <2>2, <3>1, <3>2, <3>3 DEF Matched
    <2> QED
      BY <2>1, <2>5, <2>6 DEF SettleInv
  <1>2. CASE DecideBlock
    BY <1>2, DecideSettle
  <1>3. CASE DeliverTx
    BY <1>3, DeliverSettle
  <1>4. CASE EndBlock
    BY <1>4, EndSettle
  <1>5. CASE Restart
    <2>1. /\ redemptionSettlements' = db[2][7] /\ redemptionRequests' = db[2][6]
          /\ UNCHANGED <<db, contended, stored>> /\ claimed' = {} /\ txi' = 1 /\ next' = 1
          /\ mempool' = {}
      BY <1>5 DEF Restart, CustodyLoaded
    <2>2. ASSUME SettledApart(contended), NEW i \in 1..Len(stored), NEW j \in 1..Len(stored[i])
          PROVE  /\ SlotAt(i, j, stored[i][j], db[2][7], db[2][7], 1, 1, {})
                 /\ OnceAt(i, j, stored[i][j], db[2][7], db[2][7], 1, 1, {}, contended)
                 /\ AskAt(i, stored[i][j], db[2][7], stored)
      <3> DEFINE u == stored[i][j]
      <3>1. ~ (j < 1) /\ ~ (i < 1)
        OBVIOUS
      <3>2. /\ SlotAt(i, j, u, db[2][7], redemptionSettlements, next, txi, claimed)
            /\ OnceAt(i, j, u, db[2][7], redemptionSettlements, next, txi, claimed, contended)
            /\ AskAt(i, u, db[2][7], stored)
        BY <2>2 DEF SettleInv
      <3> HIDE DEF u
      <3>3. /\ SlotAt(i, j, u, db[2][7], db[2][7], 1, 1, {})
            /\ OnceAt(i, j, u, db[2][7], db[2][7], 1, 1, {}, contended)
        BY <3>1, <3>2 DEF SlotAt, OnceAt
      <3> QED
        BY <3>2, <3>3 DEF u
    <2>3. SettledApart(contended) => /\ Matched(db[2][6], db[2][7], stored, 1, 1, contended)
                                     /\ Ordered(stored, contended)
      BY DEF SettleInv
    <2> QED
      BY <2>1, <2>2, <2>3 DEF SettleInv
  <1>6. CASE UNCHANGED wireVars
    <2>1. UNCHANGED <<redemptionRequests, redemptionSettlements, db, stored, next, txi, claimed,
                      contended, mempool>>
      BY <1>6 DEF wireVars, chain, history, custodyVars
    <2> QED
      BY <2>1 DEF SettleInv
  <1> QED
    BY <1>1, <1>2, <1>3, <1>4, <1>5, <1>6 DEF WireNext

\* There are no requests and no settlements at the start.
LEMMA InitSettle ==
    ASSUME WireInit
    PROVE  SettleInv
  <1>1. /\ db = Persisted /\ mempool = {} /\ stored = <<>> /\ CustodyInit
    BY DEF WireInit
  <1>2. db[2][6] = redemptionRequests /\ db[2][7] = redemptionSettlements
    BY <1>1 DEF Persisted, CustodyPersisted
  <1>3. /\ redemptionRequests = [r \in Requests |-> None]
        /\ redemptionSettlements = [s \in Settlements |-> None]
    BY <1>1 DEF CustodyInit
  <1>4. \A nx, ti : Matched(redemptionRequests, redemptionSettlements, stored, nx, ti, contended)
    BY <1>3 DEF Matched, SettledFor
  <1>5. \A i \in 1..Len(stored) : FALSE
    <2>1. Len(stored) = 0
      BY <1>1
    <2> QED
      BY <2>1
  <1> QED
    BY <1>1, <1>2, <1>4, <1>5 DEF SettleInv, Ordered

\* A request is settled once and a settlement is for a settled request, although
\* ExecuteTx looks at neither: for any traffic, and although a restart may
\* execute blocks again that make settled requests pending for a moment.
THEOREM RequestsSettledOnce == WireSpec => []SettledOnce
  <1>1. WireInit => SettleInv
    BY InitSettle
  <1>2. NodeTypes /\ DirtyInv /\ FreshInv /\ LotInv /\ SettleInv /\ [WireNext]_wireVars
        => SettleInv'
    BY StepSettle
  <1>3. NodeTypes /\ LotInv /\ SettleInv => SettledOnce
    <2> SUFFICES ASSUME NodeTypes, LotInv, SettleInv, SettledApart(contended), NEW r \in Requests,
                        redemptionRequests[r] # None, Open(r, contended), ~ (replayed /\ ~ Idle)
                 PROVE  Cardinality(SettledFor(redemptionSettlements, r))
                        = IF redemptionRequests[r].status = "settled" THEN 1 ELSE 0
      BY DEF SettledOnce, SettledApart, Open, SettledFor
    <2> DEFINE S == SettledFor(redemptionSettlements, r)
    <2>1. /\ \A s, s2 \in S : s = s2
          /\ redemptionRequests[r].status = "settled" => S # {}
          /\ S # {} => redemptionRequests[r].status = "settled"
                       \/ ToCome(stored, next, txi, r)
      BY DEF SettleInv, Matched
    <2>2. S # {} => redemptionRequests[r].status = "settled"
      <3>1. CASE Idle
        <4>1. Len(stored) \in Nat
          BY DEF NodeTypes
        <4>2. \A i \in next..Len(stored) : FALSE
          BY <3>1, <4>1 DEF Idle
        <4> QED
          BY <2>1, <4>2 DEF ToCome
      <3>2. CASE ~ replayed
        <4>1. Answered(db[2][6], redemptionRequests, redemptionSettlements)
          BY <3>2 DEF LotInv
        <4> QED
          BY <4>1 DEF Answered, SettledFor
      <3> QED
        BY <3>1, <3>2
    <2> HIDE DEF S
    <2>3. CASE redemptionRequests[r].status = "settled"
      <3>1. PICK s \in S : TRUE
        BY <2>1, <2>3
      <3>2. S = {s}
        BY <2>1
      <3>3. Cardinality({s}) = 1
        BY FS_Singleton
      <3> QED
        BY <2>3, <3>2, <3>3 DEF S
    <2>4. CASE redemptionRequests[r].status # "settled"
      <3>1. S = {}
        BY <2>2, <2>4
      <3>2. Cardinality(S) = 0
        BY <3>1, FS_EmptySet
      <3> QED
        BY <2>4, <3>2 DEF S
    <2> QED
      BY <2>3, <2>4
  <1> QED
    BY <1>1, <1>2, <1>3, LotInvariant, PTL DEF WireSpec

=============================================================================
