--------------------------- MODULE InductionFacts ---------------------------
(***************************************************************************)
(* Induction over numbers, stated about sets and functions rather than     *)
(* about formulas: a set of numbers has a least one, a set that each       *)
(* number hands on to the next has them all, and a function can be built   *)
(* value by value.  With it, what is chosen as least, as greatest or by    *)
(* rank is there.                                                          *)
(***************************************************************************)
EXTENDS Integers, WellFoundedInduction, FiniteSetTheorems, TLAPS

LessThan == OpToRel(<, Nat)

\* A set of numbers that is not empty has a least one.
LEMMA LeastExists ==
  ASSUME NEW T \in SUBSET Nat, T # {}
  PROVE  \E x \in T : \A y \in T : x <= y
<1>1. \A x, y \in Nat : <<y, x>> \in LessThan <=> y < x
  BY DEF LessThan, OpToRel
<1>2. \E x \in T : \A y \in T : ~(<<y, x>> \in LessThan)
  BY NatLessThanWellFounded, WFMin DEF LessThan
<1>3. PICK x \in T : \A y \in T : ~(<<y, x>> \in LessThan)
  BY <1>2
<1>4. ASSUME NEW y \in T PROVE x <= y
  <2>1. x \in Nat /\ y \in Nat /\ ~(y < x)
    BY <1>1, <1>3
  <2>2. QED
    BY <2>1
<1>5. QED
  BY <1>4

\* And that is the one chosen.
LEMMA LeastIsIn ==
  ASSUME NEW T \in SUBSET Nat, T # {}
  PROVE  (CHOOSE x \in T : \A y \in T : x <= y) \in T
BY LeastExists

\* A set that has zero, and the number after each number it has, has them all.
LEMMA Reaches ==
  ASSUME NEW n \in Nat, NEW T, 0 \in T, \A i \in 1..n : i - 1 \in T => i \in T
  PROVE  0..n \subseteq T
<1> DEFINE missing == 0..n \ T
<1>1. SUFFICES ASSUME missing # {} PROVE FALSE
  OBVIOUS
<1>2. missing \in SUBSET Nat
  OBVIOUS
<1>3. PICK i \in missing : \A j \in missing : i <= j
  BY <1>1, <1>2, LeastExists
<1>4. i \in 0..n /\ i \notin T
  OBVIOUS
<1>5. i \in 1..n /\ i - 1 \in 0..n
  BY <1>4
<1>6. i - 1 \in T
  BY <1>3, <1>4, <1>5
<1>7. QED
  BY <1>4, <1>5, <1>6

\* n steps within V, one after the other from base, and where f says they lead.
Steps(n, V, base, step) == n \in Nat /\ base \in V /\ step \in [1..n -> [V -> V]]
Iterates(n, V, base, step, f) ==
  /\ f \in [0..n -> V]
  /\ f[0] = base
  /\ \A i \in 1..n : f[i] = step[i][f[i - 1]]

\* Such steps lead somewhere.
LEMMA IteratesExist ==
  ASSUME NEW n, NEW V, NEW base, NEW step, Steps(n, V, base, step)
  PROVE  \E f : Iterates(n, V, base, step, f)
<1> USE DEF Steps
<1> DEFINE Is(f, k) == Iterates(k, V, base, step, f)
           T == {k \in 0..n : \E f : Is(f, k)}
<1> HIDE DEF Is
<1>1. 0 \in T
  <2>1. Is([i \in 0..0 |-> base], 0)
    BY DEF Is, Iterates
  <2>2. QED
    BY <2>1
<1>2. ASSUME NEW k \in 1..n, k - 1 \in T PROVE k \in T
  <2>1. PICK f : Is(f, k - 1)
    BY <1>2
  <2> DEFINE g == [i \in 0..k |-> IF i = k THEN step[k][f[k - 1]] ELSE f[i]]
  <2>2. f[k - 1] \in V /\ step[k] \in [V -> V] /\ f \in [0..k - 1 -> V] /\ f[0] = base
        /\ \A i \in 1..k - 1 : f[i] = step[i][f[i - 1]]
    BY <2>1 DEF Is, Iterates
  <2>3. g \in [0..k -> V] /\ g[0] = base
    BY <2>2
  <2>4. ASSUME NEW i \in 1..k PROVE g[i] = step[i][g[i - 1]]
    <3>1. g[i - 1] = f[i - 1] /\ i - 1 \in 0..k
      OBVIOUS
    <3>2. CASE i = k
      BY <3>1, <3>2
    <3>3. CASE i # k
      <4>1. i \in 1..k - 1 /\ g[i] = f[i]
        BY <3>3
      <4>2. QED
        BY <2>2, <3>1, <4>1
    <3>4. QED
      BY <3>2, <3>3
  <2> HIDE DEF g
  <2>5. Is(g, k)
    BY <2>3, <2>4 DEF Is, Iterates
  <2>6. QED
    BY <2>5
<1>3. 0..n \subseteq T
  <2> HIDE DEF T
  <2>1. QED
    BY <1>1, <1>2, Reaches
<1>4. n \in T
  BY <1>3
<1>5. \E f : Is(f, n)
  BY <1>4
<1>6. QED
  BY <1>5 DEF Is

-----------------------------------------------------------------------------
(* What is chosen is there.                                                *)

\* Each value they go through is the step of the one before.
LEMMA IteratesStep ==
  ASSUME NEW n \in Nat, NEW V, NEW base, NEW step, NEW f, Iterates(n, V, base, step, f)
  PROVE  \A k \in 1..n : f[k - 1] \in V /\ f[k] = step[k][f[k - 1]]
<1>1. \A k \in 1..n : k - 1 \in 0..n
  OBVIOUS
<1>2. QED
  BY <1>1 DEF Iterates

\* The values of a function of a few numbers lie between two integers.
LEMMA ValuesAreBounded ==
  ASSUME NEW n \in Nat, NEW f \in [1..n -> Int]
  PROVE  \E lo, hi \in Int : \A i \in 1..n : lo <= f[i] /\ f[i] <= hi
<1> DEFINE Bounded(k) == \E lo, hi \in Int : \A i \in 1..k : lo <= f[i] /\ f[i] <= hi
           T == {k \in 0..n : Bounded(k)}
<1>1. 0 \in T
  <2>1. Bounded(0)
    OBVIOUS
  <2> HIDE DEF Bounded
  <2>2. QED
    BY <2>1
<1>2. ASSUME NEW k \in 1..n, k - 1 \in T PROVE k \in T
  <2>1. PICK lo, hi \in Int : \A i \in 1..k - 1 : lo <= f[i] /\ f[i] <= hi
    BY <1>2
  <2>2. f[k] \in Int
    OBVIOUS
  <2> DEFINE low == IF lo <= f[k] THEN lo ELSE f[k]
             high == IF f[k] <= hi THEN hi ELSE f[k]
  <2>3. low \in Int /\ high \in Int /\ low <= lo /\ low <= f[k] /\ hi <= high /\ f[k] <= high
    BY <2>2
  <2> HIDE DEF low, high
  <2>4. ASSUME NEW i \in 1..k PROVE low <= f[i] /\ f[i] <= high
    <3>1. CASE i = k
      BY <2>3, <3>1
    <3>2. CASE i # k
      <4>1. i \in 1..k - 1 /\ f[i] \in Int
        BY <3>2
      <4>2. QED
        BY <2>1, <2>3, <4>1
    <3>3. QED
      BY <3>1, <3>2
  <2>5. Bounded(k)
    BY <2>3, <2>4
  <2> HIDE DEF Bounded
  <2>6. QED
    BY <2>5
<1>3. 0..n \subseteq T
  <2> HIDE DEF T
  <2>1. QED
    BY <1>1, <1>2, Reaches
<1>4. Bounded(n)
  <2> HIDE DEF Bounded
  <2>1. QED
    BY <1>3
<1>5. QED
  BY <1>4

\* Integers that none is below some number have a least one.
LEMMA LeastOfBounded ==
  ASSUME NEW T \in SUBSET Int, T # {}, NEW lo \in Int, \A x \in T : lo <= x
  PROVE  \E x \in T : \A y \in T : x <= y
<1> DEFINE U == {k \in Nat : lo + k \in T}
<1>1. ASSUME NEW x \in T PROVE x - lo \in U
  <2>1. x \in Int /\ lo <= x
    OBVIOUS
  <2>2. x - lo \in Nat /\ lo + (x - lo) = x
    BY <2>1
  <2>3. QED
    BY <2>2
<1>2. U # {}
  BY <1>1
<1>3. PICK k \in U : \A j \in U : k <= j
  <2>1. U \in SUBSET Nat
    OBVIOUS
  <2> HIDE DEF U
  <2>2. QED
    BY <1>2, <2>1, LeastExists
<1>4. lo + k \in T /\ k \in Nat
  BY <1>3
<1>5. ASSUME NEW y \in T PROVE lo + k <= y
  <2>1. k <= y - lo /\ y \in Int
    BY <1>1, <1>3
  <2>2. QED
    BY <1>4, <2>1
<1>6. QED
  BY <1>4, <1>5

\* And those that none is above, a greatest.
LEMMA GreatestOfBounded ==
  ASSUME NEW T \in SUBSET Int, T # {}, NEW hi \in Int, \A x \in T : x <= hi
  PROVE  \E x \in T : \A y \in T : x >= y
<1> DEFINE U == {k \in Int : -k \in T}
<1>1. ASSUME NEW x \in T PROVE -x \in U /\ -hi <= -x
  <2>1. x \in Int /\ -(-x) = x /\ x <= hi
    OBVIOUS
  <2>2. QED
    BY <2>1
<1>2. U # {} /\ U \in SUBSET Int /\ -hi \in Int
  <2>1. PICK x \in T : TRUE
    OBVIOUS
  <2>2. -x \in U
    BY <1>1
  <2> HIDE DEF U
  <2>3. U # {}
    BY <2>2
  <2>4. QED
    BY <2>3 DEF U
<1>3. \A k \in U : -hi <= k
  <2>1. SUFFICES ASSUME NEW k \in U PROVE -hi <= k
    OBVIOUS
  <2>2. k \in Int /\ -k \in T /\ -k <= hi
    OBVIOUS
  <2>3. QED
    BY <2>2
<1>4. PICK k \in U : \A j \in U : k <= j
  <2> HIDE DEF U
  <2>1. QED
    BY <1>2, <1>3, LeastOfBounded
<1>5. k \in Int /\ -k \in T
  OBVIOUS
<1>6. ASSUME NEW y \in T PROVE -k >= y
  <2>1. k <= -y /\ y \in Int
    BY <1>1, <1>4
  <2>2. QED
    BY <1>5, <2>1
<1>7. QED
  BY <1>5, <1>6

\* Of a finite set in a strict order R: those before a member.
Before(S, R, a) == {b \in S : <<b, a>> \in R}

StrictOrder(S, R) ==
  /\ \A a \in S : <<a, a>> \notin R
  /\ \A a, b \in S : a = b \/ <<a, b>> \in R \/ <<b, a>> \in R
  /\ \A a, b, c \in S : <<a, b>> \in R /\ <<b, c>> \in R => <<a, c>> \in R

\* Of two members there are fewer before the one that is before the other.
LEMMA RanksRise ==
  ASSUME NEW S, IsFiniteSet(S), NEW R, StrictOrder(S, R),
         NEW a \in S, NEW b \in S, <<a, b>> \in R
  PROVE  Cardinality(Before(S, R, a)) < Cardinality(Before(S, R, b))
<1>1. /\ Before(S, R, a) \subseteq Before(S, R, b)
      /\ a \in Before(S, R, b) /\ a \notin Before(S, R, a)
  BY DEF StrictOrder, Before
<1>2. IsFiniteSet(Before(S, R, b))
  <2>1. Before(S, R, b) \in SUBSET S
    BY DEF Before
  <2>2. QED
    BY <2>1, FS_Subset
<1>3. /\ IsFiniteSet(Before(S, R, a))
      /\ Cardinality(Before(S, R, a)) <= Cardinality(Before(S, R, b))
      /\ Cardinality(Before(S, R, b)) # Cardinality(Before(S, R, a))
  BY <1>1, <1>2, FS_Subset
<1>4. Cardinality(Before(S, R, a)) \in Nat /\ Cardinality(Before(S, R, b)) \in Nat
  BY <1>2, <1>3, FS_CardinalityType
<1>5. QED
  BY <1>3, <1>4

\* Each place in the order is somebody's, and only his.
LEMMA RanksAreFilled ==
  ASSUME NEW S, IsFiniteSet(S), NEW R, StrictOrder(S, R), NEW i \in 1..Cardinality(S)
  PROVE  \E a \in S : /\ Cardinality(Before(S, R, a)) = i - 1
                     /\ \A b \in S : Cardinality(Before(S, R, b)) = i - 1 => b = a
<1> DEFINE n == Cardinality(S)
           rank == [a \in S |-> Cardinality(Before(S, R, a))]
<1>1. n \in Nat
  BY FS_CardinalityType
<1>2. ASSUME NEW a \in S PROVE rank[a] \in 0..n - 1
  <2>1. Before(S, R, a) \in SUBSET (S \ {a})
    BY DEF Before, StrictOrder
  <2>2. IsFiniteSet(S \ {a}) /\ Cardinality(S \ {a}) = n - 1
    BY FS_RemoveElement
  <2>3. /\ IsFiniteSet(Before(S, R, a)) /\ Cardinality(Before(S, R, a)) <= n - 1
    BY <2>1, <2>2, FS_Subset
  <2>4. Cardinality(Before(S, R, a)) \in Nat
    BY <2>3, FS_CardinalityType
  <2>5. QED
    BY <1>1, <2>3, <2>4
<1>3. ASSUME NEW a \in S, NEW b \in S, rank[a] = rank[b] PROVE a = b
  <2>1. SUFFICES ASSUME a # b PROVE FALSE
    OBVIOUS
  <2>2. <<a, b>> \in R \/ <<b, a>> \in R
    BY <2>1 DEF StrictOrder
  <2>3. rank[a] < rank[b] \/ rank[b] < rank[a]
    BY <2>2, RanksRise
  <2>4. QED
    BY <1>2, <1>3, <2>3
<1>4. \E a \in S : rank[a] = i - 1
  <2>1. SUFFICES ASSUME \A a \in S : rank[a] # i - 1 PROVE FALSE
    OBVIOUS
  <2> DEFINE others == 0..n - 1 \ {i - 1}
  <2>2. rank \in [S -> others]
    BY <1>2, <2>1
  <2>3. IsFiniteSet(0..n - 1) /\ Cardinality(0..n - 1) = n
    <3>1. 0 \in Int /\ n - 1 \in Int /\ n >= 1
      BY <1>1
    <3>2. QED
      BY <1>1, <3>1, FS_Interval
  <2>4. i - 1 \in 0..n - 1
    BY <1>1
  <2> HIDE DEF n
  <2>5. IsFiniteSet(others) /\ Cardinality(others) = n - 1
    BY <2>3, <2>4, FS_RemoveElement
  <2> USE DEF n
  <2> HIDE DEF rank, others
  <2>6. \E a, b \in S : a # b /\ rank[a] = rank[b]
    BY <1>1, <2>2, <2>5, FS_PigeonHole
  <2>7. QED
    BY <1>3, <2>6
<1>5. PICK a \in S : rank[a] = i - 1
  BY <1>4
<1>6. \A b \in S : Cardinality(Before(S, R, b)) = i - 1 => b = a
  BY <1>3, <1>5
<1>7. QED
  BY <1>5, <1>6

-----------------------------------------------------------------------------
\* A quotient is the number of times the divisor goes.
LEMMA DivisionBounds ==
  ASSUME NEW a \in Nat, NEW b \in Nat \ {0}
  PROVE  a \div b \in Nat /\ (a \div b) * b <= a /\ a < (a \div b + 1) * b
<1> DEFINE q == a \div b
           r == a % b
<1>1. a = b * q + r
  OBVIOUS
<1>2. q \in Int /\ r \in Int /\ 0 <= r /\ r < b
  OBVIOUS
<1> HIDE DEF q, r
<1> DEFINE m == b * q
<1>4. m \in Int /\ q * b = m /\ (q + 1) * b = m + b
  BY <1>2
<1>5. q < 0 => m <= -b
  <2>1. ASSUME q < 0 PROVE b * (q + 1) <= 0
    <3>1. q + 1 \in Int /\ q + 1 <= 0
      BY <1>2, <2>1
    <3>2. \A k \in Int : k <= 0 => b * k <= 0
      OBVIOUS
    <3>3. QED
      BY <3>1, <3>2
  <2>2. b * (q + 1) = m + b
    BY <1>2
  <2>3. QED
    BY <1>4, <2>1, <2>2
<1>6. a = m + r
  BY <1>1
<1> HIDE DEF m
<1>7. q \in Nat
  BY <1>2, <1>4, <1>5, <1>6
<1>8. m <= a /\ a < m + b
  BY <1>2, <1>4, <1>6
<1>9. QED
  BY <1>4, <1>7, <1>8 DEF q

=============================================================================
