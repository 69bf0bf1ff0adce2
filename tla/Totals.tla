------------------------------- MODULE Totals -------------------------------
(***************************************************************************)
(* The sum of a family of natural numbers over a finite set, and the laws  *)
(* the accounting invariants of the token ledgers and of the lending       *)
(* engine rest on.  The contracts never compute such a sum: they keep a    *)
(* running balance (an ERC20 balanceOf, totalDebt, totalCollateral) that   *)
(* must agree with it.                                                     *)
(*                                                                         *)
(* A sum is defined as the number of its units rather than by a fold, so   *)
(* that the theorems on finite sets are enough to prove its laws.  Last    *)
(* come laws of products and divisions, which the markets' proofs cite.    *)
(***************************************************************************)
EXTENDS Integers, FiniteSets, FiniteSetTheorems, TLAPS

\* One pair <<s, k>> for the k-th unit of the amount f[s].
Units(S, f) == UNION {{s} \X (1..f[s]) : s \in S}

\* f[s1] + f[s2] + ... over the members of S.
Total(S, f) == Cardinality(Units(S, f))

-----------------------------------------------------------------------------

LEMMA UnitsMember ==
  ASSUME NEW S, NEW f, NEW u
  PROVE  u \in Units(S, f) <=> \E s \in S : u \in {s} \X (1..f[s])
BY DEF Units

LEMMA UnitsOfOne ==
  ASSUME NEW x, NEW n \in Nat
  PROVE  IsFiniteSet({x} \X (1..n)) /\ Cardinality({x} \X (1..n)) = n
<1>1. IsFiniteSet({x}) /\ Cardinality({x}) = 1
  BY FS_Singleton
<1>2. IsFiniteSet(1..n) /\ Cardinality(1..n) = n
  BY FS_Interval
<1>3. /\ IsFiniteSet({x} \X (1..n))
      /\ Cardinality({x} \X (1..n)) = Cardinality({x}) * Cardinality(1..n)
  BY <1>1, <1>2, FS_Product
<1>4. 1 * n = n
  OBVIOUS
<1>5. QED
  BY <1>1, <1>2, <1>3, <1>4

LEMMA UnitsFinite ==
  ASSUME NEW S, IsFiniteSet(S), NEW f, \A s \in S : f[s] \in Nat
  PROVE  IsFiniteSet(Units(S, f))
<1> DEFINE T == {{s} \X (1..f[s]) : s \in S}
           g == [s \in S |-> {s} \X (1..f[s])]
<1>1. g \in Surjection(S, T)
  BY DEF Surjection
<1>2. IsFiniteSet(T)
  <2> HIDE DEF T, g
  <2> QED BY <1>1, FS_Surjection
<1>3. ASSUME NEW U \in T PROVE IsFiniteSet(U)
  <2>1. PICK s \in S : U = {s} \X (1..f[s])
    OBVIOUS
  <2>2. QED
    BY <2>1, UnitsOfOne
<1>4. IsFiniteSet(UNION T)
  <2> HIDE DEF T
  <2> QED BY <1>2, <1>3, FS_UNION
<1>5. QED
  BY <1>4 DEF Units

\* A total is a natural number.
LEMMA TotalType ==
  ASSUME NEW S, IsFiniteSet(S), NEW f, \A s \in S : f[s] \in Nat
  PROVE  Total(S, f) \in Nat
BY UnitsFinite, FS_CardinalityType DEF Total

\* Nothing sums to nothing.
LEMMA TotalEmpty ==
  ASSUME NEW f
  PROVE  Total({}, f) = 0
<1>1. Units({}, f) = {}
  BY DEF Units
<1>2. QED
  BY <1>1, FS_EmptySet DEF Total

\* Only the amounts of the members count.
LEMMA TotalSame ==
  ASSUME NEW S, NEW f, NEW g, \A s \in S : f[s] = g[s]
  PROVE  Total(S, f) = Total(S, g)
<1>1. Units(S, f) = Units(S, g)
  BY DEF Units
<1>2. QED
  BY <1>1 DEF Total

\* A new member adds its amount.
LEMMA TotalAdd ==
  ASSUME NEW S, IsFiniteSet(S), NEW x, x \notin S,
         NEW f, \A s \in S \cup {x} : f[s] \in Nat
  PROVE  Total(S \cup {x}, f) = Total(S, f) + f[x]
<1> DEFINE A == Units(S, f)
           B == {x} \X (1..f[x])
<1>1. Units(S \cup {x}, f) = A \cup B
  <2>1. ASSUME NEW u PROVE u \in Units(S \cup {x}, f) <=> u \in A \cup B
    BY UnitsMember
  <2>2. QED
    BY <2>1
<1>2. A \cap B = {}
  BY DEF Units
<1>3. IsFiniteSet(A)
  BY UnitsFinite
<1>4. f[x] \in Nat
  OBVIOUS
<1>5. IsFiniteSet(B) /\ Cardinality(B) = f[x]
  BY <1>4, UnitsOfOne
<1>6. Cardinality(A \cup B) = Cardinality(A) + Cardinality(B) - Cardinality(A \cap B)
  <2> HIDE DEF A, B
  <2> QED BY <1>3, <1>5, FS_Union
<1>7. Cardinality(A) \in Nat
  <2> HIDE DEF A
  <2> QED BY <1>3, FS_CardinalityType
<1>8. Cardinality(A \cap B) = 0
  BY <1>2, FS_EmptySet
<1>9. Total(S, f) = Cardinality(A) /\ Total(S \cup {x}, f) = Cardinality(A \cup B)
  BY <1>1 DEF Total
<1>10. QED
  <2> HIDE DEF A, B
  <2> QED BY <1>4, <1>5, <1>6, <1>7, <1>8, <1>9

\* A member that leaves takes its amount away.
LEMMA TotalRemove ==
  ASSUME NEW S, IsFiniteSet(S), NEW x \in S,
         NEW f, \A s \in S : f[s] \in Nat
  PROVE  Total(S, f) = Total(S \ {x}, f) + f[x]
<1> DEFINE R == S \ {x}
<1>1. IsFiniteSet(R) /\ x \notin R /\ S = R \cup {x}
  BY FS_RemoveElement
<1>2. \A s \in R \cup {x} : f[s] \in Nat
  BY <1>1
<1>3. Total(R \cup {x}, f) = Total(R, f) + f[x]
  <2> HIDE DEF R
  <2> QED BY <1>1, <1>2, TotalAdd
<1>4. QED
  BY <1>1, <1>3

\* Changing the amount of one member changes the total by the difference.
LEMMA TotalUpdate ==
  ASSUME NEW S, IsFiniteSet(S), NEW x \in S,
         NEW f, \A s \in S : f[s] \in Nat,
         NEW g, \A s \in S : g[s] \in Nat,
         \A s \in S \ {x} : g[s] = f[s]
  PROVE  Total(S, g) = Total(S, f) - f[x] + g[x]
<1>1. IsFiniteSet(S \ {x})
  BY FS_RemoveElement
<1>2. Total(S \ {x}, f) = Total(S \ {x}, g)
  BY TotalSame
<1>3. Total(S, f) = Total(S \ {x}, f) + f[x]
  BY TotalRemove
<1>4. Total(S, g) = Total(S \ {x}, g) + g[x]
  BY TotalRemove
<1>5. Total(S \ {x}, f) \in Nat
  BY <1>1, TotalType
<1>6. QED
  BY <1>2, <1>3, <1>4, <1>5

\* One member never exceeds the total.
LEMMA TotalBoundsMember ==
  ASSUME NEW S, IsFiniteSet(S), NEW x \in S,
         NEW f, \A s \in S : f[s] \in Nat
  PROVE  f[x] <= Total(S, f)
<1>1. IsFiniteSet(S \ {x})
  BY FS_RemoveElement
<1>2. Total(S \ {x}, f) \in Nat
  BY <1>1, TotalType
<1>3. Total(S, f) = Total(S \ {x}, f) + f[x]
  BY TotalRemove
<1>4. QED
  BY <1>2, <1>3

-----------------------------------------------------------------------------
(* Products and divisions of natural numbers, for the lending markets: the  *)
(* provers need these laws one at a time.                                   *)

LEMMA DivisionType ==
  ASSUME NEW a \in Nat, NEW b \in Nat \ {0}
  PROVE  a \div b \in Nat
OBVIOUS

LEMMA ProductType ==
  ASSUME NEW a \in Nat, NEW b \in Nat
  PROVE  a * b \in Nat
OBVIOUS

\* A quotient is rounded down by less than one.
LEMMA DivisionRoundsDown ==
  ASSUME NEW a \in Nat, NEW b \in Nat \ {0}
  PROVE  (a \div b) * b <= a /\ a < (a \div b) * b + b
OBVIOUS

LEMMA ProductMonotone ==
  ASSUME NEW a \in Nat, NEW b \in Nat, NEW c \in Nat, a <= b
  PROVE  a * c <= b * c
OBVIOUS

\* What is at least b times d is at least b after a division by d.
LEMMA DivisionAtLeast ==
  ASSUME NEW a \in Nat, NEW b \in Nat, NEW d \in Nat \ {0}, b * d <= a
  PROVE  b <= a \div d
<1> DEFINE q == a \div d
<1>1. q \in Nat /\ a < q * d + d
  BY DivisionType, DivisionRoundsDown
<1>2. SUFFICES ASSUME q + 1 <= b PROVE FALSE
  BY <1>1
<1>3. (q + 1) * d <= b * d
  <2> HIDE DEF q
  <2> QED BY <1>1, <1>2, ProductMonotone
<1>4. (q + 1) * d = q * d + d
  <2> HIDE DEF q
  <2> QED BY <1>1
<1>5. q * d \in Nat /\ b * d \in Nat
  <2> HIDE DEF q
  <2> QED BY <1>1, ProductType
<1>6. QED
  <2> HIDE DEF q
  <2> QED BY <1>1, <1>3, <1>4, <1>5
=============================================================================
