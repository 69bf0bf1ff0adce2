------------------------- MODULE GuardWorkflowProofs -------------------------
(***************************************************************************)
(* Proofs about the workflows for any adapters, markets, prices, requests, *)
(* numbers of overlapping runs and bounds: what a plan leaves its source   *)
(* and brings its target, what a report leaves its source when the plan is *)
(* stale, that rescues lose nothing, and that what is reported happened.   *)
(***************************************************************************)
EXTENDS GuardWorkflow, WellFoundedInduction

-----------------------------------------------------------------------------
(* The choice of a least member of a finite set. *)

\* The workflow sorts positions by a total order: some position comes first.
LEMMA FiniteHasLeast ==
  ASSUME NEW S, IsFiniteSet(S), S # {}, NEW R,
         \A x, y \in S : <<x, y>> \in R \/ <<y, x>> \in R,
         \A x, y, z \in S : <<x, y>> \in R /\ <<y, z>> \in R => <<x, z>> \in R
  PROVE  \E m \in S : \A x \in S : <<m, x>> \in R
<1> DEFINE Least(A) == \E m \in A : \A x \in A : <<m, x>> \in R
           Bad == {k \in Nat : \E A \in SUBSET S : A # {} /\ Cardinality(A) = k /\ ~Least(A)}
<1>1. Bad = {}
  <2> SUFFICES ASSUME Bad # {} PROVE FALSE
    OBVIOUS
  <2>1. PICK k \in Bad : \A j \in Bad : ~(j < k)
    <3> DEFINE less == OpToRel(<, Nat)
    <3>1. \E x \in Bad : \A y \in Bad : ~(<<y, x>> \in less)
      <4>1. Bad \subseteq Nat
        OBVIOUS
      <4> HIDE DEF Bad
      <4>2. QED
        BY <4>1, WFMin, NatLessThanWellFounded
    <3>2. \A x, y \in Nat : <<y, x>> \in less <=> y < x
      BY DEF OpToRel
    <3>3. QED
      BY <3>1, <3>2
  <2>2. PICK A \in SUBSET S : A # {} /\ Cardinality(A) = k /\ ~Least(A)
    OBVIOUS
  <2>3. PICK x \in A : TRUE
    BY <2>2
  <2> DEFINE B == A \ {x}
  <2>4. IsFiniteSet(A) /\ IsFiniteSet(B) /\ Cardinality(B) = k - 1 /\ Cardinality(B) \in Nat
    BY <2>2, <2>3, FS_Subset, FS_RemoveElement, FS_CardinalityType
  <2>5. CASE B = {}
    <3>1. A = {x}
      BY <2>3, <2>5
    <3>2. <<x, x>> \in R
      BY <2>3
    <3>3. Least(A)
      BY <3>1, <3>2
    <3>4. QED
      BY <2>2, <3>3
  <2>6. CASE B # {}
    <3>1. k - 1 \notin Bad
      BY <2>1, <2>4
    <3>2. Least(B)
      BY <2>4, <2>6, <3>1
    <3>3. PICK m \in B : \A y \in B : <<m, y>> \in R
      BY <3>2
    <3>4. CASE <<m, x>> \in R
      BY <2>2, <3>3, <3>4
    <3>5. CASE <<x, m>> \in R
      <4>1. \A y \in A : <<x, y>> \in R
        BY <2>3, <3>3, <3>5
      <4>2. QED
        BY <2>2, <2>3, <4>1
    <3>6. QED
      BY <2>3, <3>3, <3>4, <3>5
  <2>7. QED
    BY <2>5, <2>6
<1>2. Cardinality(S) \in Nat
  BY FS_CardinalityType
<1>3. QED
  BY <1>1, <1>2

LEMMA MinOfTwo ==
  ASSUME NEW a \in Nat, NEW b \in Nat
  PROVE  /\ Min({a, b}) \in Nat /\ Min({a, b}) <= a /\ Min({a, b}) <= b
<1>1. \E x \in {a, b} : \A y \in {a, b} : x =< y
  BY a <= b \/ b <= a
<1>2. Min({a, b}) \in {a, b} /\ \A y \in {a, b} : Min({a, b}) =< y
  BY <1>1, Zenon DEF Min
<1>3. QED
  BY <1>2

LEMMA MinOfFour ==
  ASSUME NEW a \in Nat, NEW b \in Nat, NEW c \in Nat, NEW d \in Nat
  PROVE  LET m == Min({a, b, c, d})
         IN  m \in Nat /\ m <= a /\ m <= b /\ m <= c /\ m <= d
<1>1. \E x \in {a, b, c, d} : \A y \in {a, b, c, d} : x =< y
  <2>1. CASE a <= b /\ a <= c /\ a <= d
    BY <2>1
  <2>2. CASE b <= a /\ b <= c /\ b <= d
    BY <2>2
  <2>3. CASE c <= a /\ c <= b /\ c <= d
    BY <2>3
  <2>4. CASE d <= a /\ d <= b /\ d <= c
    BY <2>4
  <2>5. QED
    BY <2>1, <2>2, <2>3, <2>4
<1>2. /\ Min({a, b, c, d}) \in {a, b, c, d}
      /\ \A y \in {a, b, c, d} : Min({a, b, c, d}) =< y
  BY <1>1, Zenon DEF Min
<1>3. QED
  BY <1>2

-----------------------------------------------------------------------------
(* The values of a position. *)

LEMMA NoDebtHfType == NoDebtHf \in Nat
BY SMT DEF NoDebtHf

\* What the types and the assumptions say of the markets.
LEMMA MarketFacts ==
  ASSUME GuardTypeOK, NEW a \in Adapters
  PROVE  /\ positions[a] \in Position
         /\ positions[a].collateral \in Nat /\ positions[a].debt \in Nat
         /\ prices[Collateral[a]] \in Nat \ {0} /\ prices[Debt[a]] \in Nat \ {0}
         /\ Margin[a] \in Nat /\ Margin[a] <= NoDebtHf
<1>1. Collateral[a] \in Assets /\ Debt[a] \in Assets /\ prices \in PriceVectors
  BY DEF Assets, GuardTypeOK
<1>2. positions[a] \in Position
  BY DEF GuardTypeOK
<1>3. Margin[a] \in 0..NoDebtHf /\ NoDebtHf \in Nat
  BY MarketAssumption, NoDebtHfType
<1>4. QED
  BY <1>1, <1>2, <1>3, MarketAssumption DEF Position

LEMMA ValueType ==
  ASSUME GuardTypeOK, NEW a \in Adapters, NEW c \in Nat
  PROVE  /\ Value(a, c) = c * prices[Collateral[a]] /\ Value(a, c) \in Nat
         /\ Effective(Value(a, c)) = (Value(a, c) * LiquidationThreshold) \div Bps
         /\ Effective(Value(a, c)) \in Nat /\ Value(a, c) * LiquidationThreshold \in Nat
<1> DEFINE v == c * prices[Collateral[a]]
<1>1. prices[Collateral[a]] \in Nat
  BY MarketFacts
<1>2. v \in Nat
  BY <1>1, ProductType
<1> HIDE DEF v
<1>3. v \div 1 = v
  BY <1>2
<1>4. Value(a, c) = v
  BY <1>3 DEF Value, CollateralValue, v
<1>5. LiquidationThreshold \in Nat /\ Bps \in Nat \ {0}
  BY DEF LiquidationThreshold, Bps
<1>6. v * LiquidationThreshold \in Nat
  BY <1>2, <1>5, ProductType
<1>7. (v * LiquidationThreshold) \div Bps \in Nat
  BY <1>5, <1>6, DivisionType
<1>8. QED
  BY <1>2, <1>4, <1>6, <1>7 DEF Effective, v

LEMMA HealthFactorType ==
  ASSUME GuardTypeOK, NEW a \in Adapters, NEW c \in Nat, NEW d \in Nat
  PROVE  /\ HealthFactor(a, c, d) \in Nat
         /\ d > 0 => HealthFactor(a, c, d) = (Value(a, c) * LiquidationThreshold) \div (d * Usd)
         /\ d > 0 => d * Usd \in Nat \ {0}
         /\ d = 0 => HealthFactor(a, c, d) = NoDebtHf
<1>1. NoDebtHf \in Nat /\ LiquidationThreshold \in Nat
  BY NoDebtHfType DEF LiquidationThreshold
<1>2. Value(a, c) * LiquidationThreshold \in Nat
  BY ValueType
<1>3. d > 0 => d * Usd \in Nat \ {0}
  BY DEF Usd
<1>4. d > 0 => HealthFactor(a, c, d) = (Value(a, c) * LiquidationThreshold) \div (d * Usd)
  BY DEF HealthFactor, CalculateHealthFactor
<1>5. d > 0 => (Value(a, c) * LiquidationThreshold) \div (d * Usd) \in Nat
  BY <1>2, <1>3, DivisionType
<1>6. QED
  BY <1>1, <1>3, <1>4, <1>5 DEF HealthFactor

LEMMA EngineHfType ==
  ASSUME GuardTypeOK, NEW a \in Adapters
  PROVE  EngineHf(a) \in Nat
BY MarketFacts, HealthFactorType DEF EngineHf

\* The available collateral is a share of the collateral.
LEMMA AvailableType ==
  ASSUME GuardTypeOK, NEW a \in Adapters
  PROVE  /\ Available(a) \in Nat /\ Available(a) <= positions[a].collateral
         /\ positions[a].debt > 0 /\ Available(a) > 0 =>
                /\ EngineHf(a) > Margin[a]
                /\ Available(a) = (positions[a].collateral * (EngineHf(a) - Margin[a])) \div EngineHf(a)
<1> DEFINE c == positions[a].collateral
           hf == EngineHf(a)
           m == Margin[a]
           share == (c * (hf - m)) \div hf
<1>1. c \in Nat /\ positions[a].debt \in Nat /\ hf \in Nat /\ m \in Nat
  BY MarketFacts, EngineHfType
<1>2. Available(a) = IF positions[a].debt = 0 THEN c ELSE IF hf <= m THEN 0 ELSE share
  BY DEF Available
<1>3. hf > m => share \in Nat /\ share <= c
  <2> SUFFICES ASSUME hf > m PROVE share \in Nat /\ share <= c
    OBVIOUS
  <2> HIDE DEF c, hf, m
  <2> DEFINE n == c * (hf - m)
  <2>1. hf - m \in Nat /\ hf - m <= hf /\ hf \in Nat \ {0}
    BY <1>1
  <2>2. n \in Nat /\ (hf - m) * c <= hf * c
    BY <1>1, <2>1, ProductType, ProductMonotone
  <2>3. n \div hf \in Nat /\ (n \div hf) * hf <= n
    <3> HIDE DEF n
    <3> QED BY <2>1, <2>2, DivisionType, DivisionRoundsDown
  <2>4. n = (hf - m) * c
    BY <1>1
  <2> DEFINE q == n \div hf
  <2>5. SUFFICES ASSUME c + 1 <= q PROVE FALSE
    BY <1>1, <2>3
  <2> HIDE DEF q, n
  <2>6. (c + 1) * hf <= q * hf
    BY <1>1, <2>1, <2>3, <2>5, ProductMonotone DEF q
  <2>7. (c + 1) * hf = hf * c + hf
    BY <1>1
  <2>8. hf * c \in Nat /\ q * hf \in Nat
    BY <1>1, <2>3, ProductType DEF q
  <2>9. QED
    BY <1>1, <2>1, <2>2, <2>3, <2>4, <2>6, <2>7, <2>8 DEF q
<1>4. QED
  <2> HIDE DEF share, c, hf, m
  <2>1. Available(a) \in Nat /\ Available(a) <= c
    BY <1>1, <1>2, <1>3
  <2>2. positions[a].debt > 0 /\ Available(a) > 0 => hf > m /\ Available(a) = share
    BY <1>1, <1>2
  <2>3. QED
    BY <2>1, <2>2 DEF share, c, hf, m

\* A step's amount is at most the plan's and what is available.
LEMMA GrantedBound ==
  ASSUME GuardTypeOK, NEW p \in Plan
  PROVE  /\ Granted(p) \in Nat /\ Granted(p) <= p.amount
         /\ Granted(p) <= Available(p.source) /\ Granted(p) <= positions[p.source].collateral
<1> DEFINE v == Available(p.source)
           q == (v * (Bps - 2000)) \div Bps
<1>1. v \in Nat /\ v <= positions[p.source].collateral /\ positions[p.source].collateral \in Nat
      /\ p.amount \in Nat
  BY AvailableType, MarketFacts DEF Plan
<1> HIDE DEF v
<1>2. q \in Nat /\ q <= v
  BY <1>1 DEF Bps
<1> HIDE DEF q
<1>3. Granted(p) = Min({p.amount, q})
  BY DEF Granted, q, v
<1>4. Granted(p) \in Nat /\ Granted(p) <= p.amount /\ Granted(p) <= q
  BY <1>1, <1>2, <1>3, MinOfTwo
<1>5. QED
  BY <1>1, <1>2, <1>4 DEF v

-----------------------------------------------------------------------------
(* What is left of a position, through the divisions on the way. *)

LEMMA ProductDistributes ==
  ASSUME NEW a \in Nat, NEW b \in Nat, NEW c \in Nat
  PROVE  a * (b - c) = a * b - a * c /\ (b - c) * a = b * a - c * a
OBVIOUS

LEMMA ProductAssociates ==
  ASSUME NEW a \in Nat, NEW b \in Nat, NEW c \in Nat
  PROVE  (a * b) * c = a * (b * c)
OBVIOUS

LEMMA ProductCommutes ==
  ASSUME NEW a \in Nat, NEW b \in Nat
  PROVE  a * b = b * a
OBVIOUS

\* A source that gives no more than its cap keeps its floor: c is its collateral
\* at price p, e what that bears and f the floor.
LEMMA CapKeepsFloor ==
  ASSUME NEW c \in Nat, NEW p \in Nat \ {0}, NEW lt \in Nat \ {0}, NEW b \in Nat \ {0},
         NEW e \in Nat, NEW f \in Nat, NEW x \in Nat,
         e = ((c * p) * lt) \div b, f < e, x <= c, x <= (((e - f) * b) \div lt) \div p
  PROVE  f <= (((c - x) * p) * lt) \div b
<1> DEFINE gap == (e - f) * b
           q == gap \div lt
           left == ((c - x) * p) * lt
           all == (c * p) * lt
<1>1. e - f \in Nat /\ c - x \in Nat
  OBVIOUS
<1>2. gap \in Nat /\ left \in Nat /\ all \in Nat
  BY <1>1, ProductType
<1>3. q \in Nat /\ q * lt <= gap
  <2> HIDE DEF gap
  <2> QED BY <1>2, DivisionType, DivisionRoundsDown
<1>4. x * p <= q
  <2>1. x <= q \div p
    OBVIOUS
  <2> HIDE DEF q
  <2>2. x * p <= (q \div p) * p
    BY <1>3, <2>1, DivisionType, ProductMonotone
  <2>3. (q \div p) * p <= q
    BY <1>3, DivisionRoundsDown
  <2>4. x * p \in Nat /\ (q \div p) * p \in Nat
    BY <1>3, DivisionType, ProductType
  <2>5. QED
    BY <1>3, <2>2, <2>3, <2>4
<1>5. (x * p) * lt <= gap
  <2> HIDE DEF q, gap
  <2>1. x * p \in Nat
    BY ProductType
  <2>2. (x * p) * lt <= q * lt
    BY <1>3, <1>4, <2>1, ProductMonotone
  <2>3. (x * p) * lt \in Nat /\ q * lt \in Nat
    BY <1>3, <2>1, ProductType
  <2>4. QED
    BY <1>2, <1>3, <2>2, <2>3
<1>6. e * b <= all
  <2>1. e = all \div b
    OBVIOUS
  <2> HIDE DEF all
  <2>2. QED
    BY <1>2, <2>1, DivisionRoundsDown
<1>7. left = all - (x * p) * lt
  BY <1>1
<1>8. gap = e * b - f * b /\ f * b \in Nat /\ e * b \in Nat /\ (x * p) * lt \in Nat
  BY ProductType
<1>9. f * b <= left
  <2> HIDE DEF gap, left, all
  <2> QED BY <1>2, <1>5, <1>6, <1>7, <1>8
<1>10. f <= left \div b
  <2> HIDE DEF left
  <2> QED BY <1>2, <1>9, DivisionAtLeast
<1>11. QED
  BY <1>10

\* A source that gives no more than the share above its margin m stays at the
\* margin: c is its collateral, k what a token bears and d its debt's value.
LEMMA ShareKeepsMargin ==
  ASSUME NEW c \in Nat, NEW k \in Nat, NEW d \in Nat \ {0}, NEW m \in Nat, NEW hf \in Nat,
         NEW x \in Nat, hf = (c * k) \div d, m < hf, x <= c, x <= (c * (hf - m)) \div hf
  PROVE  m * d <= (c - x) * k
<1> DEFINE n == c * (hf - m)
           left == (c - x) * k
<1>1. c - x \in Nat /\ hf - m \in Nat /\ hf \in Nat \ {0}
  OBVIOUS
<1>2. n \in Nat /\ left \in Nat /\ m * d \in Nat /\ c * k \in Nat
  BY <1>1, ProductType
<1>3. x * hf <= n
  <2>1. x <= n \div hf
    OBVIOUS
  <2> HIDE DEF n
  <2>2. x * hf <= (n \div hf) * hf /\ (n \div hf) * hf <= n
    BY <1>1, <1>2, <2>1, DivisionType, ProductMonotone, DivisionRoundsDown
  <2>3. x * hf \in Nat /\ (n \div hf) * hf \in Nat
    BY <1>1, <1>2, DivisionType, ProductType
  <2>4. QED
    BY <1>2, <2>2, <2>3
<1>4. c * m <= (c - x) * hf
  <2>1. n = c * hf - c * m /\ (c - x) * hf = c * hf - x * hf
    <3> HIDE DEF n, left
    <3>1. c * (hf - m) = c * hf - c * m
      BY ProductDistributes, SMTT(30)
    <3>2. (c - x) * hf = c * hf - x * hf
      BY ProductDistributes, SMTT(30)
    <3> USE DEF n
    <3>3. QED
      BY <3>1, <3>2, Zenon
  <2>2. c * hf \in Nat /\ c * m \in Nat /\ x * hf \in Nat
    BY ProductType
  <2> HIDE DEF n
  <2>3. QED
    BY <1>2, <1>3, <2>1, <2>2
<1>5. hf * d <= c * k
  BY <1>2, DivisionRoundsDown
<1>6. (c * m) * d <= ((c - x) * hf) * d
  BY <1>1, <1>4, ProductType, ProductMonotone
<1>7. (hf * d) * (c - x) <= (c * k) * (c - x)
  BY <1>1, <1>2, <1>5, ProductType, ProductMonotone
<1>8. /\ ((c - x) * hf) * d = (hf * d) * (c - x)
      /\ (c * k) * (c - x) = c * left
      /\ (c * m) * d = c * (m * d)
  BY <1>1
<1>9. c * (m * d) <= c * left
  <2>1. /\ (c * m) * d \in Nat /\ (hf * d) * (c - x) \in Nat /\ (c * k) * (c - x) \in Nat
    BY <1>1, <1>2, ProductType
  <2> HIDE DEF left
  <2>2. QED
    BY <1>6, <1>7, <1>8, <2>1
<1>10. c > 0
  <2>1. c = 0 => c * k = 0
    OBVIOUS
  <2>2. 0 \div d = 0
    OBVIOUS
  <2>3. QED
    BY <2>1, <2>2
<1>11. SUFFICES ASSUME left + 1 <= m * d PROVE FALSE
  <2> HIDE DEF left
  <2> QED BY <1>2
<1> HIDE DEF left
<1>12. (left + 1) * c <= (m * d) * c
  BY <1>2, <1>11, ProductMonotone
<1>13. (left + 1) * c = c * left + c /\ (m * d) * c = c * (m * d)
  BY <1>2
<1>14. c * left \in Nat /\ c * (m * d) \in Nat
  BY <1>2, ProductType
<1>15. QED
  BY <1>9, <1>10, <1>12, <1>13, <1>14

-----------------------------------------------------------------------------
(* What a plan is. *)

\* The four amounts an action is cut to.
LEMMA AmountTypes ==
  ASSUME GuardTypeOK, NEW r \in Requests, NEW mode \in Modes, NEW s \in Adapters, NEW t \in Adapters
  PROVE  /\ ActionAmount(r, mode, s, t) \in Nat
         /\ ActionAmount(r, mode, s, t) <= SourceHfSafeCap(r, s)
         /\ ActionAmount(r, mode, s, t) <= positions[s].collateral
<1>1. /\ Bps \in Nat \ {0} /\ LiquidationThreshold \in Nat \ {0} /\ Usd \in Nat
      /\ TargetHf \in Nat \ {0} /\ r.early \in Nat /\ ReserveCap \in 0..Bps /\ MaxNotional \in Nat
  BY GuardAssumption DEF Bps, LiquidationThreshold, Usd
<1>2. \A a \in Adapters : /\ prices[Collateral[a]] \in Nat \ {0} /\ prices[Debt[a]] \in Nat \ {0}
                          /\ positions[a].collateral \in Nat /\ positions[a].debt \in Nat
  BY MarketFacts
<1>3. \A a \in Adapters : DebtUsd(a) \in Nat /\ EffectiveUsd(a) \in Nat
  BY <1>2, ProductType, ValueType DEF DebtUsd, EffectiveUsd
<1>4. EstimateNeeded(mode, t) \in Nat
  <2> DEFINE wanted == (TargetHf * DebtUsd(t)) \div Bps
             bearable == (EffectiveUsd(t) * Bps) \div TargetHf
  <2>1. wanted \in Nat /\ bearable \in Nat
    BY <1>1, <1>3, ProductType, DivisionType
  <2>2. EstimateNeeded(mode, t) =
            IF mode = "TOP_UP"
            THEN IF wanted <= EffectiveUsd(t) THEN 0
                 ELSE (((wanted - EffectiveUsd(t)) * Bps) \div LiquidationThreshold)
                      \div prices[Collateral[t]]
            ELSE IF DebtUsd(t) <= bearable THEN 0
                 ELSE (DebtUsd(t) - bearable) \div prices[Debt[t]]
    BY DEF EstimateNeeded
  <2> HIDE DEF wanted, bearable
  <2>3. wanted > EffectiveUsd(t) =>
            (((wanted - EffectiveUsd(t)) * Bps) \div LiquidationThreshold)
                \div prices[Collateral[t]] \in Nat
    <3> SUFFICES ASSUME wanted > EffectiveUsd(t)
                 PROVE  (((wanted - EffectiveUsd(t)) * Bps) \div LiquidationThreshold)
                            \div prices[Collateral[t]] \in Nat
      OBVIOUS
    <3>1. wanted - EffectiveUsd(t) \in Nat
      BY <1>3, <2>1
    <3>2. (wanted - EffectiveUsd(t)) * Bps \in Nat
      BY <1>1, <3>1, ProductType
    <3>3. ((wanted - EffectiveUsd(t)) * Bps) \div LiquidationThreshold \in Nat
      BY <1>1, <3>2, DivisionType
    <3>4. QED
      BY <1>2, <3>3, DivisionType
  <2>4. DebtUsd(t) > bearable => (DebtUsd(t) - bearable) \div prices[Debt[t]] \in Nat
    <3> SUFFICES ASSUME DebtUsd(t) > bearable
                 PROVE  (DebtUsd(t) - bearable) \div prices[Debt[t]] \in Nat
      OBVIOUS
    <3>1. DebtUsd(t) - bearable \in Nat
      BY <1>3, <2>1
    <3>2. QED
      BY <1>2, <3>1, DivisionType
  <2>5. QED
    BY <1>3, <2>1, <2>2, <2>3, <2>4
<1>5. Desired(r, mode, t) \in Nat
  BY <1>4, GuardAssumption DEF Desired
<1>6. SourceHfSafeCap(r, s) \in Nat
  <2> DEFINE floor == (r.early * DebtUsd(s)) \div Bps
             e == EffectiveUsd(s)
  <2>1. floor \in Nat
    BY <1>1, <1>3, ProductType, DivisionType
  <2>2. SourceHfSafeCap(r, s) =
            IF positions[s].debt = 0 THEN positions[s].collateral
            ELSE IF e <= floor THEN 0
            ELSE (((e - floor) * Bps) \div LiquidationThreshold) \div prices[Collateral[s]]
    BY DEF SourceHfSafeCap
  <2> HIDE DEF floor
  <2>3. e > floor => (((e - floor) * Bps) \div LiquidationThreshold) \div prices[Collateral[s]] \in Nat
    <3> SUFFICES ASSUME e > floor
                 PROVE  (((e - floor) * Bps) \div LiquidationThreshold)
                            \div prices[Collateral[s]] \in Nat
      OBVIOUS
    <3>1. e - floor \in Nat
      BY <1>3, <2>1
    <3>2. (e - floor) * Bps \in Nat
      BY <1>1, <3>1, ProductType
    <3>3. ((e - floor) * Bps) \div LiquidationThreshold \in Nat
      BY <1>1, <3>2, DivisionType
    <3>4. QED
      BY <1>2, <3>3, DivisionType
  <2>4. QED
    BY <1>2, <1>3, <2>1, <2>2, <2>3
<1>7. /\ (positions[s].collateral * (Bps - ReserveCap)) \div Bps \in Nat
      /\ (positions[s].collateral * (Bps - ReserveCap)) \div Bps <= positions[s].collateral
  <2> DEFINE c == positions[s].collateral
             k == Bps - ReserveCap
             n == c * k
             q == n \div Bps
  <2>1. c \in Nat /\ k \in Nat /\ k <= Bps
    BY <1>1, <1>2
  <2> HIDE DEF c, k
  <2>2. n \in Nat /\ k * c <= Bps * c /\ n = k * c /\ Bps * c \in Nat
    BY <1>1, <2>1, ProductType, ProductMonotone
  <2>3. q \in Nat /\ q * Bps <= n
    <3> HIDE DEF n
    <3> QED BY <1>1, <2>2, DivisionType, DivisionRoundsDown
  <2> HIDE DEF n, q
  <2>4. q <= c
    <3>1. Bps * c = c * 10000 /\ q * Bps = q * 10000
      BY <2>1, <2>3 DEF Bps
    <3>2. QED
      BY <2>1, <2>2, <2>3, <3>1
  <2>5. QED
    BY <2>3, <2>4 DEF q, n, c, k
<1>8. (MaxNotional * Usd) \div prices[Collateral[s]] \in Nat
  BY <1>1, <1>2, ProductType, DivisionType
<1>9. QED
  <2> DEFINE a == Desired(r, mode, t)
             b == (positions[s].collateral * (Bps - ReserveCap)) \div Bps
             c == SourceHfSafeCap(r, s)
             d == (MaxNotional * Usd) \div prices[Collateral[s]]
  <2>1. ActionAmount(r, mode, s, t) = Min({a, b, c, d})
    BY DEF ActionAmount
  <2>2. a \in Nat /\ b \in Nat /\ c \in Nat /\ d \in Nat /\ b <= positions[s].collateral
    BY <1>5, <1>6, <1>7, <1>8
  <2> HIDE DEF a, b, d
  <2>3. LET m == Min({a, b, c, d}) IN m \in Nat /\ m <= a /\ m <= b /\ m <= c /\ m <= d
    BY <2>2, MinOfFour
  <2>4. QED
    BY <1>2, <2>1, <2>2, <2>3

\* The target is a position with debt, and the source one of the pool.
LEMMA TargetChosen ==
  ASSUME GuardTypeOK, NEW r \in Requests, NEW seen \in SUBSET Adapters, NEW penalty,
         AtRisk(r, seen, penalty)
  PROVE  ChooseTarget(r, seen) \in Adapters
<1> DEFINE debtBearing == {a \in seen : positions[a].debt > 0}
           named == debtBearing \cap {r.target}
           among == IF named # {} THEN named ELSE debtBearing
           R == {x \in among \X among :
                   \/ EngineHf(x[1]) < EngineHf(x[2])
                   \/ EngineHf(x[1]) = EngineHf(x[2]) /\ x[1] <= x[2]}
<1>1. among \subseteq Adapters /\ among # {}
  <2>1. PICK a \in seen : DebtUsd(a) > 0
    BY DEF AtRisk
  <2>2. positions[a].debt > 0
    <3>1. positions[a].debt \in Nat /\ prices[Debt[a]] \in Nat
      BY MarketFacts
    <3>2. positions[a].debt = 0 => DebtUsd(a) = 0
      BY <3>1 DEF DebtUsd
    <3>3. QED
      BY <2>1, <3>1, <3>2
  <2>3. QED
    BY <2>1, <2>2
<1>2. IsFiniteSet(among) /\ \A a \in among : a \in Nat /\ EngineHf(a) \in Nat
  BY <1>1, GuardAssumption, FS_Subset, EngineHfType
<1> HIDE DEF among
<1>3. \E m \in among : \A a \in among : <<m, a>> \in R
  <2>1. \A a, b \in among :
            <<a, b>> \in R <=> \/ EngineHf(a) < EngineHf(b)
                               \/ EngineHf(a) = EngineHf(b) /\ a <= b
    OBVIOUS
  <2> HIDE DEF R
  <2>2. \A a, b \in among : <<a, b>> \in R \/ <<b, a>> \in R
    <3> SUFFICES ASSUME NEW a \in among, NEW b \in among
                 PROVE  <<a, b>> \in R \/ <<b, a>> \in R
      OBVIOUS
    <3>1. a \in Nat /\ b \in Nat /\ EngineHf(a) \in Nat /\ EngineHf(b) \in Nat
      BY <1>2
    <3>2. QED
      BY <2>1, <3>1
  <2>3. \A a, b, c \in among : <<a, b>> \in R /\ <<b, c>> \in R => <<a, c>> \in R
    <3> SUFFICES ASSUME NEW a \in among, NEW b \in among, NEW c \in among,
                        <<a, b>> \in R, <<b, c>> \in R
                 PROVE  <<a, c>> \in R
      OBVIOUS
    <3>1. /\ a \in Nat /\ b \in Nat /\ c \in Nat
          /\ EngineHf(a) \in Nat /\ EngineHf(b) \in Nat /\ EngineHf(c) \in Nat
      BY <1>2
    <3>2. QED
      BY <2>1, <3>1
  <2>4. QED
    BY <1>1, <1>2, <2>2, <2>3, FiniteHasLeast
<1>4. \E m \in among : \A a \in among : \/ EngineHf(m) < EngineHf(a)
                                        \/ EngineHf(m) = EngineHf(a) /\ m <= a
  BY <1>3
<1> DEFINE chosen == CHOOSE m \in among : \A a \in among : \/ EngineHf(m) < EngineHf(a)
                                                           \/ EngineHf(m) = EngineHf(a) /\ m <= a
<1>5. chosen \in among
  BY <1>4, Zenon
<1>6. ChooseTarget(r, seen) = chosen
  BY Zenon DEF ChooseTarget, among
<1>7. QED
  BY <1>1, <1>5, <1>6

LEMMA SourceChosen ==
  ASSUME GuardTypeOK, NEW pool \in SUBSET Adapters, pool # {}
  PROVE  HighestCollateral(pool) \in pool
<1> DEFINE R == {x \in pool \X pool :
                   \/ positions[x[1]].collateral > positions[x[2]].collateral
                   \/ positions[x[1]].collateral = positions[x[2]].collateral /\ x[1] <= x[2]}
<1>1. IsFiniteSet(pool) /\ \A s \in pool : s \in Nat /\ positions[s].collateral \in Nat
  BY GuardAssumption, FS_Subset, MarketFacts
<1>2. \E m \in pool : \A s \in pool : <<m, s>> \in R
  <2>1. \A a, b \in pool :
            <<a, b>> \in R <=> \/ positions[a].collateral > positions[b].collateral
                               \/ positions[a].collateral = positions[b].collateral /\ a <= b
    OBVIOUS
  <2> HIDE DEF R
  <2>2. \A a, b \in pool : <<a, b>> \in R \/ <<b, a>> \in R
    <3> SUFFICES ASSUME NEW a \in pool, NEW b \in pool
                 PROVE  <<a, b>> \in R \/ <<b, a>> \in R
      OBVIOUS
    <3>1. /\ a \in Nat /\ b \in Nat
          /\ positions[a].collateral \in Nat /\ positions[b].collateral \in Nat
      BY <1>1
    <3>2. QED
      BY <2>1, <3>1
  <2>3. \A a, b, c \in pool : <<a, b>> \in R /\ <<b, c>> \in R => <<a, c>> \in R
    <3> SUFFICES ASSUME NEW a \in pool, NEW b \in pool, NEW c \in pool,
                        <<a, b>> \in R, <<b, c>> \in R
                 PROVE  <<a, c>> \in R
      OBVIOUS
    <3>1. /\ a \in Nat /\ b \in Nat /\ c \in Nat /\ positions[a].collateral \in Nat
          /\ positions[b].collateral \in Nat /\ positions[c].collateral \in Nat
      BY <1>1
    <3>2. QED
      BY <2>1, <3>1
  <2>4. QED
    BY <1>1, <2>2, <2>3, FiniteHasLeast
<1>3. \E m \in pool : \A s \in pool :
          \/ positions[m].collateral > positions[s].collateral
          \/ positions[m].collateral = positions[s].collateral /\ m <= s
  BY <1>2
<1>4. QED
  BY <1>3, Zenon DEF HighestCollateral

\* What a run plans, of all it read and decided.
Planned(plan, r) ==
    /\ plan \in Plan
    /\ plan.floor = r.early
    /\ plan.amount <= positions[plan.source].collateral
    /\ plan.amount <= SourceHfSafeCap(r, plan.source)

LEMMA PlanMade ==
  ASSUME GuardTypeOK, NEW w \in Workflows, NEW r \in Requests, NEW readable \in SUBSET Adapters,
         NEW penalty, NEW readsPending, MakePlan(w, r, readable, penalty, readsPending)
  PROVE  \E plan : Planned(plan, r) /\ SetWorkflow(w, "planned", plan)
<1> DEFINE seen == Snapshot(readable)
           chosen == ChooseTarget(r, seen)
           pool == SourcePool(r, seen, chosen)
           source == HighestCollateral(pool)
           mode == InferRescueMode(source, chosen)
           exec == ExecId(r, mode)
           amount == ActionAmount(r, mode, source, chosen)
           target == IF r.target # NoAdapter THEN r.target ELSE chosen
           plan == [exec |-> exec, mode |-> mode, source |-> source, target |-> target,
                    amount |-> amount, cross |-> chosen \notin Home, floor |-> r.early]
<1>1. /\ AtRisk(r, seen, penalty) /\ pool # {} /\ amount > 0
      /\ SetWorkflow(w, "planned", plan)
  BY DEF MakePlan
<1>2. seen \in SUBSET Adapters
  BY DEF Snapshot
<1>3. chosen \in Adapters
  <2> HIDE DEF seen
  <2> QED BY <1>1, <1>2, TargetChosen
<1>4. pool \subseteq seen /\ \A s \in pool : InferRescueMode(s, chosen) # "none"
  BY DEF SourcePool
<1> HIDE DEF seen
<1>5. source \in pool /\ source \in Adapters
  <2> HIDE DEF pool
  <2> QED BY <1>1, <1>2, <1>4, SourceChosen
<1>6. mode \in Modes
  <2> HIDE DEF pool, source, chosen
  <2>1. InferRescueMode(source, chosen) # "none"
    BY <1>4, <1>5
  <2>2. QED
    BY <2>1 DEF InferRescueMode, Modes
<1>7. exec \in ExecIds
  <2> HIDE DEF mode
  <2>1. minute \in 0..MaxMinute
    BY DEF GuardTypeOK
  <2>2. QED
    BY <1>6, <2>1 DEF ExecId, ExecIds
<1>8. target \in Adapters
  <2> HIDE DEF chosen
  <2> QED BY <1>3, GuardAssumption
<1>9. /\ amount \in Nat /\ amount <= SourceHfSafeCap(r, source)
      /\ amount <= positions[source].collateral
  <2> HIDE DEF source, chosen, mode
  <2> QED BY <1>3, <1>5, <1>6, AmountTypes
<1>10. r.early \in Nat /\ (chosen \notin Home) \in BOOLEAN
  BY GuardAssumption
<1>11. Planned(plan, r)
  <2> HIDE DEF exec, mode, source, target, amount, chosen
  <2>1. plan \in Plan
    BY <1>1, <1>5, <1>6, <1>7, <1>8, <1>9, <1>10 DEF Plan
  <2>2. plan.floor = r.early /\ plan.amount = amount /\ plan.source = source
    OBVIOUS
  <2> HIDE DEF plan
  <2>3. QED
    BY <1>9, <2>1, <2>2 DEF Planned
<1>12. QED
  <2> HIDE DEF plan
  <2> QED BY <1>1, <1>11

-----------------------------------------------------------------------------
(* The inductive invariant. *)

\* A run that planned has a plan; an idle one has none.
PlansMade == \A w \in Workflows : workflows[w].pc # "idle" => workflows[w].plan \in Plan

\* A message that was sent has its target.
MessagesAddressed == \A e \in ExecIds : message[e].state # "none" => message[e].target \in Adapters

GuardInv == GuardTypeOK /\ PlansMade /\ MessagesAddressed

LEMMA SetWorkflowKeeps ==
  ASSUME GuardInv, NEW w \in Workflows, NEW pc \in {"idle", "planned", "submitted"}, NEW plan,
         plan \in Plan \/ (pc = "idle" /\ plan = NoPlan), SetWorkflow(w, pc, plan)
  PROVE  /\ workflows' \in [Workflows -> [pc : {"idle", "planned", "submitted"},
                                          plan : Plan \cup {NoPlan}]]
         /\ PlansMade'
         /\ workflows'[w] = [pc |-> pc, plan |-> plan]
         /\ \A v \in Workflows \ {w} : workflows'[v] = workflows[v]
<1> DEFINE new == [pc |-> pc, plan |-> plan]
<1>1. workflows \in [Workflows -> [pc : {"idle", "planned", "submitted"},
                                   plan : Plan \cup {NoPlan}]]
  BY DEF GuardInv, GuardTypeOK
<1>2. /\ new \in [pc : {"idle", "planned", "submitted"}, plan : Plan \cup {NoPlan}]
      /\ new.pc # "idle" => new.plan \in Plan
  OBVIOUS
<1> HIDE DEF new
<1>3. workflows' = [workflows EXCEPT ![w] = new]
  BY DEF SetWorkflow, new
<1>4. /\ workflows'[w] = new
      /\ \A v \in Workflows \ {w} : workflows'[v] = workflows[v]
      /\ workflows' \in [Workflows -> [pc : {"idle", "planned", "submitted"},
                                       plan : Plan \cup {NoPlan}]]
  BY <1>1, <1>2, <1>3
<1>5. PlansMade'
  <2> SUFFICES ASSUME NEW v \in Workflows, workflows'[v].pc # "idle"
               PROVE  workflows'[v].plan \in Plan
    BY DEF PlansMade
  <2>1. CASE v = w
    BY <1>2, <1>4, <2>1
  <2>2. CASE v # w
    BY <1>4, <2>2 DEF GuardInv, PlansMade
  <2>3. QED
    BY <2>1, <2>2
<1>6. QED
  BY <1>4, <1>5 DEF new

\* The target's action keeps a position a position: it adds collateral or cuts
\* the debt, never below zero.
LEMMA AppliedType ==
  ASSUME NEW p \in Position, NEW mode, NEW amount \in Nat
  PROVE  /\ Applied(p, mode, amount) \in Position /\ Excess(p, mode, amount) \in Nat
         /\ Applied(p, mode, amount).collateral >= p.collateral
         /\ Applied(p, mode, amount).debt <= p.debt
<1> DEFINE m == Min({amount, p.debt})
<1>1. p.collateral \in Nat /\ p.debt \in Nat
  BY DEF Position
<1>2. m \in Nat /\ m <= amount /\ m <= p.debt
  BY <1>1, MinOfTwo
<1> HIDE DEF m
<1>3. CASE mode = "TOP_UP"
  BY <1>1, <1>3 DEF Applied, Excess, Position
<1>4. CASE mode # "TOP_UP"
  <2>1. Applied(p, mode, amount) = [collateral |-> p.collateral, debt |-> p.debt - m]
    BY <1>4 DEF Applied, m
  <2>2. Excess(p, mode, amount) = amount - m
    BY <1>4 DEF Excess, m
  <2>3. QED
    BY <1>1, <1>2, <2>1, <2>2 DEF Position
<1>5. QED
  BY <1>3, <1>4

LEMMA WithdrawnType ==
  ASSUME NEW p \in Position, NEW amount \in Nat, amount <= p.collateral
  PROVE  Withdrawn(p, amount) \in Position
BY DEF Withdrawn, Position

\* What Submit leaves of its source: at least what it did not withdraw.
LEMMA SubmitMoves ==
  ASSUME GuardInv, NEW w \in Workflows, Submit(w)
  PROVE  LET plan == workflows[w].plan s == plan.source x == Granted(plan)
         IN  /\ plan \in Plan /\ x \in Nat \ {0}
             /\ positions' \in [Adapters -> Position]
             /\ kept' \in [Adapters -> Nat]
             /\ message' \in [ExecIds -> Message] /\ MessagesAddressed'
             /\ positions'[s].collateral >= positions[s].collateral - x
             /\ positions'[s].debt <= positions[s].debt
<1> DEFINE plan == workflows[w].plan
           s == plan.source
           t == plan.target
           x == Granted(plan)
           before == positions[s]
           withdrawn == [positions EXCEPT ![s] = Withdrawn(@, x)]
<1>1. plan \in Plan /\ x > 0 /\ (SameChainStep(plan, x) \/ CrossChainStep(plan, x))
  BY DEF Submit, GuardInv, PlansMade
<1>2. /\ s \in Adapters /\ t \in Adapters /\ plan.exec \in ExecIds /\ plan.mode \in Modes
  BY <1>1 DEF Plan
<1>3. /\ positions \in [Adapters -> Position] /\ kept \in [Adapters -> Nat]
      /\ message \in [ExecIds -> Message] /\ MessagesAddressed
  BY DEF GuardInv, GuardTypeOK
<1> HIDE DEF plan
<1>4. x \in Nat /\ x <= positions[s].collateral
  BY <1>1, GrantedBound DEF GuardInv
<1> HIDE DEF x, s, t
<1>5. before \in Position /\ Withdrawn(before, x) \in Position
  BY <1>2, <1>3, <1>4, WithdrawnType
<1>6. /\ before.collateral \in Nat /\ before.debt \in Nat
      /\ Withdrawn(before, x).collateral = before.collateral - x
      /\ Withdrawn(before, x).debt = before.debt
  BY <1>5 DEF Withdrawn, Position
<1>7. /\ withdrawn \in [Adapters -> Position] /\ withdrawn[s] = Withdrawn(before, x)
      /\ \A a \in Adapters \ {s} : withdrawn[a] = positions[a]
  BY <1>2, <1>3, <1>5
<1> HIDE DEF before, withdrawn
<1>8. /\ positions' \in [Adapters -> Position] /\ kept' \in [Adapters -> Nat]
      /\ message' \in [ExecIds -> Message] /\ MessagesAddressed'
      /\ positions'[s].collateral >= before.collateral - x /\ positions'[s].debt <= before.debt
  <2>1. CASE SameChainStep(plan, x)
    <3> DEFINE after == Applied(withdrawn[t], plan.mode, x)
               extra == Excess(withdrawn[t], plan.mode, x)
    <3>1. /\ positions' = [withdrawn EXCEPT ![t] = after]
          /\ kept' = [kept EXCEPT ![t] = @ + extra]
          /\ message' = message
      BY <2>1 DEF SameChainStep, withdrawn, s, t
    <3>2. /\ after \in Position /\ extra \in Nat
          /\ after.collateral >= withdrawn[t].collateral /\ after.debt <= withdrawn[t].debt
      BY <1>2, <1>4, <1>7, AppliedType
    <3> HIDE DEF after, extra
    <3>3. positions' \in [Adapters -> Position] /\ kept' \in [Adapters -> Nat]
      BY <1>2, <1>3, <1>7, <3>1, <3>2
    <3>4. message' \in [ExecIds -> Message] /\ MessagesAddressed'
      BY <1>3, <3>1 DEF MessagesAddressed
    <3>5. positions'[s].collateral >= before.collateral - x /\ positions'[s].debt <= before.debt
      <4>1. CASE t = s
        <5>1. positions'[s] = after
          BY <1>2, <1>7, <3>1, <4>1
        <5>2. after.collateral >= before.collateral - x /\ after.debt <= before.debt
          BY <1>6, <1>7, <3>2, <4>1
        <5>3. QED
          BY <5>1, <5>2
      <4>2. CASE t # s
        <5>1. positions'[s] = Withdrawn(before, x)
          BY <1>2, <1>7, <3>1, <4>2
        <5>2. QED
          BY <1>4, <1>6, <5>1
      <4>3. QED
        BY <4>1, <4>2
    <3>6. QED
      BY <3>3, <3>4, <3>5
  <2>2. CASE CrossChainStep(plan, x)
    <3> DEFINE m == [state |-> "in flight", mode |-> plan.mode, target |-> t,
                     asset |-> Collateral[s], amount |-> x]
    <3>1. positions' = withdrawn /\ kept' = kept /\ message' = [message EXCEPT ![plan.exec] = m]
      BY <2>2 DEF CrossChainStep, withdrawn, s, t
    <3>2. m \in Message /\ m.target \in Adapters
      BY <1>2, <1>4 DEF Message, Assets
    <3> HIDE DEF m
    <3>3. message' \in [ExecIds -> Message] /\ MessagesAddressed'
      BY <1>2, <1>3, <3>1, <3>2 DEF MessagesAddressed
    <3>4. positions'[s].collateral >= before.collateral - x /\ positions'[s].debt <= before.debt
      BY <1>4, <1>6, <1>7, <3>1
    <3>5. QED
      BY <1>3, <1>7, <3>1, <3>3, <3>4
  <2>3. QED
    BY <1>1, <2>1, <2>2
<1>9. QED
  BY <1>1, <1>4, <1>8 DEF before, x, s, plan

LEMMA DeliverKeeps ==
  ASSUME GuardInv, NEW e \in ExecIds, NEW works, Deliver(e, works)
  PROVE  /\ positions' \in [Adapters -> Position] /\ kept' \in [Adapters -> Nat]
         /\ message' \in [ExecIds -> Message] /\ MessagesAddressed'
<1> DEFINE m == message[e]
           t == m.target
           succeeds == works /\ t \notin Home /\ TargetAccepts(m.mode, m.asset, t)
           final == IF succeeds THEN "delivered" ELSE "failed"
           new == [m EXCEPT !.state = final]
           after == Applied(positions[t], m.mode, m.amount)
           extra == Excess(positions[t], m.mode, m.amount)
<1>1. /\ positions \in [Adapters -> Position] /\ kept \in [Adapters -> Nat]
      /\ message \in [ExecIds -> Message] /\ MessagesAddressed
  BY DEF GuardInv, GuardTypeOK
<1>2. /\ m.state = "in flight"
      /\ message' = [message EXCEPT ![e] = new]
      /\ \/ /\ positions' = [positions EXCEPT ![t] = after]
            /\ kept' = [kept EXCEPT ![t] = @ + extra]
         \/ positions' = positions /\ kept' = kept
  BY DEF Deliver
<1>3. m \in Message /\ t \in Adapters /\ m.amount \in Nat
  BY <1>1, <1>2 DEF MessagesAddressed, Message
<1>4. new \in Message /\ new.target = t
  <2>1. final \in {"none", "in flight", "delivered", "failed"}
    OBVIOUS
  <2> HIDE DEF final, m
  <2>2. QED
    BY <1>3, <2>1 DEF Message
<1>5. after \in Position /\ extra \in Nat
  <2> HIDE DEF m, t
  <2> QED BY <1>1, <1>3, AppliedType
<1> HIDE DEF new, after, extra, t, m
<1>6. message' \in [ExecIds -> Message] /\ MessagesAddressed'
  BY <1>1, <1>2, <1>3, <1>4 DEF MessagesAddressed
<1>7. positions' \in [Adapters -> Position] /\ kept' \in [Adapters -> Nat]
  <2>1. CASE /\ positions' = [positions EXCEPT ![t] = after]
             /\ kept' = [kept EXCEPT ![t] = @ + extra]
    <3>1. positions' \in [Adapters -> Position]
      BY <1>1, <1>5, <2>1
    <3>2. kept[t] + extra \in Nat /\ kept' = [kept EXCEPT ![t] = kept[t] + extra]
      BY <1>1, <1>3, <1>5, <2>1
    <3>3. kept' \in [Adapters -> Nat]
      BY <1>1, <1>3, <3>2
    <3>4. QED
      BY <3>1, <3>3
  <2>2. CASE positions' = positions /\ kept' = kept
    BY <1>1, <2>2
  <2>3. QED
    BY <1>2, <2>1, <2>2
<1>8. QED
  BY <1>6, <1>7

LEMMA GuardInit == Init => GuardInv
<1> SUFFICES ASSUME Init PROVE GuardInv
  OBVIOUS
<1>1. positions \in [Adapters -> Position] /\ prices \in PriceVectors
  BY MarketAssumption DEF Init
<1>2. minute \in 0..MaxMinute /\ moves \in 0..MaxMoves /\ runs \in [ExecIds -> Nat]
      /\ kept \in [Adapters -> Nat]
      /\ reported \in [ExecIds -> SUBSET {"DELIVERED_SUCCESS", "DELIVERED_FAILED"}]
  BY GuardAssumption DEF Init
<1>3. NoMessage \in Message /\ NoMessage.state = "none"
  BY DEF NoMessage, Message
<1>4. /\ IdleWorkflow \in [pc : {"idle", "planned", "submitted"}, plan : Plan \cup {NoPlan}]
      /\ IdleWorkflow.pc = "idle"
  BY DEF IdleWorkflow
<1>5. message \in [ExecIds -> Message] /\ MessagesAddressed
  BY <1>3 DEF Init, MessagesAddressed
<1>6. /\ workflows \in [Workflows -> [pc : {"idle", "planned", "submitted"},
                                      plan : Plan \cup {NoPlan}]]
      /\ PlansMade
  BY <1>4 DEF Init, PlansMade
<1>7. QED
  BY <1>1, <1>2, <1>5, <1>6 DEF GuardInv, GuardTypeOK

LEMMA GuardStep == GuardInv /\ [Next]_guardVars => GuardInv'
<1> SUFFICES ASSUME GuardInv, [Next]_guardVars PROVE GuardInv'
  OBVIOUS
<1>1. /\ positions \in [Adapters -> Position] /\ prices \in PriceVectors
      /\ minute \in 0..MaxMinute /\ runs \in [ExecIds -> Nat]
      /\ message \in [ExecIds -> Message] /\ kept \in [Adapters -> Nat]
      /\ workflows \in [Workflows -> [pc : {"idle", "planned", "submitted"},
                                      plan : Plan \cup {NoPlan}]]
      /\ reported \in [ExecIds -> SUBSET {"DELIVERED_SUCCESS", "DELIVERED_FAILED"}]
      /\ moves \in 0..MaxMoves /\ PlansMade /\ MessagesAddressed
  BY DEF GuardInv, GuardTypeOK
<1>2. ASSUME NEW w \in Workflows, NEW r \in Requests, NEW readable \in SUBSET Adapters,
             NEW penalty \in Penalties, NEW readsPending \in BOOLEAN,
             MakePlan(w, r, readable, penalty, readsPending)
      PROVE  GuardInv'
  <2>1. PICK plan : Planned(plan, r) /\ SetWorkflow(w, "planned", plan)
    BY <1>2, PlanMade DEF GuardInv
  <2>2. /\ workflows' \in [Workflows -> [pc : {"idle", "planned", "submitted"},
                                         plan : Plan \cup {NoPlan}]]
        /\ PlansMade'
    BY <2>1, SetWorkflowKeeps DEF Planned
  <2>3. UNCHANGED <<positions, prices, minute, runs, message, kept, reported, moves>>
    BY <1>2 DEF MakePlan
  <2>4. QED
    BY <1>1, <2>2, <2>3 DEF GuardInv, GuardTypeOK, MessagesAddressed
<1>3. ASSUME NEW w \in Workflows, Submit(w) PROVE GuardInv'
  <2> DEFINE plan == workflows[w].plan
  <2>1. /\ plan \in Plan /\ positions' \in [Adapters -> Position] /\ kept' \in [Adapters -> Nat]
        /\ message' \in [ExecIds -> Message] /\ MessagesAddressed'
    BY <1>3, SubmitMoves
  <2>2. /\ runs' = [runs EXCEPT ![plan.exec] = @ + 1] /\ SetWorkflow(w, "submitted", plan)
        /\ UNCHANGED <<prices, minute, reported, moves>>
    BY <1>3 DEF Submit
  <2> HIDE DEF plan
  <2>3. /\ workflows' \in [Workflows -> [pc : {"idle", "planned", "submitted"},
                                         plan : Plan \cup {NoPlan}]]
        /\ PlansMade'
    BY <2>1, <2>2, SetWorkflowKeeps
  <2>4. runs' \in [ExecIds -> Nat]
    BY <1>1, <2>1, <2>2 DEF Plan
  <2>5. QED
    BY <1>1, <2>1, <2>2, <2>3, <2>4 DEF GuardInv, GuardTypeOK
<1>4. ASSUME NEW w \in Workflows, SubmitUndone(w) PROVE GuardInv'
  <2> DEFINE plan == workflows[w].plan
  <2>1. /\ plan \in Plan /\ SetWorkflow(w, "submitted", plan)
        /\ UNCHANGED <<positions, prices, minute, runs, message, kept, reported, moves>>
    BY <1>1, <1>4 DEF SubmitUndone, PlansMade
  <2> HIDE DEF plan
  <2>2. /\ workflows' \in [Workflows -> [pc : {"idle", "planned", "submitted"},
                                         plan : Plan \cup {NoPlan}]]
        /\ PlansMade'
    BY <2>1, SetWorkflowKeeps
  <2>3. QED
    BY <1>1, <2>1, <2>2 DEF GuardInv, GuardTypeOK, MessagesAddressed
<1>5. ASSUME NEW w \in Workflows, WorkflowEnds(w) PROVE GuardInv'
  <2>1. /\ SetWorkflow(w, "idle", NoPlan)
        /\ UNCHANGED <<positions, prices, minute, runs, message, kept, reported, moves>>
    BY <1>5 DEF WorkflowEnds
  <2>2. /\ workflows' \in [Workflows -> [pc : {"idle", "planned", "submitted"},
                                         plan : Plan \cup {NoPlan}]]
        /\ PlansMade'
    BY <2>1, SetWorkflowKeeps
  <2>3. QED
    BY <1>1, <2>1, <2>2 DEF GuardInv, GuardTypeOK, MessagesAddressed
<1>6. ASSUME NEW w \in Workflows, NEW readsMessage \in BOOLEAN, NEW readsStatus \in BOOLEAN,
             ReadSettlement(w, readsMessage, readsStatus)
      PROVE  GuardInv'
  <2> DEFINE plan == workflows[w].plan
             seen == Settlement(plan, readsMessage, readsStatus)
  <2>1. /\ SetWorkflow(w, "idle", NoPlan) /\ reported' = [reported EXCEPT ![plan.exec] = @ \cup seen]
        /\ UNCHANGED <<positions, prices, minute, runs, message, kept, moves>>
    BY <1>6 DEF ReadSettlement
  <2>2. seen \in SUBSET {"DELIVERED_SUCCESS", "DELIVERED_FAILED"}
    BY DEF Settlement
  <2>3. /\ workflows' \in [Workflows -> [pc : {"idle", "planned", "submitted"},
                                         plan : Plan \cup {NoPlan}]]
        /\ PlansMade'
    BY <2>1, SetWorkflowKeeps
  <2> HIDE DEF plan, seen
  <2>4. reported' \in [ExecIds -> SUBSET {"DELIVERED_SUCCESS", "DELIVERED_FAILED"}]
    BY <1>1, <2>1, <2>2
  <2>5. QED
    BY <1>1, <2>1, <2>3, <2>4 DEF GuardInv, GuardTypeOK, MessagesAddressed
<1>7. ASSUME NEW e \in ExecIds, NEW works \in BOOLEAN, Deliver(e, works) PROVE GuardInv'
  <2>1. /\ positions' \in [Adapters -> Position] /\ kept' \in [Adapters -> Nat]
        /\ message' \in [ExecIds -> Message] /\ MessagesAddressed'
    BY <1>7, DeliverKeeps
  <2>2. UNCHANGED <<prices, minute, runs, workflows, reported, moves>>
    BY <1>7 DEF Deliver
  <2>3. QED
    BY <1>1, <2>1, <2>2 DEF GuardInv, GuardTypeOK, PlansMade
<1>8. ASSUME NEW e \in ExecIds, Reconcile(e) PROVE GuardInv'
  <2>1. PICK s \in {"DELIVERED_SUCCESS", "DELIVERED_FAILED"} :
            reported' = [reported EXCEPT ![e] = @ \cup {s}]
    BY <1>8 DEF Reconcile
  <2>2. UNCHANGED <<positions, prices, minute, runs, message, kept, workflows, moves>>
    BY <1>8 DEF Reconcile
  <2>3. reported' \in [ExecIds -> SUBSET {"DELIVERED_SUCCESS", "DELIVERED_FAILED"}]
    BY <1>1, <2>1
  <2>4. QED
    BY <1>1, <2>2, <2>3 DEF GuardInv, GuardTypeOK, PlansMade, MessagesAddressed
<1>9. CASE PricesMove
  BY <1>1, <1>9, GuardAssumption
     DEF PricesMove, GuardInv, GuardTypeOK, PlansMade, MessagesAddressed
<1>10. CASE ClockTicks
  BY <1>1, <1>10, GuardAssumption
     DEF ClockTicks, GuardInv, GuardTypeOK, PlansMade, MessagesAddressed
<1>11. ASSUME NEW a \in Adapters, UserActs(a) PROVE GuardInv'
  <2>1. PICK p \in UserPositions[a] : positions' = [positions EXCEPT ![a] = p]
    BY <1>11 DEF UserActs
  <2>2. /\ moves < MaxMoves /\ moves' = moves + 1
        /\ UNCHANGED <<prices, minute, runs, message, kept, workflows, reported>>
    BY <1>11 DEF UserActs
  <2>3. p \in Position
    BY <2>1, MarketAssumption
  <2>4. positions' \in [Adapters -> Position] /\ moves' \in 0..MaxMoves
    BY <1>1, <2>1, <2>2, <2>3, GuardAssumption
  <2>5. QED
    BY <1>1, <2>2, <2>4 DEF GuardInv, GuardTypeOK, PlansMade, MessagesAddressed
<1>12. CASE UNCHANGED guardVars
  BY <1>1, <1>12 DEF guardVars, GuardInv, GuardTypeOK, PlansMade, MessagesAddressed
<1>13. QED
  BY <1>2, <1>3, <1>4, <1>5, <1>6, <1>7, <1>8, <1>9, <1>10, <1>11, <1>12 DEF Next

LEMMA GuardInvariant == GuardSpec => []GuardInv
<1>1. Init => GuardInv
  BY GuardInit
<1>2. GuardInv /\ [Next]_guardVars => GuardInv'
  BY GuardStep
<1>3. QED
  BY <1>1, <1>2, PTL DEF GuardSpec

\* Positions, prices, messages, plans and reports keep their types in every
\* reachable state: in particular no withdrawal exceeds the collateral and no
\* repayment the debt, whatever happened between a plan and its report.
THEOREM GuardTypeCorrect == GuardSpec => []GuardTypeOK
<1>1. GuardInv => GuardTypeOK
  BY DEF GuardInv
<1>2. QED
  BY <1>1, GuardInvariant, PTL

\* A position that loses no more than the source's available collateral keeps
\* the margin of its adapter.
LEMMA MarginKept ==
  ASSUME GuardTypeOK, NEW s \in Adapters, positions[s].debt > 0, NEW x \in Nat \ {0},
         x <= Available(s), NEW c \in Nat, NEW d \in Nat,
         c >= positions[s].collateral - x, d <= positions[s].debt
  PROVE  HealthFactor(s, c, d) >= Margin[s]
<1> DEFINE c0 == positions[s].collateral
           d0 == positions[s].debt
           hf == EngineHf(s)
           m == Margin[s]
           p == prices[Collateral[s]]
           k == p * LiquidationThreshold
<1>1. /\ c0 \in Nat /\ d0 \in Nat \ {0} /\ p \in Nat /\ m \in Nat /\ m <= NoDebtHf /\ hf \in Nat
      /\ LiquidationThreshold \in Nat /\ Usd \in Nat \ {0}
  BY MarketFacts, EngineHfType DEF LiquidationThreshold, Usd
<1>2. CASE d = 0
  BY <1>1, <1>2, HealthFactorType, NoDebtHfType
<1>3. CASE d > 0
  <2>1. Available(s) \in Nat /\ Available(s) <= c0 /\ Available(s) > 0
    BY AvailableType
  <2>2. m < hf /\ x <= c0 /\ x <= (c0 * (hf - m)) \div hf
    BY <1>1, <2>1, AvailableType
  <2>3. /\ hf = (Value(s, c0) * LiquidationThreshold) \div (d0 * Usd)
        /\ d0 * Usd \in Nat \ {0} /\ Value(s, c0) = c0 * p
    <3>1. hf = HealthFactor(s, c0, d0)
      BY DEF EngineHf
    <3> HIDE DEF c0, d0, hf, p
    <3>2. d0 \in Nat /\ d0 > 0 /\ c0 \in Nat
      BY <1>1
    <3>3. /\ HealthFactor(s, c0, d0) = (Value(s, c0) * LiquidationThreshold) \div (d0 * Usd)
          /\ d0 * Usd \in Nat \ {0}
      BY <3>2, HealthFactorType
    <3>4. Value(s, c0) = c0 * p
      BY <3>2, ValueType DEF p
    <3>5. QED
      BY <3>1, <3>3, <3>4
  <2>4. /\ HealthFactor(s, c, d) = (Value(s, c) * LiquidationThreshold) \div (d * Usd)
        /\ d * Usd \in Nat \ {0} /\ Value(s, c) = c * p
    BY <1>3, HealthFactorType, ValueType
  <2> HIDE DEF c0, d0, hf, m, p
  <2>5. \A n \in Nat : (n * p) * LiquidationThreshold = n * k
    <3> SUFFICES ASSUME NEW n \in Nat PROVE (n * p) * LiquidationThreshold = n * k
      OBVIOUS
    <3>1. p \in Nat /\ LiquidationThreshold \in Nat
      BY <1>1
    <3>2. (n * p) * LiquidationThreshold = n * (p * LiquidationThreshold)
      BY <3>1, ProductAssociates
    <3>3. QED
      BY <3>2 DEF k
  <2>6. k \in Nat
    BY <1>1, ProductType
  <2> HIDE DEF k
  <2>7. hf = (c0 * k) \div (d0 * Usd)
    BY <1>1, <2>3, <2>5
  <2>8. m * (d0 * Usd) <= (c0 - x) * k
    <3> DEFINE dd == d0 * Usd
    <3>1. dd \in Nat \ {0} /\ hf = (c0 * k) \div dd
      BY <2>3, <2>7
    <3> HIDE DEF dd
    <3>2. m * dd <= (c0 - x) * k
      BY <1>1, <2>2, <2>6, <3>1, ShareKeepsMargin
    <3>3. QED
      BY <3>2 DEF dd
  <2>9. m * (d * Usd) <= m * (d0 * Usd)
    <3>1. d <= d0 /\ d \in Nat
      BY DEF d0
    <3>2. d * Usd \in Nat /\ d0 * Usd \in Nat /\ d * Usd <= d0 * Usd
      BY <1>1, <3>1, ProductType, ProductMonotone
    <3>3. (d * Usd) * m <= (d0 * Usd) * m
      BY <1>1, <3>2, ProductMonotone
    <3>4. (d * Usd) * m = m * (d * Usd) /\ (d0 * Usd) * m = m * (d0 * Usd)
      BY <1>1, <3>2, ProductCommutes
    <3>5. QED
      BY <3>3, <3>4
  <2>10. (c0 - x) * k <= c * k
    <3>1. c0 - x \in Nat /\ c0 - x <= c
      BY <1>1, <2>2 DEF c0
    <3>2. QED
      BY <2>6, <3>1, ProductMonotone
  <2>11. m * (d * Usd) <= c * k
    <3>1. /\ m * (d * Usd) \in Nat /\ m * (d0 * Usd) \in Nat /\ c * k \in Nat
          /\ (c0 - x) * k \in Nat
      <4>1. c0 - x \in Nat /\ d0 * Usd \in Nat /\ d * Usd \in Nat
        BY <1>1, <2>2, <2>3, <2>4
      <4>2. QED
        BY <1>1, <2>6, <4>1, ProductType
    <3>2. QED
      BY <2>8, <2>9, <2>10, <3>1
  <2>12. m <= (c * k) \div (d * Usd)
    <3> DEFINE dd == d * Usd
               ck == c * k
    <3>1. dd \in Nat \ {0} /\ ck \in Nat /\ m * dd <= ck
      BY <2>4, <2>6, <2>11, ProductType
    <3> HIDE DEF dd, ck
    <3>2. m <= ck \div dd
      BY <1>1, <3>1, DivisionAtLeast
    <3>3. QED
      BY <3>2 DEF dd, ck
  <2>13. HealthFactor(s, c, d) = (c * k) \div (d * Usd)
    BY <2>4, <2>5
  <2>14. HealthFactor(s, c, d) \in Nat
    BY HealthFactorType
  <2>15. QED
    BY <1>1, <2>12, <2>13, <2>14 DEF m
<1>4. QED
  BY <1>2, <1>3

\* A report that lands never takes its source below the margin that the
\* source's adapter keeps, for every margin, price and staleness of the plan:
\* what is withdrawn is at most the collateral's share (hf - margin) / hf, and
\* that share rounds in the position's favour.
THEOREM GuardSourceStaysSafe == GuardSpec => SourceStaysSafe
<1> DEFINE Step == \A w \in Workflows :
             LET s == workflows[w].plan.source
             IN  (workflows[w].pc = "planned" /\ runs' # runs /\ workflows'[w] # workflows[w]
                  /\ positions[s].debt > 0)
                 => HealthFactor(s, positions'[s].collateral, positions'[s].debt) >= Margin[s]
<1>1. GuardInv /\ [Next]_guardVars => [Step]_guardVars
  <2> SUFFICES ASSUME GuardInv, [Next]_guardVars, NEW w \in Workflows,
                      runs' # runs, workflows'[w] # workflows[w],
                      positions[workflows[w].plan.source].debt > 0
               PROVE  LET s == workflows[w].plan.source
                      IN  HealthFactor(s, positions'[s].collateral, positions'[s].debt) >= Margin[s]
    OBVIOUS
  <2>1. Submit(w)
    <3>1. PICK v \in Workflows : Submit(v)
      <4>1. Next
        BY DEF guardVars
      <4>2. ASSUME NEW v \in Workflows, ~Submit(v), NEW r, NEW readable, NEW penalty,
                   NEW b1, NEW b2
            PROVE  /\ ~MakePlan(v, r, readable, penalty, b1)
                   /\ ~SubmitUndone(v) /\ ~WorkflowEnds(v) /\ ~ReadSettlement(v, b1, b2)
        BY DEF MakePlan, SubmitUndone, WorkflowEnds, ReadSettlement
      <4>3. /\ \A e, works : ~Deliver(e, works) /\ ~Reconcile(e)
            /\ ~PricesMove /\ ~ClockTicks /\ \A a : ~UserActs(a)
        BY DEF Deliver, Reconcile, PricesMove, ClockTicks, UserActs
      <4>4. QED
        BY <4>1, <4>2, <4>3, Zenon DEF Next
    <3>2. workflows[v].plan \in Plan /\ SetWorkflow(v, "submitted", workflows[v].plan)
      BY <3>1 DEF Submit, GuardInv, PlansMade
    <3>3. \A u \in Workflows \ {v} : workflows'[u] = workflows[u]
      BY <3>2, SetWorkflowKeeps
    <3>4. QED
      BY <3>1, <3>3
  <2> DEFINE plan == workflows[w].plan
             s == plan.source
             x == Granted(plan)
  <2>2. /\ plan \in Plan /\ x \in Nat \ {0} /\ positions' \in [Adapters -> Position]
        /\ positions'[s].collateral >= positions[s].collateral - x
        /\ positions'[s].debt <= positions[s].debt
    BY <2>1, SubmitMoves
  <2>3. GuardTypeOK /\ positions[s].debt > 0
    BY DEF GuardInv
  <2> HIDE DEF plan
  <2>4. s \in Adapters /\ x <= Available(s)
    BY <2>2, <2>3, GrantedBound DEF Plan
  <2> HIDE DEF s, x
  <2>5. positions'[s].collateral \in Nat /\ positions'[s].debt \in Nat
    BY <2>2, <2>4 DEF Position
  <2>6. HealthFactor(s, positions'[s].collateral, positions'[s].debt) >= Margin[s]
    BY <2>2, <2>3, <2>4, <2>5, MarginKept
  <2>7. QED
    BY <2>6 DEF s, plan
<1>2. QED
  BY <1>1, GuardInvariant, PTL DEF GuardSpec, SourceStaysSafe

\* What is left of a source with debt after it gives no more than its cap.
LEMMA FloorKept ==
  ASSUME GuardTypeOK, NEW r \in Requests, NEW s \in Adapters, positions[s].debt > 0,
         NEW x \in Nat \ {0}, x <= positions[s].collateral, x <= SourceHfSafeCap(r, s)
  PROVE  Effective(Value(s, positions[s].collateral - x)) >= (r.early * DebtUsd(s)) \div Bps
<1> DEFINE c == positions[s].collateral
           p == prices[Collateral[s]]
           e == EffectiveUsd(s)
           f == (r.early * DebtUsd(s)) \div Bps
           lt == LiquidationThreshold
<1>1. /\ c \in Nat /\ p \in Nat \ {0} /\ lt \in Nat \ {0} /\ Bps \in Nat \ {0}
      /\ positions[s].debt \in Nat /\ prices[Debt[s]] \in Nat /\ r.early \in Nat
  BY MarketFacts, GuardAssumption, SMTT(30) DEF LiquidationThreshold, Bps
<1>2. f \in Nat
  <2>1. DebtUsd(s) \in Nat
    BY <1>1, ProductType DEF DebtUsd
  <2>2. r.early * DebtUsd(s) \in Nat
    BY <1>1, <2>1, ProductType
  <2>3. QED
    BY <1>1, <2>2, DivisionType
<1>3. e = ((c * p) * lt) \div Bps /\ e \in Nat
  BY <1>1, ValueType DEF EffectiveUsd
<1>4. x <= IF e <= f THEN 0 ELSE (((e - f) * Bps) \div lt) \div p
  BY <1>1 DEF SourceHfSafeCap
<1>5. c - x \in Nat
  BY <1>1
<1>6. Effective(Value(s, c - x)) = (((c - x) * p) * lt) \div Bps
  BY <1>5, ValueType
<1> HIDE DEF c, p, e, f, lt
<1>7. f < e /\ x <= (((e - f) * Bps) \div lt) \div p
  BY <1>2, <1>3, <1>4
<1>8. x <= c
  BY DEF c
<1>9. f <= (((c - x) * p) * lt) \div Bps
  BY <1>1, <1>2, <1>3, <1>7, <1>8, CapKeepsFloor
<1>10. f <= Effective(Value(s, c - x))
  BY <1>6, <1>9
<1>11. Effective(Value(s, c - x)) \in Nat
  BY <1>5, ValueType
<1>12. QED
  BY <1>2, <1>10, <1>11 DEF c, f

\* A plan leaves its source at the floor or above, for every price, penalty,
\* floor and position: the four roundings of the cap never add up against it.
THEOREM GuardKeepsFloor == GuardSpec => PlanKeepsFloor
<1> DEFINE Step == \A w \in Workflows : Planning(w) =>
             LET plan == workflows'[w].plan s == plan.source
             IN  positions[s].debt > 0 =>
                     Effective(Value(s, positions[s].collateral - plan.amount))
                         >= (plan.floor * DebtUsd(s)) \div Bps
<1>1. GuardInv /\ [Next]_guardVars => [Step]_guardVars
  <2> SUFFICES ASSUME GuardInv, [Next]_guardVars, NEW w \in Workflows, Planning(w),
                      positions[workflows'[w].plan.source].debt > 0
               PROVE  LET plan == workflows'[w].plan s == plan.source
                      IN  Effective(Value(s, positions[s].collateral - plan.amount))
                              >= (plan.floor * DebtUsd(s)) \div Bps
    OBVIOUS
  <2>1. workflows[w].pc = "idle" /\ workflows'[w].pc = "planned"
    BY DEF Planning
  <2>2. PICK r \in Requests : Planned(workflows'[w].plan, r)
    <3>1. CASE \E v \in Workflows, r \in Requests, readable \in SUBSET Adapters,
                 penalty \in Penalties, readsPending \in BOOLEAN :
                    MakePlan(v, r, readable, penalty, readsPending)
      <4>1. PICK v \in Workflows, r \in Requests, readable \in SUBSET Adapters,
                 penalty \in Penalties, readsPending \in BOOLEAN :
                    MakePlan(v, r, readable, penalty, readsPending)
        BY <3>1
      <4>2. PICK plan : Planned(plan, r) /\ SetWorkflow(v, "planned", plan)
        BY <4>1, PlanMade DEF GuardInv
      <4>3. /\ workflows'[v] = [pc |-> "planned", plan |-> plan]
            /\ \A u \in Workflows \ {v} : workflows'[u] = workflows[u]
        BY <4>2, SetWorkflowKeeps DEF Planned
      <4>4. v = w
        BY <2>1, <4>3
      <4>5. QED
        BY <4>1, <4>2, <4>3, <4>4
    <3>2. CASE \E v \in Workflows : Submit(v) \/ SubmitUndone(v)
      <4>1. PICK v \in Workflows : Submit(v) \/ SubmitUndone(v)
        BY <3>2
      <4>2. workflows[v].pc = "planned" /\ SetWorkflow(v, "submitted", workflows[v].plan)
        BY <4>1 DEF Submit, SubmitUndone
      <4>3. workflows[v].plan \in Plan
        BY <4>2 DEF GuardInv, PlansMade
      <4> DEFINE was == workflows[v].plan
      <4>4. was \in Plan /\ SetWorkflow(v, "submitted", was)
        BY <4>2, <4>3
      <4> HIDE DEF was
      <4>5. /\ workflows'[v] = [pc |-> "submitted", plan |-> was]
            /\ \A u \in Workflows \ {v} : workflows'[u] = workflows[u]
        BY <4>4, SetWorkflowKeeps
      <4>6. QED
        BY <2>1, <4>2, <4>5
    <3>3. CASE \E v \in Workflows : SetWorkflow(v, "idle", NoPlan)
      <4>1. PICK v \in Workflows : SetWorkflow(v, "idle", NoPlan)
        BY <3>3
      <4>2. /\ workflows'[v] = [pc |-> "idle", plan |-> NoPlan]
            /\ \A u \in Workflows \ {v} : workflows'[u] = workflows[u]
        BY <4>1, SetWorkflowKeeps
      <4>3. QED
        BY <2>1, <4>2
    <3>4. CASE workflows' = workflows
      BY <2>1, <3>4
    <3>5. QED
      BY <3>1, <3>2, <3>3, <3>4
      DEF Next, guardVars, WorkflowEnds, ReadSettlement, Deliver, Reconcile, PricesMove,
          ClockTicks, UserActs
  <2> DEFINE plan == workflows'[w].plan
             s == plan.source
             x == plan.amount
  <2>3. /\ s \in Adapters /\ x \in Nat \ {0} /\ x <= positions[s].collateral
        /\ x <= SourceHfSafeCap(r, s) /\ plan.floor = r.early
    BY <2>2 DEF Planned, Plan
  <2>4. GuardTypeOK /\ positions[s].debt > 0
    BY <2>2 DEF GuardInv
  <2> HIDE DEF s, x
  <2>5. Effective(Value(s, positions[s].collateral - x)) >= (r.early * DebtUsd(s)) \div Bps
    BY <2>3, <2>4, FloorKept
  <2>6. QED
    BY <2>3, <2>5 DEF s, x
<1>2. QED
  BY <1>1, GuardInvariant, PTL DEF GuardSpec, PlanKeepsFloor
-----------------------------------------------------------------------------
(* What an action brings its target. *)

LEMMA ProductAdds ==
  ASSUME NEW a \in Nat, NEW b \in Nat, NEW c \in Nat
  PROVE  (a + b) * c = a * c + b * c /\ c * (a + b) = c * a + c * b
OBVIOUS

\* n tokens, rounded down twice from what the gap needs, bear the gap but for
\* less than one token: b * gap is what they have to bear, times b.
LEMMA NeededTokens ==
  ASSUME NEW gap \in Nat, NEW b \in Nat \ {0}, NEW lt \in Nat \ {0}, NEW p \in Nat \ {0},
         NEW n \in Nat, n = ((gap * b) \div lt) \div p
  PROVE  /\ (n * p) * lt <= gap * b
         /\ gap * b < ((n + 1) * p) * lt
<1> DEFINE g == gap * b
           q == g \div lt
<1>1. g \in Nat
  BY ProductType
<1> HIDE DEF g
<1>2. q \in Nat /\ q * lt <= g /\ g < q * lt + lt
  BY <1>1, DivisionType, DivisionRoundsDown
<1>3. n = q \div p
  BY DEF g
<1> HIDE DEF q
<1>4. n * p <= q /\ q < n * p + p
  BY <1>2, <1>3, DivisionRoundsDown
<1>5. n * p \in Nat /\ (n + 1) * p \in Nat /\ (n + 1) * p = n * p + p
  <2>1. (n + 1) * p = n * p + 1 * p
    BY ProductAdds
  <2>2. QED
    BY <2>1, ProductType
<1>6. (n * p) * lt <= q * lt
  BY <1>2, <1>4, <1>5, ProductMonotone
<1>7. (q + 1) * lt <= ((n + 1) * p) * lt
  <2>1. q + 1 \in Nat /\ q + 1 <= (n + 1) * p
    BY <1>2, <1>4, <1>5
  <2>2. QED
    BY <1>5, <2>1, ProductMonotone
<1>8. (q + 1) * lt = q * lt + lt
  <2>1. (q + 1) * lt = q * lt + 1 * lt
    BY <1>2, ProductAdds
  <2>2. QED
    BY <2>1
<1>9. /\ (n * p) * lt \in Nat /\ q * lt \in Nat /\ ((n + 1) * p) * lt \in Nat
  BY <1>2, <1>5, ProductType
<1>10. (n * p) * lt <= g /\ g < ((n + 1) * p) * lt
  BY <1>1, <1>2, <1>6, <1>7, <1>8, <1>9
<1>11. QED
  BY <1>10 DEF g

\* c tokens bear e, and the target w is borne after n + 1 more and not after
\* n - 1 more, where a token bears at least one.
LEMMA TopUpBears ==
  ASSUME NEW c \in Nat, NEW p \in Nat \ {0}, NEW lt \in Nat \ {0}, NEW b \in Nat \ {0},
         NEW w \in Nat, NEW e \in Nat, NEW n \in Nat \ {0},
         e = ((c * p) * lt) \div b, e < w, n = (((w - e) * b) \div lt) \div p, b <= p * lt
  PROVE  /\ w * b <= ((((c + n + 1) * p) * lt) \div b) * b
         /\ ((((c + n - 1) * p) * lt) \div b) * b < w * b
<1> DEFINE k == p * lt
           gap == w - e
           more == c + n + 1
           less == c + n - 1
<1>1. gap \in Nat /\ more \in Nat /\ less \in Nat /\ k \in Nat /\ n + 1 \in Nat /\ n - 1 \in Nat
  BY ProductType
<1>2. /\ (n * p) * lt <= gap * b
      /\ gap * b < ((n + 1) * p) * lt
  <2> HIDE DEF gap
  <2>1. n = ((gap * b) \div lt) \div p
    BY DEF gap
  <2>2. QED
    BY <1>1, <2>1, NeededTokens
<1>3. \A x \in Nat : (x * p) * lt = x * k /\ x * k \in Nat
  <2> SUFFICES ASSUME NEW x \in Nat PROVE (x * p) * lt = x * k /\ x * k \in Nat
    OBVIOUS
  <2>1. (x * p) * lt = x * (p * lt)
    BY ProductAssociates
  <2>2. QED
    BY <1>1, <2>1, ProductType
<1>4. gap * b = w * b - e * b /\ w * b \in Nat /\ e * b \in Nat
  BY ProductDistributes, ProductType
<1>5. e * b <= c * k /\ c * k < e * b + b
  <2>1. e = (c * k) \div b /\ c * k \in Nat
    BY <1>3
  <2> HIDE DEF k
  <2>2. QED
    BY <2>1, DivisionRoundsDown
<1>6. b <= k
  OBVIOUS
<1>7. n * k <= gap * b /\ gap * b < (n + 1) * k
  BY <1>1, <1>2, <1>3
<1> HIDE DEF k, gap
<1>8. /\ more * k = c * k + (n + 1) * k
      /\ less * k + k = c * k + n * k
  <2>1. more = c + (n + 1) /\ less + 1 = c + n
    OBVIOUS
  <2> HIDE DEF more, less
  <2>2. (c + (n + 1)) * k = c * k + (n + 1) * k /\ (c + n) * k = c * k + n * k
    BY <1>1, ProductAdds
  <2>3. (less + 1) * k = less * k + 1 * k
    BY <1>1, ProductAdds
  <2>4. 1 * k = k
    BY <1>1
  <2>5. QED
    BY <2>1, <2>2, <2>3, <2>4
<1> HIDE DEF more, less
<1>9. /\ more * k \in Nat /\ less * k \in Nat /\ c * k \in Nat /\ n * k \in Nat
      /\ (n + 1) * k \in Nat
  BY <1>1, ProductType
<1>10. w * b <= more * k /\ less * k < w * b
  BY <1>1, <1>4, <1>5, <1>6, <1>7, <1>8, <1>9
<1>11. w <= (more * k) \div b
  BY <1>9, <1>10, DivisionAtLeast
<1>12. (more * k) \div b \in Nat
  BY <1>9, DivisionType
<1>13. w * b <= ((more * k) \div b) * b
  BY <1>11, <1>12, ProductMonotone
<1>14. ((less * k) \div b) * b <= less * k /\ ((less * k) \div b) * b \in Nat
  <2>1. (less * k) \div b \in Nat
    BY <1>9, DivisionType
  <2>2. QED
    BY <1>9, <2>1, DivisionRoundsDown, ProductType
<1>15. ((less * k) \div b) * b < w * b
  BY <1>4, <1>9, <1>10, <1>14
<1>16. (more * p) * lt = more * k /\ (less * p) * lt = less * k
  BY <1>1, <1>3
<1>17. QED
  BY <1>13, <1>15, <1>16 DEF more, less

\* e bears a debt of e * b / t; n tokens are what d tokens at price p exceed
\* that by, and one more or one fewer is on the other side of it.
LEMMA RepayBears ==
  ASSUME NEW d \in Nat, NEW p \in Nat \ {0}, NEW t \in Nat \ {0}, NEW e \in Nat, NEW b \in Nat,
         NEW n \in Nat \ {0}, (e * b) \div t < d * p, n = (d * p - ((e * b) \div t)) \div p
  PROVE  /\ t * ((d - n - 1) * p) <= e * b
         /\ e * b < t * ((d - n + 1) * p)
<1> DEFINE m == e * b
           bear == m \div t
           over == d * p - bear
           more == d - n + 1
<1>1. m \in Nat /\ d * p \in Nat
  BY ProductType
<1> HIDE DEF m
<1>2. bear \in Nat /\ bear * t <= m /\ m < bear * t + t
  BY <1>1, DivisionType, DivisionRoundsDown
<1>3. bear < d * p /\ n = over \div p
  BY DEF m
<1> HIDE DEF bear
<1>4. over \in Nat
  BY <1>1, <1>2, <1>3
<1>5. n * p <= over /\ over < n * p + p
  <2> HIDE DEF over
  <2> QED BY <1>3, <1>4, DivisionRoundsDown
<1>6. n * p <= d * p /\ n * p \in Nat
  BY <1>1, <1>2, <1>5, ProductType
<1>7. n <= d
  <2>1. SUFFICES ASSUME d + 1 <= n PROVE FALSE
    OBVIOUS
  <2>2. (d + 1) * p <= n * p /\ (d + 1) * p = d * p + 1 * p
    BY <2>1, ProductMonotone, ProductAdds
  <2>3. QED
    BY <1>1, <1>6, <2>2
<1>8. d * p = (d - n) * p + n * p /\ (d - n) * p \in Nat /\ d - n \in Nat
  <2>1. d - n \in Nat /\ d = (d - n) + n
    BY <1>7
  <2>2. ((d - n) + n) * p = (d - n) * p + n * p
    BY <2>1, ProductAdds
  <2>3. QED
    BY <2>1, <2>2, ProductType
<1>9. bear <= (d - n) * p /\ (d - n) * p < bear + p
  BY <1>1, <1>2, <1>5, <1>6, <1>8
<1>10. t * ((d - n - 1) * p) <= m
  <2>1. CASE d = n
    <3>1. (d - n - 1) * p = - p
      BY <2>1
    <3>2. t * (- p) <= 0
      OBVIOUS
    <3>3. QED
      BY <1>1, <3>1, <3>2
  <2>2. CASE d # n
    <3> DEFINE x == d - n - 1
    <3>1. x \in Nat /\ d - n = x + 1
      BY <1>7, <2>2
    <3> HIDE DEF x
    <3>2. (x + 1) * p = x * p + 1 * p /\ x * p \in Nat
      BY <3>1, ProductAdds, ProductType
    <3>3. x * p <= bear
      BY <1>2, <1>9, <3>1, <3>2
    <3>4. (x * p) * t <= bear * t /\ t * (x * p) = (x * p) * t
      BY <1>2, <3>2, <3>3, ProductMonotone, ProductCommutes
    <3>5. (x * p) * t \in Nat /\ bear * t \in Nat
      BY <1>2, <3>2, ProductType
    <3>6. t * (x * p) <= m
      BY <1>1, <1>2, <3>4, <3>5
    <3>7. QED
      BY <3>6 DEF x
  <2>3. QED
    BY <2>1, <2>2
<1>11. m < t * (more * p)
  <2>1. more \in Nat /\ more = (d - n) + 1
    BY <1>8
  <2> HIDE DEF more
  <2>2. more * p = (d - n) * p + 1 * p /\ more * p \in Nat
    BY <1>8, <2>1, ProductAdds, ProductType
  <2>3. bear + 1 <= more * p
    BY <1>2, <1>8, <1>9, <2>2
  <2>4. (bear + 1) * t <= (more * p) * t /\ (bear + 1) * t = bear * t + 1 * t
    BY <1>2, <2>2, <2>3, ProductMonotone, ProductAdds
  <2>5. t * (more * p) = (more * p) * t
    BY <2>2, ProductCommutes
  <2>6. bear * t \in Nat /\ (more * p) * t \in Nat
    BY <1>2, <2>2, ProductType
  <2>7. QED
    BY <1>1, <1>2, <2>4, <2>5, <2>6
<1>12. QED
  BY <1>10, <1>11 DEF m, more

\* What the target needs, in the planner's units.
LEMMA TargetNeeds ==
  ASSUME GuardTypeOK, FinePrices, NEW t \in Adapters
  PROVE  LET d == positions[t].debt p == prices[Debt[t]] w == (TargetHf * (d * p)) \div Bps
         IN  w \in Nat /\ w * Bps = TargetHf * (d * p)
<1> DEFINE d == positions[t].debt
           p == prices[Debt[t]]
           n == TargetHf * (d * p)
           w == n \div Bps
<1>1. /\ d \in Nat /\ p \in Nat /\ TargetHf \in Nat /\ Bps \in Nat \ {0} /\ prices \in PriceVectors
  BY MarketFacts, GuardAssumption, SMTT(30) DEF Bps, GuardTypeOK
<1>2. PICK k \in Nat : TargetHf * p = k * Bps
  BY <1>1 DEF FinePrices
<1> HIDE DEF d, p
<1>3. n = (k * d) * Bps
  <2>1. TargetHf * (d * p) = (TargetHf * d) * p
    BY <1>1, ProductAssociates
  <2>2. (TargetHf * d) * p = (d * TargetHf) * p /\ (d * TargetHf) * p = d * (TargetHf * p)
    BY <1>1, ProductCommutes, ProductAssociates
  <2>3. d * (k * Bps) = (d * k) * Bps /\ d * k = k * d
    BY <1>1, ProductCommutes, ProductAssociates
  <2>4. QED
    BY <1>2, <2>1, <2>2, <2>3
<1>4. k * d \in Nat /\ n \in Nat
  <2>1. k * d \in Nat
    BY <1>1, ProductType
  <2>2. QED
    BY <1>1, <1>3, <2>1, ProductType
<1> DEFINE kd == k * d
<1>5. kd \in Nat /\ n = kd * Bps
  BY <1>3, <1>4
<1> HIDE DEF kd, n
<1>6. w \in Nat /\ w * Bps <= n /\ kd <= w
  BY <1>1, <1>4, <1>5, DivisionType, DivisionRoundsDown, DivisionAtLeast
<1> HIDE DEF w
<1>7. kd * Bps <= w * Bps /\ w * Bps \in Nat
  BY <1>1, <1>5, <1>6, ProductMonotone, ProductType
<1>8. w * Bps = n
  BY <1>4, <1>5, <1>6, <1>7
<1>9. QED
  BY <1>6, <1>8 DEF w, n, d, p

\* An amount that is what the planner estimated brings its target there.
LEMMA EstimateReaches ==
  ASSUME GuardTypeOK, FinePrices, NEW t \in Adapters, NEW mode \in Modes, NEW n \in Nat \ {0},
         n = EstimateNeeded(mode, t)
  PROVE  LET p == positions[t]
         IN  \/ /\ mode = "TOP_UP"
                /\ Reaches(t, p.collateral + n + 1, p.debt)
                /\ ~Reaches(t, p.collateral + n - 1, p.debt)
             \/ /\ mode = "REPAY"
                /\ Reaches(t, p.collateral, p.debt - n - 1)
                /\ ~Reaches(t, p.collateral, p.debt - n + 1)
<1> DEFINE c == positions[t].collateral
           d == positions[t].debt
           p == prices[Collateral[t]]
           q == prices[Debt[t]]
           e == EffectiveUsd(t)
           w == (TargetHf * (d * q)) \div Bps
           lt == LiquidationThreshold
<1>1. /\ c \in Nat /\ d \in Nat /\ p \in Nat \ {0} /\ q \in Nat \ {0} /\ lt \in Nat \ {0}
      /\ Bps \in Nat \ {0} /\ TargetHf \in Nat \ {0} /\ prices \in PriceVectors
  BY MarketFacts, GuardAssumption, SMTT(30) DEF LiquidationThreshold, Bps, GuardTypeOK
<1>2. e = ((c * p) * lt) \div Bps /\ e \in Nat
  BY <1>1, ValueType DEF EffectiveUsd
<1>3. w \in Nat /\ w * Bps = TargetHf * (d * q)
  BY TargetNeeds
<1>4. Bps <= p * lt
  BY <1>1 DEF FinePrices
<1>5. \A x \in Nat : Effective(Value(t, x)) = ((x * p) * lt) \div Bps
  BY ValueType
<1>6. DebtUsd(t) = d * q
  BY DEF DebtUsd
<1>7. CASE mode = "TOP_UP"
  <2>1. n = IF w <= e THEN 0 ELSE (((w - e) * Bps) \div lt) \div p
    BY <1>6, <1>7 DEF EstimateNeeded
  <2> HIDE DEF c, d, p, q, e, w, lt
  <2>2. e < w /\ n = (((w - e) * Bps) \div lt) \div p
    BY <1>2, <1>3, <2>1
  <2>3. /\ w * Bps <= ((((c + n + 1) * p) * lt) \div Bps) * Bps
        /\ ((((c + n - 1) * p) * lt) \div Bps) * Bps < w * Bps
    BY <1>1, <1>2, <1>3, <1>4, <2>2, TopUpBears
  <2>4. c + n + 1 \in Nat /\ c + n - 1 \in Nat
    BY <1>1
  <2>5. /\ Effective(Value(t, c + n + 1)) = (((c + n + 1) * p) * lt) \div Bps
        /\ Effective(Value(t, c + n - 1)) = (((c + n - 1) * p) * lt) \div Bps
    BY <1>5, <2>4
  <2>6. /\ TargetHf * (d * q) <= Effective(Value(t, c + n + 1)) * Bps
        /\ Effective(Value(t, c + n - 1)) * Bps < TargetHf * (d * q)
    BY <1>3, <2>3, <2>5
  <2>7. /\ Effective(Value(t, c + n + 1)) * Bps \in Int
        /\ Effective(Value(t, c + n - 1)) * Bps \in Int /\ TargetHf * (d * q) \in Int
    <3>1. Effective(Value(t, c + n + 1)) \in Nat /\ Effective(Value(t, c + n - 1)) \in Nat
      BY <2>4, ValueType
    <3>2. TargetHf * (d * q) \in Nat
      BY <1>1, ProductType
    <3>3. QED
      BY <1>1, <3>1, <3>2, ProductType
  <2>8. Reaches(t, c + n + 1, d) /\ ~Reaches(t, c + n - 1, d)
    BY <2>6, <2>7 DEF Reaches, q
  <2>9. QED
    BY <1>7, <2>8 DEF c, d
<1>8. CASE mode # "TOP_UP"
  <2> DEFINE bear == (e * Bps) \div TargetHf
  <2>1. mode = "REPAY"
    BY <1>8 DEF Modes
  <2>2. n = IF d * q <= bear THEN 0 ELSE (d * q - bear) \div q
    BY <1>6, <1>8 DEF EstimateNeeded
  <2> HIDE DEF c, d, p, q, e, w, lt
  <2>3. bear \in Nat /\ d * q \in Nat /\ e * Bps \in Nat
    BY <1>1, <1>2, ProductType, DivisionType
  <2>4. bear < d * q /\ n = (d * q - bear) \div q
    BY <2>2, <2>3
  <2>5. /\ TargetHf * ((d - n - 1) * q) <= e * Bps
        /\ e * Bps < TargetHf * ((d - n + 1) * q)
    BY <1>1, <1>2, <2>4, RepayBears
  <2>6. Effective(Value(t, c)) = e
    BY <1>1, <1>2, <1>5
  <2>7. Reaches(t, c, d - n - 1) /\ ~Reaches(t, c, d - n + 1)
    <3>1. TargetHf * ((d - n - 1) * q) \in Int /\ TargetHf * ((d - n + 1) * q) \in Int
      BY <1>1
    <3>2. QED
      BY <2>3, <2>5, <2>6, <3>1 DEF Reaches, q
  <2>8. QED
    BY <2>1, <2>7 DEF c, d
<1>9. QED
  BY <1>7, <1>8

\* A plan that nothing caps brings its target to the health factor planned, to
\* within a token on either side, for every position and all fine prices: the
\* planner's four divisions together lose less than one token.
THEOREM GuardReachesTarget ==
  ASSUME FinePrices
  PROVE  GuardSpec => PlanReachesTarget
<1> DEFINE Step == \A w \in Workflows : Planning(w) =>
           LET plan == workflows'[w].plan t == plan.target p == positions[t]
           IN  /\ p.debt > 0
               /\ plan.amount = EstimateNeeded(plan.mode, t)
               => \/ /\ plan.mode = "TOP_UP"
                     /\ Reaches(t, p.collateral + plan.amount + 1, p.debt)
                     /\ ~Reaches(t, p.collateral + plan.amount - 1, p.debt)
                  \/ /\ plan.mode = "REPAY"
                     /\ Reaches(t, p.collateral, p.debt - plan.amount - 1)
                     /\ ~Reaches(t, p.collateral, p.debt - plan.amount + 1)
<1>1. GuardInv /\ GuardInv' => Step
  <2> SUFFICES ASSUME GuardInv, GuardInv', NEW w \in Workflows, Planning(w),
                      workflows'[w].plan.amount
                          = EstimateNeeded(workflows'[w].plan.mode, workflows'[w].plan.target)
               PROVE  LET plan == workflows'[w].plan t == plan.target p == positions[t]
                      IN  \/ /\ plan.mode = "TOP_UP"
                             /\ Reaches(t, p.collateral + plan.amount + 1, p.debt)
                             /\ ~Reaches(t, p.collateral + plan.amount - 1, p.debt)
                          \/ /\ plan.mode = "REPAY"
                             /\ Reaches(t, p.collateral, p.debt - plan.amount - 1)
                             /\ ~Reaches(t, p.collateral, p.debt - plan.amount + 1)
    OBVIOUS
  <2> DEFINE plan == workflows'[w].plan
             t == plan.target
             n == plan.amount
  <2>1. plan \in Plan
    BY DEF Planning, GuardInv, PlansMade
  <2> HIDE DEF plan
  <2>2. GuardTypeOK /\ t \in Adapters /\ plan.mode \in Modes /\ n \in Nat \ {0}
    BY <2>1 DEF GuardInv, Plan
  <2>3. n = EstimateNeeded(plan.mode, t)
    BY DEF plan
  <2> HIDE DEF t, n
  <2>4. \/ /\ plan.mode = "TOP_UP"
           /\ Reaches(t, positions[t].collateral + n + 1, positions[t].debt)
           /\ ~Reaches(t, positions[t].collateral + n - 1, positions[t].debt)
        \/ /\ plan.mode = "REPAY"
           /\ Reaches(t, positions[t].collateral, positions[t].debt - n - 1)
           /\ ~Reaches(t, positions[t].collateral, positions[t].debt - n + 1)
    BY <2>2, <2>3, EstimateReaches
  <2>5. QED
    BY <2>4 DEF t, n, plan
<1>2. QED
  BY <1>1, GuardInvariant, PTL DEF PlanReachesTarget
-----------------------------------------------------------------------------
(* What the user has and owes, asset by asset. *)

LEMMA IdsFinite == IsFiniteSet(ExecIds)
<1> DEFINE named == {<<r.id>> : r \in Requests}
           id == [r \in Requests |-> <<r.id>>]
<1>1. IsFiniteSet(named)
  <2>1. id \in Surjection(Requests, named)
    BY DEF Surjection
  <2> HIDE DEF id, named
  <2>2. QED
    BY <2>1, GuardAssumption, FS_Surjection
<1> HIDE DEF named, id
<1>2. IsFiniteSet(Modes \X (0..MaxMinute))
  <2>1. IsFiniteSet(Modes)
    <3>1. IsFiniteSet({"TOP_UP"}) /\ IsFiniteSet({"REPAY"})
      BY FS_Singleton
    <3>2. IsFiniteSet({"TOP_UP"} \cup {"REPAY"})
      BY <3>1, FS_Union
    <3>3. Modes = {"TOP_UP"} \cup {"REPAY"}
      BY DEF Modes
    <3>4. QED
      BY <3>2, <3>3
  <2>2. IsFiniteSet(0..MaxMinute)
    <3>1. 0 \in Int /\ MaxMinute \in Int
      BY GuardAssumption
    <3>2. QED
      BY <3>1, FS_Interval
  <2>3. QED
    BY <2>1, <2>2, FS_Product
<1>3. ExecIds = named \cup (Modes \X (0..MaxMinute))
  BY DEF ExecIds, named
<1>4. QED
  BY <1>1, <1>2, <1>3, FS_Union

\* The parts of a net holding are natural numbers, and so are their totals.
LEMMA PositionTotals ==
  ASSUME NEW asset, NEW ps \in [Adapters -> Position]
  PROVE  /\ \A a \in Adapters : Supplied(asset, ps)[a] \in Nat /\ Owed(asset, ps)[a] \in Nat
         /\ Total(Adapters, Supplied(asset, ps)) \in Nat
         /\ Total(Adapters, Owed(asset, ps)) \in Nat
<1>1. \A a \in Adapters : Supplied(asset, ps)[a] \in Nat /\ Owed(asset, ps)[a] \in Nat
  BY DEF Supplied, Owed, Position
<1>2. QED
  BY <1>1, GuardAssumption, TotalType

LEMMA LeftTotal ==
  ASSUME NEW asset, NEW ks \in [Adapters -> Nat]
  PROVE  /\ \A a \in Adapters : Left(asset, ks)[a] \in Nat
         /\ Total(Adapters, Left(asset, ks)) \in Nat
<1>1. \A a \in Adapters : Left(asset, ks)[a] \in Nat
  BY DEF Left
<1>2. QED
  BY <1>1, GuardAssumption, TotalType

LEMMA SentTotal ==
  ASSUME NEW asset, NEW ms \in [ExecIds -> Message]
  PROVE  /\ \A e \in ExecIds : Sent(asset, ms)[e] \in Nat
         /\ Total(ExecIds, Sent(asset, ms)) \in Nat
<1>1. \A e \in ExecIds : Sent(asset, ms)[e] \in Nat
  BY DEF Sent, Message
<1>2. QED
  BY <1>1, IdsFinite, TotalType

\* What one position, one market's leftovers or one message changes by, the
\* totals change by.
LEMMA PositionMoves ==
  ASSUME NEW asset, NEW ps \in [Adapters -> Position], NEW qs \in [Adapters -> Position],
         NEW a \in Adapters, \A b \in Adapters \ {a} : qs[b] = ps[b]
  PROVE  /\ Total(Adapters, Supplied(asset, qs)) =
                Total(Adapters, Supplied(asset, ps))
                    + (IF Collateral[a] = asset THEN qs[a].collateral - ps[a].collateral ELSE 0)
         /\ Total(Adapters, Owed(asset, qs)) =
                Total(Adapters, Owed(asset, ps))
                    + (IF Debt[a] = asset THEN qs[a].debt - ps[a].debt ELSE 0)
<1>1. /\ Supplied(asset, ps)[a] = IF Collateral[a] = asset THEN ps[a].collateral ELSE 0
      /\ Supplied(asset, qs)[a] = IF Collateral[a] = asset THEN qs[a].collateral ELSE 0
      /\ \A b \in Adapters \ {a} : Supplied(asset, qs)[b] = Supplied(asset, ps)[b]
  BY DEF Supplied
<1>2. /\ Owed(asset, ps)[a] = IF Debt[a] = asset THEN ps[a].debt ELSE 0
      /\ Owed(asset, qs)[a] = IF Debt[a] = asset THEN qs[a].debt ELSE 0
      /\ \A b \in Adapters \ {a} : Owed(asset, qs)[b] = Owed(asset, ps)[b]
  BY DEF Owed
<1>3. /\ \A b \in Adapters : Supplied(asset, ps)[b] \in Nat /\ Owed(asset, ps)[b] \in Nat
      /\ \A b \in Adapters : Supplied(asset, qs)[b] \in Nat /\ Owed(asset, qs)[b] \in Nat
      /\ Total(Adapters, Supplied(asset, ps)) \in Nat /\ Total(Adapters, Owed(asset, ps)) \in Nat
      /\ IsFiniteSet(Adapters)
  BY PositionTotals, GuardAssumption
<1>4. Total(Adapters, Supplied(asset, qs)) =
          Total(Adapters, Supplied(asset, ps)) - Supplied(asset, ps)[a] + Supplied(asset, qs)[a]
  BY <1>1, <1>3, TotalUpdate
<1>5. Total(Adapters, Owed(asset, qs)) =
          Total(Adapters, Owed(asset, ps)) - Owed(asset, ps)[a] + Owed(asset, qs)[a]
  BY <1>2, <1>3, TotalUpdate
<1>6. /\ qs[a].collateral \in Nat /\ qs[a].debt \in Nat
      /\ ps[a].collateral \in Nat /\ ps[a].debt \in Nat
  BY DEF Position
<1>7. QED
  BY <1>1, <1>2, <1>3, <1>4, <1>5, <1>6

LEMMA LeftMoves ==
  ASSUME NEW asset, NEW ks \in [Adapters -> Nat], NEW ls \in [Adapters -> Nat],
         NEW a \in Adapters, \A b \in Adapters \ {a} : ls[b] = ks[b]
  PROVE  Total(Adapters, Left(asset, ls)) =
             Total(Adapters, Left(asset, ks)) + (IF Debt[a] = asset THEN ls[a] - ks[a] ELSE 0)
<1>1. /\ Left(asset, ks)[a] = IF Debt[a] = asset THEN ks[a] ELSE 0
      /\ Left(asset, ls)[a] = IF Debt[a] = asset THEN ls[a] ELSE 0
      /\ \A b \in Adapters \ {a} : Left(asset, ls)[b] = Left(asset, ks)[b]
  BY DEF Left
<1>2. /\ \A b \in Adapters : Left(asset, ks)[b] \in Nat
      /\ \A b \in Adapters : Left(asset, ls)[b] \in Nat
      /\ Total(Adapters, Left(asset, ks)) \in Nat /\ IsFiniteSet(Adapters)
  BY LeftTotal, GuardAssumption
<1>3. Total(Adapters, Left(asset, ls)) =
          Total(Adapters, Left(asset, ks)) - Left(asset, ks)[a] + Left(asset, ls)[a]
  BY <1>1, <1>2, TotalUpdate
<1>4. ks[a] \in Nat /\ ls[a] \in Nat
  OBVIOUS
<1>5. QED
  BY <1>1, <1>2, <1>3, <1>4

\* What a message counts for: its amount while it is on its way or in escrow.
OnItsWay(asset, m) ==
    IF m.asset = asset /\ m.state \in {"in flight", "failed"} THEN m.amount ELSE 0

LEMMA SentMoves ==
  ASSUME NEW asset, NEW ms \in [ExecIds -> Message], NEW ns \in [ExecIds -> Message],
         NEW e \in ExecIds, \A d \in ExecIds \ {e} : ns[d] = ms[d]
  PROVE  Total(ExecIds, Sent(asset, ns)) =
             Total(ExecIds, Sent(asset, ms)) + (OnItsWay(asset, ns[e]) - OnItsWay(asset, ms[e]))
<1>1. /\ Sent(asset, ms)[e] = OnItsWay(asset, ms[e])
      /\ Sent(asset, ns)[e] = OnItsWay(asset, ns[e])
      /\ \A d \in ExecIds \ {e} : Sent(asset, ns)[d] = Sent(asset, ms)[d]
  BY DEF Sent, OnItsWay
<1>2. /\ \A d \in ExecIds : Sent(asset, ms)[d] \in Nat
      /\ \A d \in ExecIds : Sent(asset, ns)[d] \in Nat
      /\ Total(ExecIds, Sent(asset, ms)) \in Nat
  BY SentTotal
<1>3. Total(ExecIds, Sent(asset, ns)) =
          Total(ExecIds, Sent(asset, ms)) - Sent(asset, ms)[e] + Sent(asset, ns)[e]
  BY <1>1, <1>2, IdsFinite, TotalUpdate
<1>4. OnItsWay(asset, ns[e]) \in Nat /\ OnItsWay(asset, ms[e]) \in Nat
  BY <1>1, <1>2
<1>5. QED
  BY <1>1, <1>2, <1>3, <1>4
\* A withdrawal takes its amount from what is supplied, and nothing else.
LEMMA WithdrawalTakes ==
  ASSUME NEW asset, NEW ps \in [Adapters -> Position], NEW qs \in [Adapters -> Position],
         NEW a \in Adapters, \A b \in Adapters \ {a} : qs[b] = ps[b],
         NEW x \in Nat, qs[a] = Withdrawn(ps[a], x)
  PROVE  /\ Total(Adapters, Supplied(asset, qs)) =
                Total(Adapters, Supplied(asset, ps)) - (IF Collateral[a] = asset THEN x ELSE 0)
         /\ Total(Adapters, Owed(asset, qs)) = Total(Adapters, Owed(asset, ps))
<1>1. qs[a].collateral = ps[a].collateral - x /\ qs[a].debt = ps[a].debt
  BY DEF Withdrawn
<1>2. /\ Total(Adapters, Supplied(asset, ps)) \in Nat /\ Total(Adapters, Owed(asset, ps)) \in Nat
      /\ ps[a].collateral \in Nat /\ ps[a].debt \in Nat
  BY PositionTotals DEF Position
<1>3. /\ Total(Adapters, Supplied(asset, qs)) =
             Total(Adapters, Supplied(asset, ps))
                 + (IF Collateral[a] = asset THEN qs[a].collateral - ps[a].collateral ELSE 0)
      /\ Total(Adapters, Owed(asset, qs)) =
             Total(Adapters, Owed(asset, ps))
                 + (IF Debt[a] = asset THEN qs[a].debt - ps[a].debt ELSE 0)
  BY PositionMoves
<1>4. QED
  BY <1>1, <1>2, <1>3

\* What the user has in the markets less what the user owes there.
InMarkets(asset, ps, ks) ==
    Total(Adapters, Supplied(asset, ps)) + Total(Adapters, Left(asset, ks))
        - Total(Adapters, Owed(asset, ps))

LEMMA InMarketsType ==
  ASSUME NEW asset, NEW ps \in [Adapters -> Position], NEW ks \in [Adapters -> Nat]
  PROVE  InMarkets(asset, ps, ks) \in Int
<1>1. /\ Total(Adapters, Supplied(asset, ps)) \in Nat /\ Total(Adapters, Owed(asset, ps)) \in Nat
      /\ Total(Adapters, Left(asset, ks)) \in Nat
  BY PositionTotals, LeftTotal
<1>2. QED
  BY <1>1 DEF InMarkets

\* The target takes an amount: from positions ps to qs, leftovers ks to ls.
TargetTakes(ps, qs, ks, ls, t, mode, x) ==
    /\ qs[t] = Applied(ps[t], mode, x)
    /\ ls[t] = ks[t] + Excess(ps[t], mode, x)
    /\ \A b \in Adapters \ {t} : qs[b] = ps[b] /\ ls[b] = ks[b]

\* The asset it takes.
Coin(mode, t) == IF mode = "TOP_UP" THEN Collateral[t] ELSE Debt[t]

\* The target's action gives its whole amount to the user: as collateral, as
\* debt that is no more, or left in the market.
LEMMA ApplicationGives ==
  ASSUME NEW asset, NEW ps \in [Adapters -> Position], NEW qs \in [Adapters -> Position],
         NEW ks \in [Adapters -> Nat], NEW ls \in [Adapters -> Nat], NEW t \in Adapters,
         NEW mode, NEW x \in Nat, TargetTakes(ps, qs, ks, ls, t, mode, x)
  PROVE  InMarkets(asset, qs, ls) - InMarkets(asset, ps, ks) =
             IF Coin(mode, t) = asset THEN x ELSE 0
<1> DEFINE p == Applied(ps[t], mode, x)
           rest == Excess(ps[t], mode, x)
           m == Min({x, ps[t].debt})
<1>1. ps[t].collateral \in Nat /\ ps[t].debt \in Nat /\ ks[t] \in Nat
  BY DEF Position
<1>2. m \in Nat
  BY <1>1, MinOfTwo
<1>3. /\ mode = "TOP_UP" => p.collateral = ps[t].collateral + x /\ p.debt = ps[t].debt /\ rest = 0
      /\ mode # "TOP_UP" => /\ p.collateral = ps[t].collateral
                            /\ p.debt = ps[t].debt - m /\ rest = x - m
  <2> HIDE DEF m
  <2>1. CASE mode = "TOP_UP"
    BY <2>1 DEF Applied, Excess
  <2>2. CASE mode # "TOP_UP"
    <3>1. p = [collateral |-> ps[t].collateral, debt |-> ps[t].debt - m] /\ rest = x - m
      BY <2>2 DEF Applied, Excess, m
    <3> HIDE DEF p, rest
    <3>2. QED
      BY <2>2, <3>1
  <2>3. QED
    BY <2>1, <2>2
<1>4. qs[t] = p /\ ls[t] - ks[t] = rest
  <2>1. ls[t] \in Nat /\ ls[t] = ks[t] + rest /\ qs[t] = p
    BY DEF TargetTakes
  <2> HIDE DEF rest
  <2>2. rest \in Int
    BY <1>1, <1>2, <1>3
  <2>3. QED
    BY <1>1, <2>1, <2>2
<1> HIDE DEF p, rest, m
<1>5. \A b \in Adapters \ {t} : qs[b] = ps[b] /\ ls[b] = ks[b]
  BY DEF TargetTakes
<1>6. /\ Total(Adapters, Supplied(asset, qs)) =
             Total(Adapters, Supplied(asset, ps))
                 + (IF Collateral[t] = asset THEN qs[t].collateral - ps[t].collateral ELSE 0)
      /\ Total(Adapters, Owed(asset, qs)) =
             Total(Adapters, Owed(asset, ps))
                 + (IF Debt[t] = asset THEN qs[t].debt - ps[t].debt ELSE 0)
  BY <1>5, PositionMoves
<1>7. Total(Adapters, Left(asset, ls)) =
          Total(Adapters, Left(asset, ks)) + (IF Debt[t] = asset THEN ls[t] - ks[t] ELSE 0)
  BY <1>5, LeftMoves
<1>8. /\ Total(Adapters, Supplied(asset, ps)) \in Nat /\ Total(Adapters, Owed(asset, ps)) \in Nat
      /\ Total(Adapters, Left(asset, ks)) \in Nat
  BY PositionTotals, LeftTotal
<1>9. CASE mode = "TOP_UP"
  BY <1>1, <1>3, <1>4, <1>6, <1>7, <1>8, <1>9 DEF InMarkets, Coin
<1>10. CASE mode # "TOP_UP"
  BY <1>1, <1>2, <1>3, <1>4, <1>6, <1>7, <1>8, <1>10 DEF InMarkets, Coin
<1>11. QED
  BY <1>9, <1>10

\* An id is executed once at most, and only then has a message.
ExecutedOnce ==
    \A e \in ExecIds : runs[e] \in 0..1 /\ (message[e].state # "none" => runs[e] = 1)

\* A net holding is what is in the markets and what is on its way.
LEMMA NetParts ==
  ASSUME NEW asset, NEW ps \in [Adapters -> Position], NEW ks \in [Adapters -> Nat],
         NEW ms \in [ExecIds -> Message]
  PROVE  Net(asset, ps, ms, ks) = InMarkets(asset, ps, ks) + Total(ExecIds, Sent(asset, ms))
<1>1. /\ Total(Adapters, Supplied(asset, ps)) \in Nat /\ Total(Adapters, Owed(asset, ps)) \in Nat
      /\ Total(Adapters, Left(asset, ks)) \in Nat /\ Total(ExecIds, Sent(asset, ms)) \in Nat
  BY PositionTotals, LeftTotal, SentTotal
<1>2. QED
  BY <1>1 DEF Net, InMarkets

\* A report moves its amount from the source to the target, or to a message.
LEMMA SubmitConserves ==
  ASSUME GuardInv, ExecutedOnce, NEW w \in Workflows, Submit(w), NEW asset
  PROVE  Net(asset, positions', message', kept') = Net(asset, positions, message, kept)
<1> DEFINE plan == workflows[w].plan
           s == plan.source
           t == plan.target
           e == plan.exec
           x == Granted(plan)
           coin == Collateral[s]
           withdrawn == [positions EXCEPT ![s] = Withdrawn(positions[s], x)]
<1>1. /\ plan \in Plan /\ x > 0 /\ (SameChainStep(plan, x) \/ CrossChainStep(plan, x))
      /\ runs[e] = 0
  BY DEF Submit, GuardInv, PlansMade
<1>2. s \in Adapters /\ t \in Adapters /\ e \in ExecIds /\ plan.mode \in Modes
  BY <1>1 DEF Plan
<1>3. /\ positions \in [Adapters -> Position] /\ kept \in [Adapters -> Nat]
      /\ message \in [ExecIds -> Message]
  BY DEF GuardInv, GuardTypeOK
<1>4. /\ positions' \in [Adapters -> Position] /\ kept' \in [Adapters -> Nat]
      /\ message' \in [ExecIds -> Message]
  BY SubmitMoves
<1> HIDE DEF plan
<1>5. x \in Nat /\ x <= positions[s].collateral
  BY <1>1, GrantedBound DEF GuardInv
<1> HIDE DEF x, s, t, e
<1>6. /\ withdrawn \in [Adapters -> Position] /\ withdrawn[s] = Withdrawn(positions[s], x)
       /\ \A b \in Adapters \ {s} : withdrawn[b] = positions[b]
  <2>1. Withdrawn(positions[s], x) \in Position
    BY <1>2, <1>3, <1>5, WithdrawnType
  <2>2. QED
    BY <1>2, <1>3, <2>1
<1> HIDE DEF withdrawn
<1>7. /\ Total(Adapters, Supplied(asset, withdrawn)) =
             Total(Adapters, Supplied(asset, positions)) - (IF coin = asset THEN x ELSE 0)
      /\ Total(Adapters, Owed(asset, withdrawn)) = Total(Adapters, Owed(asset, positions))
  BY <1>2, <1>3, <1>5, <1>6, WithdrawalTakes
<1> HIDE DEF coin
<1>8. InMarkets(asset, withdrawn, kept) =
          InMarkets(asset, positions, kept) - (IF coin = asset THEN x ELSE 0)
  <2>1. /\ Total(Adapters, Supplied(asset, positions)) \in Nat
        /\ Total(Adapters, Owed(asset, positions)) \in Nat
        /\ Total(Adapters, Left(asset, kept)) \in Nat
    BY <1>3, PositionTotals, LeftTotal
  <2>2. QED
    BY <1>5, <1>7, <2>1 DEF InMarkets
<1>9. InMarkets(asset, positions, kept) \in Int /\ Total(ExecIds, Sent(asset, message)) \in Nat
  BY <1>3, InMarketsType, SentTotal
<1>10. /\ Net(asset, positions', message', kept') =
             InMarkets(asset, positions', kept') + Total(ExecIds, Sent(asset, message'))
      /\ Net(asset, positions, message, kept) =
             InMarkets(asset, positions, kept) + Total(ExecIds, Sent(asset, message))
  BY <1>3, <1>4, NetParts
<1>11. CASE SameChainStep(plan, x)
  <2>1. /\ positions' = [withdrawn EXCEPT ![t] = Applied(withdrawn[t], plan.mode, x)]
        /\ kept' = [kept EXCEPT ![t] = @ + Excess(withdrawn[t], plan.mode, x)]
        /\ message' = message
    BY <1>11 DEF SameChainStep, withdrawn, s, t
  <2>2. Coin(plan.mode, t) = coin
    BY <1>11 DEF SameChainStep, TargetAccepts, Coin, s, t, coin
  <2>3. InMarkets(asset, positions', kept') =
            InMarkets(asset, withdrawn, kept) + (IF coin = asset THEN x ELSE 0)
    <3>1. TargetTakes(withdrawn, positions', kept, kept', t, plan.mode, x)
      BY <1>2, <1>3, <1>6, <2>1 DEF TargetTakes
    <3>2. InMarkets(asset, positions', kept') - InMarkets(asset, withdrawn, kept) =
              IF Coin(plan.mode, t) = asset THEN x ELSE 0
      BY <1>2, <1>3, <1>4, <1>5, <1>6, <3>1, ApplicationGives
    <3>3. InMarkets(asset, withdrawn, kept) \in Int /\ InMarkets(asset, positions', kept') \in Int
      BY <1>3, <1>4, <1>6, InMarketsType
    <3>4. QED
      BY <1>5, <2>2, <3>2, <3>3
  <2>4. QED
    BY <1>5, <1>8, <1>9, <1>10, <2>1, <2>3
<1>12. CASE CrossChainStep(plan, x)
  <2> DEFINE m == [state |-> "in flight", mode |-> plan.mode, target |-> t,
                   asset |-> coin, amount |-> x]
  <2>1. positions' = withdrawn /\ kept' = kept /\ message' = [message EXCEPT ![e] = m]
    BY <1>12 DEF CrossChainStep, withdrawn, s, t, e, coin
  <2>2. m \in Message /\ OnItsWay(asset, m) = IF coin = asset THEN x ELSE 0
    BY <1>2, <1>5 DEF Message, Assets, OnItsWay, coin
  <2>3. OnItsWay(asset, message[e]) = 0
    <3>1. message[e].state = "none"
      BY <1>1, <1>2 DEF ExecutedOnce
    <3>2. QED
      BY <3>1 DEF OnItsWay
  <2> HIDE DEF m
  <2>4. Total(ExecIds, Sent(asset, message')) =
            Total(ExecIds, Sent(asset, message)) + (OnItsWay(asset, m) - OnItsWay(asset, message[e]))
    <3>1. message'[e] = m /\ \A d \in ExecIds \ {e} : message'[d] = message[d]
      BY <1>2, <1>3, <2>1
    <3>2. QED
      BY <1>2, <1>3, <1>4, <3>1, SentMoves
  <2>5. QED
    BY <1>5, <1>8, <1>9, <1>10, <2>1, <2>2, <2>3, <2>4
<1>13. QED
  BY <1>1, <1>11, <1>12

\* A delivery turns a message into what the target's action gives, or into an
\* escrow of the same amount.
LEMMA DeliverConserves ==
  ASSUME GuardInv, NEW e \in ExecIds, NEW works \in BOOLEAN, Deliver(e, works), NEW asset
  PROVE  Net(asset, positions', message', kept') = Net(asset, positions, message, kept)
<1> DEFINE m == message[e]
           t == m.target
           succeeds == works /\ t \notin Home /\ TargetAccepts(m.mode, m.asset, t)
           new == [m EXCEPT !.state = IF succeeds THEN "delivered" ELSE "failed"]
<1>1. /\ positions \in [Adapters -> Position] /\ kept \in [Adapters -> Nat]
      /\ message \in [ExecIds -> Message] /\ MessagesAddressed
  BY DEF GuardInv, GuardTypeOK
<1>2. /\ positions' \in [Adapters -> Position] /\ kept' \in [Adapters -> Nat]
      /\ message' \in [ExecIds -> Message]
  BY DeliverKeeps
<1>3. /\ m.state = "in flight" /\ message' = [message EXCEPT ![e] = new]
      /\ \/ /\ succeeds
            /\ positions' = [positions EXCEPT ![t] = Applied(positions[t], m.mode, m.amount)]
            /\ kept' = [kept EXCEPT ![t] = @ + Excess(positions[t], m.mode, m.amount)]
         \/ ~succeeds /\ positions' = positions /\ kept' = kept
  BY DEF Deliver
<1>4. m \in Message /\ t \in Adapters /\ m.amount \in Nat
  BY <1>1, <1>3 DEF MessagesAddressed, Message
<1>5. new = message'[e] /\ new \in Message
  <2> HIDE DEF new
  <2> QED BY <1>1, <1>2, <1>3
<1>6. new.asset = m.asset /\ new.amount = m.amount
      /\ new.state = IF succeeds THEN "delivered" ELSE "failed"
  <2> DEFINE final == IF succeeds THEN "delivered" ELSE "failed"
  <2>1. new = [m EXCEPT !.state = final]
    OBVIOUS
  <2> HIDE DEF final, m, new
  <2>2. new.asset = m.asset /\ new.amount = m.amount /\ new.state = final
    BY <1>4, <2>1 DEF Message
  <2>3. QED
    BY <2>2 DEF final
<1> HIDE DEF new
<1>7. InMarkets(asset, positions, kept) \in Int /\ Total(ExecIds, Sent(asset, message)) \in Nat
  BY <1>1, InMarketsType, SentTotal
<1>8. /\ Net(asset, positions', message', kept') =
             InMarkets(asset, positions', kept') + Total(ExecIds, Sent(asset, message'))
      /\ Net(asset, positions, message, kept) =
             InMarkets(asset, positions, kept) + Total(ExecIds, Sent(asset, message))
  BY <1>1, <1>2, NetParts
<1>9. Total(ExecIds, Sent(asset, message')) =
          Total(ExecIds, Sent(asset, message)) + (OnItsWay(asset, new) - OnItsWay(asset, m))
  <2>1. \A d \in ExecIds \ {e} : message'[d] = message[d]
    BY <1>1, <1>3
  <2> HIDE DEF m
  <2>2. Total(ExecIds, Sent(asset, message')) =
            Total(ExecIds, Sent(asset, message))
                + (OnItsWay(asset, message'[e]) - OnItsWay(asset, message[e]))
    BY <1>1, <1>2, <2>1, SentMoves
  <2>3. QED
    BY <1>5, <2>2 DEF m
<1>10. OnItsWay(asset, m) = IF m.asset = asset THEN m.amount ELSE 0
  BY <1>3 DEF OnItsWay
<1>11. CASE succeeds
  <2>1. /\ positions' = [positions EXCEPT ![t] = Applied(positions[t], m.mode, m.amount)]
        /\ kept' = [kept EXCEPT ![t] = @ + Excess(positions[t], m.mode, m.amount)]
    BY <1>3, <1>11
  <2>2. Coin(m.mode, t) = m.asset
    BY <1>11 DEF TargetAccepts, Coin
  <2>3. OnItsWay(asset, new) = 0
    BY <1>6, <1>11 DEF OnItsWay
  <2> HIDE DEF m, t
  <2>4. InMarkets(asset, positions', kept') =
            InMarkets(asset, positions, kept) + (IF m.asset = asset THEN m.amount ELSE 0)
    <3>1. TargetTakes(positions, positions', kept, kept', t, m.mode, m.amount)
      BY <1>1, <1>4, <2>1 DEF TargetTakes
    <3>2. InMarkets(asset, positions', kept') - InMarkets(asset, positions, kept) =
              IF Coin(m.mode, t) = asset THEN m.amount ELSE 0
      BY <1>1, <1>2, <1>4, <3>1, ApplicationGives
    <3>3. InMarkets(asset, positions', kept') \in Int
      BY <1>2, InMarketsType
    <3>4. QED
      BY <1>4, <1>7, <2>2, <3>2, <3>3
  <2>5. QED
    BY <1>4, <1>7, <1>8, <1>9, <1>10, <2>3, <2>4
<1>12. CASE ~succeeds
  <2>1. positions' = positions /\ kept' = kept
    BY <1>3, <1>12
  <2>2. OnItsWay(asset, new) = OnItsWay(asset, m)
    BY <1>3, <1>6, <1>12 DEF OnItsWay
  <2>3. OnItsWay(asset, m) \in Int
    BY <1>4, <1>10
  <2> HIDE DEF m, t
  <2>4. QED
    BY <1>7, <1>8, <1>9, <2>1, <2>2, <2>3
<1>13. QED
  BY <1>11, <1>12

\* What is reported of a rescue happened: a success was executed, once, and a
\* failure is a message in escrow.
ReportsTrue ==
    \A e \in ExecIds :
        /\ "DELIVERED_SUCCESS" \in reported[e] => runs[e] = 1
        /\ "DELIVERED_FAILED" \in reported[e] => message[e].state = "failed"

RescuesTold == ExecutedOnce /\ ReportsTrue

LEMMA RescuesToldInit == Init => RescuesTold
BY SMT DEF Init, RescuesTold, ExecutedOnce, ReportsTrue, NoMessage

LEMMA SubmitTold ==
  ASSUME GuardInv, RescuesTold, NEW w \in Workflows, Submit(w)
  PROVE  RescuesTold'
<1> DEFINE plan == workflows[w].plan
           id == plan.exec
<1>1. /\ plan \in Plan /\ runs[id] = 0 /\ runs' = [runs EXCEPT ![id] = @ + 1]
      /\ reported' = reported
      /\ SameChainStep(plan, Granted(plan)) \/ CrossChainStep(plan, Granted(plan))
  BY DEF Submit, GuardInv, PlansMade
<1>2. id \in ExecIds /\ runs \in [ExecIds -> Nat] /\ message \in [ExecIds -> Message]
  BY <1>1 DEF Plan, GuardInv, GuardTypeOK
<1>3. \A e \in ExecIds \ {id} : message'[e] = message[e]
  <2>1. \/ message' = message
        \/ \E m : message' = [message EXCEPT ![id] = m]
    BY <1>1 DEF SameChainStep, CrossChainStep
  <2> HIDE DEF id, plan
  <2>2. QED
    BY <1>2, <2>1
<1> HIDE DEF id, plan
<1>4. runs'[id] = 1 /\ \A e \in ExecIds \ {id} : runs'[e] = runs[e]
  BY <1>1, <1>2
<1>5. ExecutedOnce'
  BY <1>2, <1>3, <1>4 DEF RescuesTold, ExecutedOnce
<1>6. "DELIVERED_FAILED" \notin reported[id]
  BY <1>1, <1>2 DEF RescuesTold, ExecutedOnce, ReportsTrue
<1>7. ReportsTrue'
  BY <1>1, <1>2, <1>3, <1>4, <1>6 DEF RescuesTold, ReportsTrue
<1>8. QED
  BY <1>5, <1>7 DEF RescuesTold

LEMMA DeliverTold ==
  ASSUME GuardInv, RescuesTold, NEW e \in ExecIds, NEW works \in BOOLEAN, Deliver(e, works)
  PROVE  RescuesTold'
<1>1. /\ message \in [ExecIds -> Message] /\ message' \in [ExecIds -> Message]
  BY DeliverKeeps DEF GuardInv, GuardTypeOK
<1>2. /\ message[e].state = "in flight" /\ runs' = runs /\ reported' = reported
      /\ \A d \in ExecIds \ {e} : message'[d] = message[d]
  BY <1>1 DEF Deliver
<1>3. runs[e] = 1 /\ "DELIVERED_FAILED" \notin reported[e]
  BY <1>2 DEF RescuesTold, ExecutedOnce, ReportsTrue
<1>4. QED
  BY <1>2, <1>3 DEF RescuesTold, ExecutedOnce, ReportsTrue

LEMMA ReadTold ==
  ASSUME GuardInv, RescuesTold, NEW w \in Workflows,
         NEW readsMessage \in BOOLEAN, NEW readsStatus \in BOOLEAN,
         ReadSettlement(w, readsMessage, readsStatus)
  PROVE  RescuesTold'
<1> DEFINE plan == workflows[w].plan
           id == plan.exec
           seen == Settlement(plan, readsMessage, readsStatus)
<1>1. /\ reported' = [reported EXCEPT ![id] = @ \cup seen]
      /\ runs' = runs /\ message' = message
      /\ plan \in Plan
  BY DEF ReadSettlement, GuardInv, PlansMade
<1>2. /\ id \in ExecIds /\ runs \in [ExecIds -> Nat]
      /\ reported \in [ExecIds -> SUBSET {"DELIVERED_SUCCESS", "DELIVERED_FAILED"}]
  BY <1>1 DEF Plan, GuardInv, GuardTypeOK
<1>3. seen = {} \/ (seen = {"DELIVERED_SUCCESS"} /\ runs[id] > 0)
  BY DEF Settlement
<1>4. runs[id] \in 0..1
  BY <1>2 DEF RescuesTold, ExecutedOnce
<1> HIDE DEF plan, id, seen
<1>5. /\ reported'[id] = reported[id] \cup seen
      /\ \A e \in ExecIds \ {id} : reported'[e] = reported[e]
  BY <1>1, <1>2
<1>6. ReportsTrue'
  BY <1>1, <1>2, <1>3, <1>4, <1>5 DEF RescuesTold, ReportsTrue
<1>7. QED
  BY <1>1, <1>6 DEF RescuesTold, ExecutedOnce

LEMMA ReconcileTold ==
  ASSUME GuardInv, RescuesTold, NEW e \in ExecIds, Reconcile(e)
  PROVE  RescuesTold'
<1>1. /\ reported \in [ExecIds -> SUBSET {"DELIVERED_SUCCESS", "DELIVERED_FAILED"}]
      /\ runs \in [ExecIds -> Nat]
  BY DEF GuardInv, GuardTypeOK
<1>2. runs' = runs /\ message' = message
  BY DEF Reconcile
<1>3. \E s \in {"DELIVERED_SUCCESS", "DELIVERED_FAILED"} :
          /\ reported' = [reported EXCEPT ![e] = @ \cup {s}]
          /\ s = "DELIVERED_SUCCESS" => runs[e] = 1
          /\ s = "DELIVERED_FAILED" => message[e].state = "failed"
  <2>1. runs[e] > 0 \/ message[e].state = "delivered" => runs[e] = 1
    BY <1>1 DEF RescuesTold, ExecutedOnce
  <2>2. QED
    BY <2>1 DEF Reconcile
<1>4. ReportsTrue'
  BY <1>1, <1>2, <1>3 DEF RescuesTold, ReportsTrue
<1>5. QED
  BY <1>2, <1>4 DEF RescuesTold, ExecutedOnce

LEMMA RescuesToldStep == GuardInv /\ RescuesTold /\ [Next]_guardVars => RescuesTold'
<1> SUFFICES ASSUME GuardInv, RescuesTold, [Next]_guardVars PROVE RescuesTold'
  OBVIOUS
<1>1. CASE UNCHANGED <<runs, message, reported>>
  BY <1>1 DEF RescuesTold, ExecutedOnce, ReportsTrue
<1>2. ASSUME NEW w \in Workflows, NEW r \in Requests, NEW readable \in SUBSET Adapters,
             NEW penalty \in Penalties, NEW readsPending \in BOOLEAN,
             MakePlan(w, r, readable, penalty, readsPending)
      PROVE  UNCHANGED <<runs, message, reported>>
  BY <1>2 DEF MakePlan
<1>3. ASSUME NEW w \in Workflows, SubmitUndone(w) \/ WorkflowEnds(w)
      PROVE  UNCHANGED <<runs, message, reported>>
  BY <1>3 DEF SubmitUndone, WorkflowEnds
<1>4. ASSUME NEW a \in Adapters, UserActs(a) PROVE UNCHANGED <<runs, message, reported>>
  BY <1>4 DEF UserActs
<1>5. ASSUME PricesMove \/ ClockTicks \/ UNCHANGED guardVars
      PROVE  UNCHANGED <<runs, message, reported>>
  BY <1>5 DEF PricesMove, ClockTicks, guardVars
<1>6. ASSUME NEW w \in Workflows, Submit(w) PROVE RescuesTold'
  BY <1>6, SubmitTold
<1>7. ASSUME NEW w \in Workflows, NEW readsMessage \in BOOLEAN, NEW readsStatus \in BOOLEAN,
             ReadSettlement(w, readsMessage, readsStatus)
      PROVE  RescuesTold'
  BY <1>7, ReadTold
<1>8. ASSUME NEW e \in ExecIds, NEW works \in BOOLEAN, Deliver(e, works) PROVE RescuesTold'
  BY <1>8, DeliverTold
<1>9. ASSUME NEW e \in ExecIds, Reconcile(e) PROVE RescuesTold'
  BY <1>9, ReconcileTold
<1>10. QED
  BY <1>1, <1>2, <1>3, <1>4, <1>5, <1>6, <1>7, <1>8, <1>9 DEF Next

LEMMA RescuesToldInvariant == GuardSpec => [](GuardInv /\ RescuesTold)
<1>1. Init => GuardInv /\ RescuesTold
  BY GuardInit, RescuesToldInit
<1>2. GuardInv /\ RescuesTold /\ [Next]_guardVars => GuardInv' /\ RescuesTold'
  BY GuardStep, RescuesToldStep
<1>3. QED
  BY <1>1, <1>2, PTL DEF GuardSpec

\* An execution id succeeds once at most, whatever overlaps, and nothing is
\* reported of it that did not happen: a failure only of a message that is in
\* escrow, a success only of an id whose step on the first chain succeeded.
THEOREM GuardReportsTruth == GuardSpec => [](ExecutedOnce /\ ReportsTrue)
<1>1. GuardInv /\ RescuesTold => ExecutedOnce /\ ReportsTrue
  BY DEF RescuesTold
<1>2. QED
  BY <1>1, RescuesToldInvariant, PTL

\* Rescues move an asset between the user's places and lose none of it, for all
\* markets, plans and overlaps.
THEOREM GuardConservesFunds == GuardSpec => FundsConserved
<1> DEFINE Conserved == moves' = moves =>
               \A asset \in Assets :
                   Net(asset, positions', message', kept') = Net(asset, positions, message, kept)
<1>1. GuardInv /\ RescuesTold /\ [Next]_guardVars => Conserved
  <2> SUFFICES ASSUME GuardInv, RescuesTold, [Next]_guardVars, moves' = moves,
                      NEW asset \in Assets
               PROVE  Net(asset, positions', message', kept') =
                          Net(asset, positions, message, kept)
    OBVIOUS
  <2> DEFINE Same == Net(asset, positions', message', kept') =
                         Net(asset, positions, message, kept)
  <2>1. CASE UNCHANGED <<positions, message, kept>>
    BY <2>1
  <2>2. ASSUME NEW w \in Workflows, NEW r \in Requests, NEW readable \in SUBSET Adapters,
               NEW penalty \in Penalties, NEW readsPending \in BOOLEAN,
               MakePlan(w, r, readable, penalty, readsPending)
        PROVE  UNCHANGED <<positions, message, kept>>
    BY <2>2 DEF MakePlan
  <2>3. ASSUME NEW w \in Workflows, SubmitUndone(w) \/ WorkflowEnds(w)
        PROVE  UNCHANGED <<positions, message, kept>>
    BY <2>3 DEF SubmitUndone, WorkflowEnds
  <2>4. ASSUME NEW w \in Workflows, NEW readsMessage \in BOOLEAN, NEW readsStatus \in BOOLEAN,
               ReadSettlement(w, readsMessage, readsStatus)
        PROVE  UNCHANGED <<positions, message, kept>>
    BY <2>4 DEF ReadSettlement
  <2>5. ASSUME NEW e \in ExecIds, Reconcile(e) PROVE UNCHANGED <<positions, message, kept>>
    BY <2>5 DEF Reconcile
  <2>6. ASSUME NEW a \in Adapters, UserActs(a) PROVE FALSE
    BY <2>6 DEF UserActs, GuardInv, GuardTypeOK
  <2>7. ASSUME PricesMove \/ ClockTicks \/ UNCHANGED guardVars
        PROVE  UNCHANGED <<positions, message, kept>>
    BY <2>7 DEF PricesMove, ClockTicks, guardVars
  <2>8. ASSUME NEW w \in Workflows, Submit(w) PROVE Same
    BY <2>8, SubmitConserves DEF RescuesTold
  <2>9. ASSUME NEW e \in ExecIds, NEW works \in BOOLEAN, Deliver(e, works) PROVE Same
    BY <2>9, DeliverConserves
  <2>10. QED
    BY <2>1, <2>2, <2>3, <2>4, <2>5, <2>6, <2>7, <2>8, <2>9 DEF Next
<1>2. QED
  BY <1>1, RescuesToldInvariant, PTL DEF GuardSpec, FundsConserved
=============================================================================
