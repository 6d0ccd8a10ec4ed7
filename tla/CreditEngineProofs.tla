--------------------------- MODULE CreditEngineProofs ---------------------------
(***************************************************************************)
(* Theorems about the engine, for every applicant, amount and unit of      *)
(* money; and what they mean for the search that runs over it.             *)
(***************************************************************************)
EXTENDS MCCreditEngine, ApprovableAmountProofs, LoanIntakeProofs,
        FiniteSetTheorems, WellFoundedInduction

Inputs == [revenue : Nat, amount : Nat, tenure : 1..84, type : BusinessTypes,
           pan : PanChecks]

-------------------------------------------------------------------------------
(* The table of instalments, which a recursion defines.                    *)

\* Induction, on a set of numbers: the least number left out of it would be
\* neither 0 nor the successor of one that is in it.
LEMMA Induction ==
  ASSUME NEW S \in SUBSET Nat, 0 \in S, \A n \in S : n + 1 \in S
  PROVE  S = Nat
<1> DEFINE T == Nat \ S
<1> SUFFICES ASSUME T # {} PROVE FALSE
  OBVIOUS
<1>1. \E x \in T : \A y \in T : <<y, x>> \notin OpToRel(<, Nat)
  <2>1. T \subseteq Nat
    OBVIOUS
  <2> QED BY <2>1, WFMin, NatLessThanWellFounded
<1>2. \A x, y \in Nat : <<y, x>> \in OpToRel(<, Nat) <=> y < x
  BY DEF OpToRel
<1>3. PICK m \in T : \A y \in T : <<y, m>> \notin OpToRel(<, Nat)
  BY <1>1
<1>4. m \in Nat /\ m # 0 /\ \A y \in T : ~(y < m)
  BY <1>2, <1>3
<1>5. m - 1 \in Nat /\ m - 1 < m /\ (m - 1) + 1 = m
  BY <1>4
<1>6. m - 1 \in S
  BY <1>4, <1>5
<1> QED BY <1>3, <1>5, <1>6

Grown(g) == g + (g * MonthlyRate) \div Scale

\* The first n + 1 values of the recursion, written out.
Tables(n) == {h \in [0..n -> Nat] :
                h[0] = Scale /\ \A k \in 1..n : h[k] = Grown(h[k - 1])}

LEMMA GrownType == \A g \in Nat : Grown(g) \in Nat
  BY DEF Grown, MonthlyRate, Scale

LEMMA TablesExist == \A n \in Nat : Tables(n) # {}
<1> DEFINE S == {n \in Nat : Tables(n) # {}}
<1>1. 0 \in S
  <2> DEFINE h == [k \in 0..0 |-> Scale]
  <2>1. Scale \in Nat
    BY DEF Scale
  <2>2. h \in Tables(0)
    BY <2>1 DEF Tables
  <2> QED BY <2>2
<1>2. ASSUME NEW n \in S PROVE n + 1 \in S
  <2>1. n \in Nat /\ n + 1 \in Nat
    OBVIOUS
  <2>2. PICK h : h \in Tables(n)
    OBVIOUS
  <2>3. /\ h \in [0..n -> Nat] /\ h[0] = Scale
        /\ \A k \in 1..n : h[k] = Grown(h[k - 1])
    BY <2>2 DEF Tables
  <2> DEFINE next == [k \in 0..(n + 1) |-> IF k = n + 1 THEN Grown(h[n]) ELSE h[k]]
  <2>4. Grown(h[n]) \in Nat
    BY <2>1, <2>3, GrownType
  <2>5. next \in [0..(n + 1) -> Nat] /\ next[0] = Scale
    BY <2>1, <2>3, <2>4
  <2>6. ASSUME NEW k \in 1..(n + 1) PROVE next[k] = Grown(next[k - 1])
    <3>1. CASE k = n + 1
      <4>1. next[k] = Grown(h[n]) /\ k - 1 = n /\ next[n] = h[n]
        BY <2>1, <3>1
      <4> QED BY <4>1
    <3>2. CASE k # n + 1
      <4>1. k \in 1..n /\ k - 1 \in 0..n
        BY <2>1, <3>2
      <4>2. next[k] = h[k] /\ next[k - 1] = h[k - 1]
        BY <2>1, <4>1
      <4> QED BY <2>3, <4>1, <4>2
    <3> QED BY <3>1, <3>2
  <2> HIDE DEF next
  <2>7. next \in Tables(n + 1)
    BY <2>5, <2>6 DEF Tables
  <2> QED BY <2>1, <2>7
<1> HIDE DEF S
<1>3. S \in SUBSET Nat
  BY DEF S
<1>4. S = Nat
  BY <1>1, <1>2, <1>3, Induction
<1> QED BY <1>4 DEF S

LEMMA TablesAgree ==
  ASSUME NEW m \in Nat, NEW n \in Nat, NEW f \in Tables(m), NEW h \in Tables(n),
         NEW k \in Nat, k <= m, k <= n
  PROVE  f[k] = h[k]
<1> DEFINE S == {i \in Nat : i <= m /\ i <= n => f[i] = h[i]}
<1>1. /\ f[0] = Scale /\ \A i \in 1..m : f[i] = Grown(f[i - 1])
      /\ h[0] = Scale /\ \A i \in 1..n : h[i] = Grown(h[i - 1])
  BY DEF Tables
<1>2. 0 \in S
  BY <1>1
<1>3. ASSUME NEW i \in S PROVE i + 1 \in S
  <2>1. i \in Nat
    OBVIOUS
  <2>2. ASSUME i + 1 <= m, i + 1 <= n PROVE f[i + 1] = h[i + 1]
    <3>1. i + 1 \in 1..m /\ i + 1 \in 1..n /\ (i + 1) - 1 = i /\ i <= m /\ i <= n
      BY <2>1, <2>2
    <3>2. f[i] = h[i]
      BY <3>1
    <3>3. f[i + 1] = Grown(f[i]) /\ h[i + 1] = Grown(h[i])
      BY <1>1, <3>1
    <3> QED BY <3>2, <3>3
  <2> QED BY <2>1, <2>2
<1> HIDE DEF S
<1>4. S \in SUBSET Nat
  BY DEF S
<1>5. S = Nat
  BY <1>2, <1>3, <1>4, Induction
<1> QED BY <1>5 DEF S

\* There is a function that satisfies the recursion, so that growth does.
LEMMA GrowthRecursion ==
  growth = [n \in Nat |-> IF n = 0 THEN Scale ELSE Grown(growth[n - 1])]
<1> DEFINE table(n) == CHOOSE h : h \in Tables(n)
           g == [n \in Nat |-> table(n)[n]]
<1>1. \A n \in Nat : table(n) \in Tables(n)
  BY TablesExist
<1> HIDE DEF table
<1>2. ASSUME NEW n \in Nat
      PROVE  g[n] = IF n = 0 THEN Scale ELSE Grown(g[n - 1])
  <2>1. g[n] = table(n)[n]
    OBVIOUS
  <2>2. CASE n = 0
    BY <1>1, <2>1, <2>2 DEF Tables
  <2>3. CASE n # 0
    <3>1. n - 1 \in Nat /\ n \in 1..n /\ n - 1 <= n /\ n - 1 <= n - 1
      BY <2>3
    <3>2. g[n - 1] = table(n - 1)[n - 1]
      BY <3>1
    <3>3. table(n)[n] = Grown(table(n)[n - 1])
      BY <1>1, <3>1 DEF Tables
    <3>4. table(n)[n - 1] = table(n - 1)[n - 1]
      BY <1>1, <3>1, TablesAgree
    <3> QED BY <2>1, <2>3, <3>2, <3>3, <3>4
  <2> QED BY <2>2, <2>3
<1>3. g = [n \in Nat |-> IF n = 0 THEN Scale ELSE Grown(g[n - 1])]
  BY <1>2
<1> HIDE DEF g
<1>4. \E f : f = [n \in Nat |-> IF n = 0 THEN Scale ELSE Grown(f[n - 1])]
  BY <1>3
<1>5. growth = CHOOSE f : f = [n \in Nat |-> IF n = 0 THEN Scale ELSE Grown(f[n - 1])]
  BY DEF growth, Grown
<1> QED BY <1>4, <1>5

\* One rupee grows by at least the first month's interest every month.
LEMMA GrowthBound ==
  \A n \in Nat : growth[n] \in Nat /\ growth[n] >= Scale + MonthlyRate * n
<1> DEFINE S == {n \in Nat : growth[n] \in Nat /\ growth[n] >= Scale + MonthlyRate * n}
<1>1. 0 \in S
  BY GrowthRecursion DEF Scale, MonthlyRate
<1>2. ASSUME NEW n \in S PROVE n + 1 \in S
  <2> DEFINE g == growth[n]
  <2>1. n \in Nat /\ g \in Nat /\ g >= 100000 + 1500 * n
    BY DEF Scale, MonthlyRate
  <2>2. growth[n + 1] = Grown(g)
    <3>1. n + 1 \in Nat /\ n + 1 # 0 /\ (n + 1) - 1 = n
      BY <2>1
    <3> QED BY <3>1, GrowthRecursion
  <2> HIDE DEF g
  <2>3. Grown(g) \in Nat /\ Grown(g) >= g + 1500
    BY <2>1 DEF Grown, Scale, MonthlyRate
  <2>4. Grown(g) >= 100000 + 1500 * (n + 1)
    BY <2>1, <2>3
  <2> QED BY <2>1, <2>2, <2>3, <2>4 DEF Scale, MonthlyRate
<1> HIDE DEF S
<1>3. S \in SUBSET Nat
  BY DEF S
<1>4. S = Nat
  BY <1>1, <1>2, <1>3, Induction
<1> QED BY <1>4 DEF S

\* The instalment is defined for every tenure there is, and pays more than
\* the interest.
THEOREM InstalmentDefined ==
  /\ Instalment \in [1..84 -> Nat]
  /\ \A n \in 1..84 : Instalment[n] >= MonthlyRate
<1>1. ASSUME NEW n \in 1..84
      PROVE  Instalment[n] \in Nat /\ Instalment[n] >= 1500
  <2> DEFINE g == growth[n]
  <2>1. g \in Nat /\ g >= 101500
    BY GrowthBound DEF Scale, MonthlyRate
  <2>2. Instalment[n] = (1500 * g) \div (g - 100000)
    BY DEF Instalment, Scale, MonthlyRate
  <2> HIDE DEF g
  <2> DEFINE d == g - 100000
             q == (1500 * g) \div d
  <2>3. d \in Nat \ {0} /\ 1500 * g >= 1500 * d /\ 1500 * g \in Nat
    BY <2>1
  <2>4. Instalment[n] = q
    BY <2>2
  <2> DEFINE all == 1500 * g
  <2> HIDE DEF d, all
  <2>5. q \in Int /\ all < (q + 1) * d
    BY <2>3 DEF all
  <2> HIDE DEF q
  <2>6. 1500 * d < (q + 1) * d
    BY <2>3, <2>5 DEF all
  <2>7. 1500 < q + 1
    BY <2>3, <2>5, <2>6
  <2> QED BY <2>4, <2>5, <2>7
<1> QED BY <1>1 DEF Instalment, MonthlyRate

-------------------------------------------------------------------------------
(* Comparisons.                                                            *)

LEMMA ProductMonotone ==
  ASSUME NEW x \in Nat, NEW y \in Nat, NEW k \in Nat, x <= y
  PROVE  x * k <= y * k /\ k * x <= k * y
  OBVIOUS

\* One input is no worse than another: the same, but for less money asked or
\* more of it earned.
NoWorse(i, j) ==
  /\ i.amount <= j.amount
  /\ i.revenue >= j.revenue
  /\ i.tenure = j.tenure /\ i.type = j.type /\ i.pan = j.pan

LEMMA ComparisonsMonotone ==
  ASSUME NEW i \in Inputs, NEW j \in Inputs, NoWorse(i, j)
  PROVE  /\ \A k \in Nat : EmiWithin(j, k) => EmiWithin(i, k)
         /\ \A k \in Nat : EmiBelow(j, k) => EmiBelow(i, k)
         /\ \A k \in Nat : LoanWithin(j, k) => LoanWithin(i, k)
         /\ \A n \in Nat : Earns(j, n) => Earns(i, n)
<1> DEFINE rate == Instalment[j.tenure]
<1>1. /\ i.amount \in Nat /\ j.amount \in Nat /\ i.revenue \in Nat /\ j.revenue \in Nat
      /\ i.amount <= j.amount /\ j.revenue <= i.revenue /\ i.tenure = j.tenure
  BY DEF Inputs, NoWorse
<1>2. rate \in Nat
  BY InstalmentDefined DEF Inputs
<1>3. rate = Instalment[i.tenure]
  BY <1>1
<1> HIDE DEF rate
<1>4. i.amount * rate <= j.amount * rate /\ i.amount * rate \in Nat /\ j.amount * rate \in Nat
  BY <1>1, <1>2, ProductMonotone
<1>5. ASSUME NEW k \in Nat
      PROVE  /\ EmiWithin(j, k) => EmiWithin(i, k)
             /\ EmiBelow(j, k) => EmiBelow(i, k)
  <2> DEFINE part == k * (Scale \div 100)
  <2>1. part \in Nat
    BY DEF Scale
  <2>2. part * j.revenue <= part * i.revenue /\ part * i.revenue \in Nat
          /\ part * j.revenue \in Nat
    BY <1>1, <2>1, ProductMonotone
  <2>3. /\ EmiWithin(i, k) <=> i.amount * rate <= part * i.revenue
        /\ EmiWithin(j, k) <=> j.amount * rate <= part * j.revenue
        /\ EmiBelow(i, k) <=> i.amount * rate < part * i.revenue
        /\ EmiBelow(j, k) <=> j.amount * rate < part * j.revenue
    BY <1>3 DEF EmiWithin, EmiBelow, rate
  <2> HIDE DEF part
  <2> QED BY <1>4, <2>2, <2>3
<1>6. ASSUME NEW k \in Nat PROVE LoanWithin(j, k) => LoanWithin(i, k)
  <2>1. k * j.revenue <= k * i.revenue /\ k * i.revenue \in Nat /\ k * j.revenue \in Nat
    BY <1>1, ProductMonotone
  <2> QED BY <1>1, <2>1 DEF LoanWithin
<1>7. ASSUME NEW n \in Nat PROVE Earns(j, n) => Earns(i, n)
  <2>1. /\ j.revenue * Unit <= i.revenue * Unit
        /\ i.revenue * Unit \in Nat /\ j.revenue * Unit \in Nat
    BY <1>1, UnitAssumption, ProductMonotone
  <2> QED BY <2>1 DEF Earns
<1> QED BY <1>5, <1>6, <1>7

\* What is within a part is within a larger one.
LEMMA BandsNested ==
  ASSUME NEW i \in Inputs, NEW k \in Nat, NEW l \in Nat, k <= l
  PROVE  /\ EmiWithin(i, k) => EmiWithin(i, l)
         /\ LoanWithin(i, k) => LoanWithin(i, l)
         /\ Earns(i, l) => Earns(i, k)
<1> DEFINE rate == Instalment[i.tenure]
           month == i.revenue
<1>1. i.amount \in Nat /\ month \in Nat /\ rate \in Nat /\ i.amount * rate \in Nat
  BY InstalmentDefined DEF Inputs
<1>2. month * Unit \in Nat
  BY <1>1, UnitAssumption
<1>3. Earns(i, l) => Earns(i, k)
  BY <1>2 DEF Earns
<1>4. k * month <= l * month /\ k * month \in Nat /\ l * month \in Nat
  BY <1>1, ProductMonotone
<1>5. LoanWithin(i, k) => LoanWithin(i, l)
  BY <1>1, <1>4 DEF LoanWithin
<1>6. /\ k * 1000 \in Nat /\ l * 1000 \in Nat /\ k * 1000 <= l * 1000
      /\ Scale \div 100 = 1000
  BY DEF Scale
<1>7. (k * 1000) * month <= (l * 1000) * month
        /\ (k * 1000) * month \in Nat /\ (l * 1000) * month \in Nat
  <2> DEFINE m == k * 1000
             n == l * 1000
  <2>1. m \in Nat /\ n \in Nat /\ m <= n
    BY <1>6
  <2> HIDE DEF m, n
  <2>2. m * month <= n * month /\ m * month \in Nat /\ n * month \in Nat
    BY <1>1, <2>1, ProductMonotone
  <2> QED BY <2>2 DEF m, n
<1>8. /\ EmiWithin(i, k) <=> i.amount * rate <= (k * 1000) * month
      /\ EmiWithin(i, l) <=> i.amount * rate <= (l * 1000) * month
  BY <1>6 DEF EmiWithin
<1>9. EmiWithin(i, k) => EmiWithin(i, l)
  <2> DEFINE emi == i.amount * rate
             small == (k * 1000) * month
             large == (l * 1000) * month
  <2>1. emi \in Nat /\ small \in Nat /\ large \in Nat /\ small <= large
    BY <1>1, <1>7
  <2>2. (EmiWithin(i, k) <=> emi <= small) /\ (EmiWithin(i, l) <=> emi <= large)
    BY <1>8
  <2> HIDE DEF emi, small, large
  <2> QED BY <2>1, <2>2
<1> QED BY <1>3, <1>5, <1>9

-------------------------------------------------------------------------------
(* Points.                                                                 *)

\* Each factor's points, as far as they depend on money.
LEMMA EmiBands ==
  ASSUME NEW i \in Inputs
  PROVE  EmiPoints(i) = IF EmiWithin(i, 10) THEN 150
                        ELSE IF EmiWithin(i, 20) THEN 100
                        ELSE IF EmiWithin(i, 30) THEN 40
                        ELSE IF EmiWithin(i, 40) THEN -40
                        ELSE IF EmiWithin(i, 50) THEN -120
                        ELSE -220
<1>1. /\ EmiWithin(i, 10) => EmiWithin(i, 20)
      /\ EmiWithin(i, 20) => EmiWithin(i, 30)
      /\ EmiWithin(i, 30) => EmiWithin(i, 40)
      /\ EmiWithin(i, 40) => EmiWithin(i, 50)
  BY BandsNested
<1> QED BY <1>1 DEF EmiPoints

LEMMA LoanBands ==
  ASSUME NEW i \in Inputs
  PROVE  LoanPoints(i) = IF LoanWithin(i, 3) THEN 90
                         ELSE IF LoanWithin(i, 6) THEN 50
                         ELSE IF LoanWithin(i, 12) THEN 0
                         ELSE IF LoanWithin(i, 24) THEN -80
                         ELSE -200
<1>1. /\ LoanWithin(i, 3) => LoanWithin(i, 6)
      /\ LoanWithin(i, 6) => LoanWithin(i, 12)
      /\ LoanWithin(i, 12) => LoanWithin(i, 24)
  BY BandsNested
<1> QED BY <1>1 DEF LoanPoints

LEMMA RevenueBands ==
  ASSUME NEW i \in Inputs
  PROVE  RevenuePoints(i) = IF Earns(i, 1000000) THEN 80
                            ELSE IF Earns(i, 500000) THEN 50
                            ELSE IF Earns(i, 100000) THEN 20
                            ELSE IF Earns(i, 50000) THEN 0
                            ELSE -100
<1>1. /\ Earns(i, 1000000) => Earns(i, 500000)
      /\ Earns(i, 500000) => Earns(i, 100000)
      /\ Earns(i, 100000) => Earns(i, 50000)
  BY BandsNested
<1> QED BY <1>1 DEF RevenuePoints

\* What the tenure, the sector and the name make of it.
Fixed(i) == tenureFactor(i).points + sectorFactor(i).points
              + panNameConsistencyFactor(i).points

LEMMA FixedPoints ==
  ASSUME NEW i \in Inputs
  PROVE  /\ Fixed(i) \in Int
         /\ Fixed(i) <= 80
         /\ \A j \in Inputs : NoWorse(i, j) => Fixed(i) = Fixed(j)
<1>1. tenureFactor(i).points \in {60, -60, -70, 10}
  BY DEF tenureFactor, Inputs
<1>2. sectorFactor(i).points \in {20, 10, 0}
  BY DEF sectorFactor, SectorPoints, Inputs, BusinessTypes
<1>3. panNameConsistencyFactor(i).points \in {-30, 0}
  BY DEF panNameConsistencyFactor
<1>4. ASSUME NEW j \in Inputs, NoWorse(i, j) PROVE Fixed(i) = Fixed(j)
  BY <1>4 DEF NoWorse, Fixed, tenureFactor, sectorFactor, panNameConsistencyFactor
<1> QED BY <1>1, <1>2, <1>3, <1>4 DEF Fixed

LEMMA ScoreSum ==
  ASSUME NEW i \in Inputs
  PROVE  /\ rawScore(i) = 500 + EmiPoints(i) + LoanPoints(i) + RevenuePoints(i) + Fixed(i)
         /\ rawScore(i) \in Int
<1> DEFINE e == EmiPoints(i)
           l == LoanPoints(i)
           r == RevenuePoints(i)
           t == tenureFactor(i).points
           s == sectorFactor(i).points
           n == panNameConsistencyFactor(i).points
<1>1. e \in Int /\ l \in Int /\ r \in Int
  BY EmiBands, LoanBands, RevenueBands
<1>2. t \in Int /\ s \in Int /\ n \in Int
  BY DEF tenureFactor, sectorFactor, SectorPoints, panNameConsistencyFactor, Inputs,
         BusinessTypes
<1>3. /\ emiToRevenueFactor(i).points = e
      /\ loanToRevenueFactor(i).points = l
      /\ revenueScaleFactor(i).points = r
  BY DEF emiToRevenueFactor, loanToRevenueFactor, revenueScaleFactor
<1>4. rawScore(i) = 500 + e + l + t + r + s + n
  <2>1. /\ FACTORS(i)[1].points = e /\ FACTORS(i)[2].points = l /\ FACTORS(i)[3].points = t
        /\ FACTORS(i)[4].points = r /\ FACTORS(i)[5].points = s /\ FACTORS(i)[6].points = n
    BY <1>3 DEF FACTORS
  <2> QED BY <2>1 DEF rawScore, BASE
<1>5. Fixed(i) = t + s + n
  BY DEF Fixed
<1> HIDE DEF e, l, r, t, s, n
<1>6. rawScore(i) = 500 + e + l + r + Fixed(i) /\ rawScore(i) \in Int
  BY <1>1, <1>2, <1>4, <1>5
<1> QED BY <1>6 DEF e, l, r

-------------------------------------------------------------------------------
(* The verdict.                                                            *)

Acceptable(i) == Earns(i, 25000) /\ LoanWithin(i, 36) /\ EmiBelow(i, 100)

LEMMA RuleIsSequence ==
  ASSUME NEW passed \in BOOLEAN, NEW code, NEW R, Reason(code, 0) \in R
  PROVE  /\ HardRule(passed, code) \in Seq(R)
         /\ HardRule(passed, code) = <<>> <=> passed
<1>1. CASE passed
  BY <1>1 DEF HardRule
<1>2. CASE ~passed
  <2>1. HardRule(passed, code) = <<Reason(code, 0)>>
    BY <1>2 DEF HardRule
  <2> DEFINE r == Reason(code, 0)
  <2> HIDE DEF r
  <2>2. r \in R
    BY DEF r
  <2>3. <<r>> \in Seq(R) /\ <<r>> # <<>>
    BY <2>2
  <2> QED BY <1>2, <2>1, <2>3 DEF r
<1> QED BY <1>1, <1>2

LEMMA NothingInThree ==
  ASSUME NEW R, NEW a \in Seq(R), NEW b \in Seq(R), NEW c \in Seq(R)
  PROVE  (a \o b \o c = <<>>) <=> (a = <<>> /\ b = <<>> /\ c = <<>>)
<1>1. a \o b \in Seq(R) /\ Len(a \o b) = Len(a) + Len(b)
  OBVIOUS
<1>2. a \o b \o c \in Seq(R) /\ Len(a \o b \o c) = Len(a \o b) + Len(c)
  BY <1>1
<1>3. \A q \in Seq(R) : Len(q) \in Nat /\ (q = <<>> <=> Len(q) = 0)
  OBVIOUS
<1> QED BY <1>1, <1>2, <1>3

LEMMA HardRulesFire ==
  ASSUME NEW i \in Inputs
  PROVE  (evaluateHardRules(i) = <<>>) <=> Acceptable(i)
<1> DEFINE R == {Reason("LOW_REVENUE", 0), Reason("DATA_INCONSISTENCY", 0),
                 Reason("UNSERVICEABLE_EMI", 0)}
           a == HardRule(Earns(i, 25000), "LOW_REVENUE")
           b == HardRule(LoanWithin(i, 36), "DATA_INCONSISTENCY")
           c == HardRule(EmiBelow(i, 100), "UNSERVICEABLE_EMI")
<1>1. /\ Earns(i, 25000) \in BOOLEAN
      /\ LoanWithin(i, 36) \in BOOLEAN
      /\ EmiBelow(i, 100) \in BOOLEAN
  BY DEF Earns, LoanWithin, EmiBelow
<1>2. /\ Reason("LOW_REVENUE", 0) \in R
      /\ Reason("DATA_INCONSISTENCY", 0) \in R
      /\ Reason("UNSERVICEABLE_EMI", 0) \in R
  OBVIOUS
<1> HIDE DEF R
<1>3. a \in Seq(R) /\ (a = <<>> <=> Earns(i, 25000))
  BY <1>1, <1>2, RuleIsSequence
<1>4. b \in Seq(R) /\ (b = <<>> <=> LoanWithin(i, 36))
  BY <1>1, <1>2, RuleIsSequence
<1>5. c \in Seq(R) /\ (c = <<>> <=> EmiBelow(i, 100))
  BY <1>1, <1>2, RuleIsSequence
<1>6. evaluateHardRules(i) = a \o b \o c
  BY DEF evaluateHardRules
<1> HIDE DEF a, b, c
<1> QED BY <1>3, <1>4, <1>5, <1>6, NothingInThree DEF Acceptable

\* The score of an acceptable input is its points, within the range.
LEMMA Score ==
  ASSUME NEW i \in Inputs
  PROVE  /\ evaluate(i).creditScore = IF Acceptable(i) THEN clamp(rawScore(i)) ELSE 300
         /\ (evaluate(i).outcome = "APPROVED")
              <=> Acceptable(i) /\ clamp(rawScore(i)) >= 650
         /\ Approved(i) <=> Acceptable(i) /\ clamp(rawScore(i)) >= 650
         /\ clamp(rawScore(i)) \in 300..900
<1>1. clamp(rawScore(i)) \in 300..900
  BY ScoreSum DEF clamp, MIN, MAX
<1>2. CASE Acceptable(i)
  <2>1. evaluate(i) = Scored(i)
    BY <1>2, HardRulesFire DEF evaluate
  <2>2. /\ Scored(i).creditScore = creditScore(i)
        /\ Scored(i).outcome = IF passes(i) THEN "APPROVED" ELSE "REJECTED"
    BY DEF Scored
  <2> QED BY <1>1, <1>2, <2>1, <2>2, HardRulesFire
          DEF Approved, passes, creditScore, APPROVAL_THRESHOLD
<1>3. CASE ~Acceptable(i)
  <2>1. evaluate(i) = [outcome |-> "REJECTED", creditScore |-> MIN,
                       reasons |-> evaluateHardRules(i)]
    BY <1>3, HardRulesFire DEF evaluate
  <2> QED BY <1>1, <1>3, <2>1, HardRulesFire DEF Approved, MIN
<1> QED BY <1>2, <1>3

\* Asking for less or earning more costs no points and meets every rule that
\* was met.
LEMMA EngineMonotone ==
  ASSUME NEW i \in Inputs, NEW j \in Inputs, NoWorse(i, j)
  PROVE  /\ evaluate(i).creditScore >= evaluate(j).creditScore
         /\ Approved(j) => Approved(i)
<1>1. Acceptable(j) => Acceptable(i)
  BY ComparisonsMonotone DEF Acceptable
<1>2. EmiPoints(i) >= EmiPoints(j) /\ EmiPoints(i) \in Int /\ EmiPoints(j) \in Int
  BY EmiBands, ComparisonsMonotone
<1>3. LoanPoints(i) >= LoanPoints(j) /\ LoanPoints(i) \in Int /\ LoanPoints(j) \in Int
  BY LoanBands, ComparisonsMonotone
<1>4. RevenuePoints(i) >= RevenuePoints(j) /\ RevenuePoints(i) \in Int /\ RevenuePoints(j) \in Int
  BY RevenueBands, ComparisonsMonotone
<1>5. Fixed(i) = Fixed(j) /\ Fixed(i) \in Int
  BY FixedPoints
<1>6. rawScore(i) >= rawScore(j) /\ rawScore(i) \in Int /\ rawScore(j) \in Int
  BY <1>2, <1>3, <1>4, <1>5, ScoreSum
<1>7. clamp(rawScore(i)) >= clamp(rawScore(j))
  BY <1>6 DEF clamp, MIN, MAX
<1>8. /\ clamp(rawScore(i)) \in 300..900 /\ clamp(rawScore(j)) \in 300..900
      /\ evaluate(i).creditScore = IF Acceptable(i) THEN clamp(rawScore(i)) ELSE 300
      /\ evaluate(j).creditScore = IF Acceptable(j) THEN clamp(rawScore(j)) ELSE 300
      /\ Approved(i) <=> Acceptable(i) /\ clamp(rawScore(i)) >= 650
      /\ Approved(j) <=> Acceptable(j) /\ clamp(rawScore(j)) >= 650
  BY Score
<1> DEFINE ci == clamp(rawScore(i))
           cj == clamp(rawScore(j))
<1>9. evaluate(i).creditScore >= evaluate(j).creditScore
  <2>1. ci >= cj /\ ci \in 300..900 /\ cj \in 300..900
    BY <1>7, <1>8
  <2>2. /\ evaluate(i).creditScore = IF Acceptable(i) THEN ci ELSE 300
        /\ evaluate(j).creditScore = IF Acceptable(j) THEN cj ELSE 300
    BY <1>8
  <2> HIDE DEF ci, cj
  <2>3. CASE Acceptable(j)
    BY <1>1, <2>1, <2>2, <2>3
  <2>4. CASE ~Acceptable(j)
    <3>1. evaluate(j).creditScore = 300
      BY <2>2, <2>4
    <3>2. evaluate(i).creditScore \in 300..900
      BY <2>1, <2>2
    <3> QED BY <3>1, <3>2
  <2> QED BY <2>3, <2>4
<1>10. Approved(j) => Approved(i)
  <2>1. ci >= cj /\ ci \in Int /\ cj \in Int
    BY <1>7, <1>8
  <2> HIDE DEF ci, cj
  <2>2. cj >= 650 => ci >= 650
    BY <2>1
  <2> QED BY <1>1, <1>8, <2>2 DEF ci, cj
<1> QED BY <1>9, <1>10

LEMMA AskedTypes ==
  ASSUME NEW p \in Applicants, NEW x \in Nat
  PROVE  /\ InputFor(p, x) \in Inputs
         /\ InputFor(p, x) = [revenue |-> p.revenue, amount |-> x, tenure |-> p.tenure,
                              type |-> p.type, pan |-> p.pan]
  BY PeopleAssumption DEF People, Inputs, InputFor, InputOf

\* The score is monotone in the amount and in the revenue, for any applicants
\* and amounts.
THEOREM ScoreIsMonotone == Spec => []ScoreMonotone
<1>1. TypeOK => ScoreMonotone
  <2> SUFFICES ASSUME TypeOK, pc = "start"
               PROVE  /\ \A x \in Amounts : x <= requested =>
                           evaluate(InputFor(applicant, x)).creditScore
                             >= Verdict.creditScore
                      /\ \A p \in Applicants :
                           p.revenue >= applicant.revenue
                             /\ p = [applicant EXCEPT !.revenue = p.revenue] =>
                           evaluate(InputFor(p, requested)).creditScore
                             >= Verdict.creditScore
    BY DEF ScoreMonotone
  <2>1. applicant \in Applicants /\ requested \in Nat /\ Amounts \subseteq Nat
    BY SearchAssumption DEF TypeOK
  <2>2. Asked = InputFor(applicant, requested) /\ Asked \in Inputs
    BY <2>1, AskedTypes DEF Asked
  <2>3. ASSUME NEW x \in Amounts, x <= requested
        PROVE  evaluate(InputFor(applicant, x)).creditScore >= Verdict.creditScore
    <3>1. InputFor(applicant, x) \in Inputs /\ NoWorse(InputFor(applicant, x), Asked)
      BY <2>1, <2>2, <2>3, AskedTypes, PeopleAssumption DEF NoWorse, People
    <3> QED BY <2>2, <3>1, EngineMonotone DEF Verdict
  <2>4. ASSUME NEW p \in Applicants, p.revenue >= applicant.revenue,
               p = [applicant EXCEPT !.revenue = p.revenue]
        PROVE  evaluate(InputFor(p, requested)).creditScore >= Verdict.creditScore
    <3>1. p.tenure = applicant.tenure /\ p.type = applicant.type /\ p.pan = applicant.pan
      BY <2>1, <2>4, PeopleAssumption DEF People
    <3>2. InputFor(p, requested) \in Inputs /\ NoWorse(InputFor(p, requested), Asked)
      BY <2>1, <2>2, <2>4, <3>1, AskedTypes DEF NoWorse
    <3> QED BY <2>2, <3>2, EngineMonotone DEF Verdict
  <2> QED BY <2>3, <2>4
<1> QED BY <1>1, SearchTypeCorrect, PTL

\* Whatever else speaks for the applicant, an instalment above 40% of the
\* revenue or a loan above two years of it leaves the score below the
\* threshold.
THEOREM ApprovalsAreAffordable == Spec => []ApprovalIsAffordable
<1>1. ASSUME NEW i \in Inputs, evaluate(i).outcome = "APPROVED"
      PROVE  EmiWithin(i, 40) /\ LoanWithin(i, 24)
  <2>1. rawScore(i) >= 650 /\ rawScore(i) \in Int
    BY <1>1, Score, ScoreSum DEF clamp, MIN, MAX
  <2>2. /\ LoanPoints(i) \in Int /\ LoanPoints(i) <= 90
        /\ RevenuePoints(i) \in Int /\ RevenuePoints(i) <= 80
        /\ EmiPoints(i) \in Int /\ EmiPoints(i) <= 150
        /\ Fixed(i) \in Int /\ Fixed(i) <= 80
    BY EmiBands, LoanBands, RevenueBands, FixedPoints
  <2>3. EmiPoints(i) > -120 /\ LoanPoints(i) > -200
    BY <2>1, <2>2, ScoreSum
  <2>4. ~EmiWithin(i, 40) => EmiPoints(i) <= -120
    <3>1. /\ EmiWithin(i, 10) => EmiWithin(i, 40)
          /\ EmiWithin(i, 20) => EmiWithin(i, 40)
          /\ EmiWithin(i, 30) => EmiWithin(i, 40)
      BY BandsNested
    <3> QED BY <3>1, EmiBands
  <2>5. ~LoanWithin(i, 24) => LoanPoints(i) <= -200
    <3>1. /\ LoanWithin(i, 3) => LoanWithin(i, 24)
          /\ LoanWithin(i, 6) => LoanWithin(i, 24)
          /\ LoanWithin(i, 12) => LoanWithin(i, 24)
      BY BandsNested
    <3> QED BY <3>1, LoanBands
  <2> QED BY <2>2, <2>3, <2>4, <2>5
<1>2. TypeOK => ApprovalIsAffordable
  <2> SUFFICES ASSUME TypeOK, Verdict.outcome = "APPROVED"
               PROVE  EmiWithin(Asked, 40) /\ LoanWithin(Asked, 24)
    BY DEF ApprovalIsAffordable
  <2>1. Asked \in Inputs
    BY AskedTypes, SearchAssumption DEF Asked, TypeOK
  <2> QED BY <1>1, <2>1 DEF Verdict
<1> QED BY <1>2, SearchTypeCorrect, PTL

\* The engine is one the search may take for granted ...
THEOREM EngineIsMonotone ==
  ASSUME \A p \in Applicants, x \in Nat : Approves(p, x) = EngineApproves(p, x)
  PROVE  Monotone
<1> SUFFICES ASSUME NEW p \in Applicants, NEW x \in Nat, NEW y \in Nat,
                    minAmount <= x, x <= y, Approves(p, y)
             PROVE  Approves(p, x)
  BY DEF Monotone
<1>1. InputFor(p, x) \in Inputs /\ InputFor(p, y) \in Inputs
        /\ NoWorse(InputFor(p, x), InputFor(p, y))
  BY AskedTypes, PeopleAssumption DEF NoWorse, People
<1> QED BY <1>1, EngineMonotone DEF EngineApproves

\* ... so what is offered after a decline would be approved, and no amount
\* above it by more than the tolerance and a rounding step would.
THEOREM EngineOffersAreBest ==
  ASSUME \A p \in Applicants, x \in Nat : Approves(p, x) = EngineApproves(p, x)
  PROVE  Spec => [](OfferApproved /\ OfferMaximal)
<1>1. Monotone
  BY EngineIsMonotone
<1>2. Spec => []OfferApproved
  BY <1>1, OfferIsApproved
<1>3. Spec => []OfferMaximal
  BY <1>1, OfferIsMaximal
<1> QED BY <1>2, <1>3, PTL

-------------------------------------------------------------------------------
(* The order of the reasons.                                               *)

\* Ranked by a key that tells them apart, the elements of a finite set take the
\* places from 0 to one less than their number, each once.
LEMMA Ranking ==
  ASSUME NEW S, IsFiniteSet(S), NEW key \in [S -> Int],
         \A a, b \in S : key[a] = key[b] => a = b
  PROVE  LET place == [x \in S |-> Cardinality({y \in S : key[y] < key[x]})]
         IN  /\ place \in Bijection(S, 0..(Cardinality(S) - 1))
             /\ \A a, b \in S : place[a] < place[b] => key[a] < key[b]
<1> DEFINE n == Cardinality(S)
           Lower(x) == {y \in S : key[y] < key[x]}
           place == [x \in S |-> Cardinality(Lower(x))]
<1>1. n \in Nat
  BY FS_CardinalityType
<1>2. ASSUME NEW x \in S
      PROVE  IsFiniteSet(Lower(x)) /\ Cardinality(Lower(x)) \in 0..(n - 1)
  <2>1. IsFiniteSet(S \ {x}) /\ Cardinality(S \ {x}) = n - 1
    BY FS_RemoveElement
  <2>2. Lower(x) \in SUBSET (S \ {x})
    OBVIOUS
  <2>3. IsFiniteSet(Lower(x)) /\ Cardinality(Lower(x)) <= n - 1
    BY <2>1, <2>2, FS_Subset
  <2>4. Cardinality(Lower(x)) \in Nat
    BY <2>3, FS_CardinalityType
  <2> QED BY <1>1, <2>3, <2>4
<1>3. ASSUME NEW a \in S, NEW b \in S, key[a] < key[b]
      PROVE  Cardinality(Lower(a)) < Cardinality(Lower(b))
  <2>1. a \notin Lower(a) /\ Lower(a) \cup {a} \in SUBSET Lower(b)
    BY <1>3
  <2>2. Cardinality(Lower(a) \cup {a}) = Cardinality(Lower(a)) + 1
    BY <1>2, <2>1, FS_AddElement
  <2>3. Cardinality(Lower(a) \cup {a}) <= Cardinality(Lower(b))
    BY <1>2, <2>1, FS_Subset
  <2>4. Cardinality(Lower(a)) \in 0..(n - 1)
    BY <1>2, Zenon
  <2>5. Cardinality(Lower(b)) \in 0..(n - 1)
    BY <1>2, Zenon
  <2> HIDE DEF Lower
  <2> QED BY <1>1, <2>2, <2>3, <2>4, <2>5
<1>4. place \in [S -> 0..(n - 1)]
  BY <1>2
<1>5. \A x \in S : place[x] = Cardinality(Lower(x))
  OBVIOUS
<1> HIDE DEF place, Lower, n
<1>6. \A a, b \in S : key[a] < key[b] => place[a] < place[b]
  BY <1>3, <1>5
<1>7. \A a, b \in S : place[a] < place[b] => key[a] < key[b]
  <2> SUFFICES ASSUME NEW a \in S, NEW b \in S, place[a] < place[b]
               PROVE  key[a] < key[b]
    OBVIOUS
  <2>1. ~(key[b] < key[a]) /\ key[a] # key[b]
    BY <1>1, <1>4, <1>6
  <2> QED BY <2>1
<1>8. place \in Injection(S, 0..(n - 1))
  <2>1. \A a, b \in S : place[a] = place[b] => a = b
    <3> SUFFICES ASSUME NEW a \in S, NEW b \in S, place[a] = place[b] PROVE a = b
      OBVIOUS
    <3>1. ~(key[b] < key[a]) /\ ~(key[a] < key[b])
      BY <1>1, <1>4, <1>6
    <3> QED BY <3>1
  <2> QED BY <1>4, <2>1 DEF Injection, IsInjective
<1>9. IsFiniteSet(0..(n - 1)) /\ Cardinality(0..(n - 1)) = n
  BY <1>1, FS_Interval
<1>10. place \in Surjection(S, 0..(n - 1))
  BY <1>8, <1>9, FS_Injection DEF n
<1> QED BY <1>7, <1>8, <1>10 DEF Bijection, place, Lower, n

\* What is sorted is every reason once, each before those it precedes.
LEMMA SortedByImpact ==
  ASSUME NEW S, IsFiniteSet(S), NEW key \in [S -> Int],
         \A a, b \in S : key[a] = key[b] => a = b,
         \A a, b \in S : Precedes(a, b) <=> key[a] < key[b]
  PROVE  /\ DOMAIN sortByImpact(S) = 1..Cardinality(S)
         /\ \A i \in 1..Cardinality(S) : sortByImpact(S)[i] \in S
         /\ \A r \in S : \E i \in 1..Cardinality(S) : sortByImpact(S)[i] = r
         /\ \A i, j \in 1..Cardinality(S) :
              i < j => Precedes(sortByImpact(S)[i], sortByImpact(S)[j])
<1> DEFINE n == Cardinality(S)
           place == [x \in S |-> Cardinality({y \in S : key[y] < key[x]})]
           q == sortByImpact(S)
<1>1. n \in Nat
  BY FS_CardinalityType
<1>2. place \in Bijection(S, 0..(n - 1))
        /\ \A a, b \in S : place[a] < place[b] => key[a] < key[b]
  BY Ranking
<1>3. \A r \in S : Cardinality(Before(S, r)) = place[r]
  <2> SUFFICES ASSUME NEW r \in S PROVE Cardinality(Before(S, r)) = place[r]
    OBVIOUS
  <2>1. Before(S, r) = {y \in S : key[y] < key[r]}
    BY DEF Before
  <2> QED BY <2>1
<1> HIDE DEF place
<1>4. /\ place \in [S -> 0..(n - 1)]
      /\ \A a, b \in S : place[a] = place[b] => a = b
      /\ \A k \in 0..(n - 1) : \E r \in S : place[r] = k
  BY <1>2 DEF Bijection, Injection, Surjection, IsInjective
<1>5. q = [i \in 1..n |-> CHOOSE r \in S : Cardinality(Before(S, r)) = i - 1]
  BY DEF sortByImpact
<1> HIDE DEF q, n
<1>6. ASSUME NEW i \in 1..n PROVE q[i] \in S /\ place[q[i]] = i - 1
  <2>1. i - 1 \in 0..(n - 1)
    BY <1>1
  <2>2. \E r \in S : Cardinality(Before(S, r)) = i - 1
    BY <1>3, <1>4, <2>1
  <2>3. q[i] = CHOOSE r \in S : Cardinality(Before(S, r)) = i - 1
    BY <1>5
  <2>4. q[i] \in S /\ Cardinality(Before(S, q[i])) = i - 1
    BY <2>2, <2>3
  <2> QED BY <1>3, <2>4
<1>7. ASSUME NEW r \in S PROVE \E i \in 1..n : q[i] = r
  <2>1. place[r] + 1 \in 1..n /\ (place[r] + 1) - 1 = place[r]
    BY <1>1, <1>4
  <2> QED BY <1>4, <1>6, <2>1
<1>8. ASSUME NEW i \in 1..n, NEW j \in 1..n, i < j PROVE Precedes(q[i], q[j])
  <2>1. place[q[i]] < place[q[j]]
    BY <1>6, <1>8
  <2> QED BY <1>2, <1>6, <2>1
<1>9. DOMAIN q = 1..n
  BY <1>5
<1> QED BY <1>6, <1>7, <1>8, <1>9 DEF q, n

-------------------------------------------------------------------------------
(* The reasons of a scored input.                                          *)

\* The reasons the six factors and the threshold give.
Given(i) == FactorReasons(i) \cup ReasonIf(~passes(i), "SCORE_BELOW_THRESHOLD", 0)

LEMMA GivenReasons ==
  ASSUME NEW i \in Inputs, NEW r
  PROVE  r \in Given(i) <=>
           \/ EmiWithin(i, 10) /\ r = Reason("STRONG_REVENUE_COVERAGE", EmiPoints(i))
           \/ ~EmiWithin(i, 30) /\ r = Reason("HIGH_EMI_BURDEN", EmiPoints(i))
           \/ LoanWithin(i, 3) /\ r = Reason("COMFORTABLE_LOAN_RATIO", LoanPoints(i))
           \/ ~LoanWithin(i, 12) /\ r = Reason("HIGH_LOAN_RATIO", LoanPoints(i))
           \/ i.tenure \in 12..36 /\ r = Reason("HEALTHY_TENURE_FIT", 60)
           \/ i.tenure < 6 /\ r = Reason("SHORT_TENURE_RISK", -60)
           \/ i.tenure > 48 /\ r = Reason("LONG_TENURE_RISK", -70)
           \/ ~Earns(i, 50000) /\ r = Reason("LOW_REVENUE", RevenuePoints(i))
           \/ i.pan = "mismatch" /\ r = Reason("PAN_NAME_MISMATCH", -30)
           \/ ~passes(i) /\ r = Reason("SCORE_BELOW_THRESHOLD", 0)
<1>0. i.tenure \in 1..84
  BY DEF Inputs
<1>1. FactorReasons(i) = emiToRevenueFactor(i).reasons \cup loanToRevenueFactor(i).reasons
         \cup tenureFactor(i).reasons \cup revenueScaleFactor(i).reasons
         \cup sectorFactor(i).reasons \cup panNameConsistencyFactor(i).reasons
  <2>1. /\ FACTORS(i)[1] = emiToRevenueFactor(i) /\ FACTORS(i)[2] = loanToRevenueFactor(i)
        /\ FACTORS(i)[3] = tenureFactor(i) /\ FACTORS(i)[4] = revenueScaleFactor(i)
        /\ FACTORS(i)[5] = sectorFactor(i) /\ FACTORS(i)[6] = panNameConsistencyFactor(i)
    BY DEF FACTORS
  <2>2. 1..6 = {1, 2, 3, 4, 5, 6}
    OBVIOUS
  <2>3. FactorReasons(i) = UNION {FACTORS(i)[k].reasons : k \in {1, 2, 3, 4, 5, 6}}
    BY <2>2 DEF FactorReasons
  <2> QED BY <2>1, <2>3
<1>2. r \in emiToRevenueFactor(i).reasons <=>
           \/ EmiWithin(i, 10) /\ r = Reason("STRONG_REVENUE_COVERAGE", EmiPoints(i))
           \/ ~EmiWithin(i, 30) /\ r = Reason("HIGH_EMI_BURDEN", EmiPoints(i))
  BY DEF emiToRevenueFactor, ReasonIf
<1>3. r \in loanToRevenueFactor(i).reasons <=>
           \/ LoanWithin(i, 3) /\ r = Reason("COMFORTABLE_LOAN_RATIO", LoanPoints(i))
           \/ ~LoanWithin(i, 12) /\ r = Reason("HIGH_LOAN_RATIO", LoanPoints(i))
  BY DEF loanToRevenueFactor, ReasonIf
<1>4. r \in tenureFactor(i).reasons <=>
           \/ i.tenure \in 12..36 /\ r = Reason("HEALTHY_TENURE_FIT", 60)
           \/ i.tenure < 6 /\ r = Reason("SHORT_TENURE_RISK", -60)
           \/ i.tenure > 48 /\ r = Reason("LONG_TENURE_RISK", -70)
  BY <1>0 DEF tenureFactor
<1>5. r \in revenueScaleFactor(i).reasons
        <=> ~Earns(i, 50000) /\ r = Reason("LOW_REVENUE", RevenuePoints(i))
  BY DEF revenueScaleFactor, ReasonIf
<1>6. r \notin sectorFactor(i).reasons
  BY DEF sectorFactor
<1>7. r \in panNameConsistencyFactor(i).reasons
        <=> i.pan = "mismatch" /\ r = Reason("PAN_NAME_MISMATCH", -30)
  BY DEF panNameConsistencyFactor
<1>8. r \in ReasonIf(~passes(i), "SCORE_BELOW_THRESHOLD", 0)
        <=> ~passes(i) /\ r = Reason("SCORE_BELOW_THRESHOLD", 0)
  BY DEF ReasonIf
<1> QED BY <1>1, <1>2, <1>3, <1>4, <1>5, <1>6, <1>7, <1>8 DEF Given

\* Where a reason stands among those of one evaluation.
Standing(r) == 1000 * severityRank[Severity(r.code)] - Magnitude(r.pointsImpact)

LEMMA Severities ==
  /\ \A c \in {"LOW_REVENUE", "DATA_INCONSISTENCY", "UNSERVICEABLE_EMI",
               "SCORE_BELOW_THRESHOLD"} : Severity(c) = "CRITICAL"
  /\ \A c \in {"HIGH_EMI_BURDEN", "HIGH_LOAN_RATIO", "SHORT_TENURE_RISK",
               "LONG_TENURE_RISK", "PAN_NAME_MISMATCH"} : Severity(c) = "WARNING"
  /\ \A c \in {"STRONG_REVENUE_COVERAGE", "COMFORTABLE_LOAN_RATIO",
               "HEALTHY_TENURE_FIT"} : Severity(c) = "POSITIVE"
  /\ severityRank["CRITICAL"] = 0 /\ severityRank["WARNING"] = 1
  /\ severityRank["POSITIVE"] = 2
  BY DEF Severity, severityRank

\* Each reason stands apart.
LEMMA Standings ==
  ASSUME NEW i \in Inputs, NEW r \in Given(i)
  PROVE  /\ r = Reason(r.code, r.pointsImpact)
         /\ \/ r.code = "STRONG_REVENUE_COVERAGE" /\ r.pointsImpact = EmiPoints(i)
                 /\ Standing(r) = 1850
            \/ r.code = "HIGH_EMI_BURDEN" /\ r.pointsImpact = EmiPoints(i)
                 /\ Standing(r) \in {960, 880, 780}
            \/ r.code = "COMFORTABLE_LOAN_RATIO" /\ r.pointsImpact = LoanPoints(i)
                 /\ Standing(r) = 1910
            \/ r.code = "HIGH_LOAN_RATIO" /\ r.pointsImpact = LoanPoints(i)
                 /\ Standing(r) \in {920, 800}
            \/ r.code = "HEALTHY_TENURE_FIT" /\ r.pointsImpact = 60 /\ Standing(r) = 1940
            \/ r.code = "SHORT_TENURE_RISK" /\ r.pointsImpact = -60 /\ Standing(r) = 940
            \/ r.code = "LONG_TENURE_RISK" /\ r.pointsImpact = -70 /\ Standing(r) = 930
            \/ r.code = "LOW_REVENUE" /\ r.pointsImpact = -100 /\ Standing(r) = -100
            \/ r.code = "PAN_NAME_MISMATCH" /\ r.pointsImpact = -30 /\ Standing(r) = 970
            \/ r.code = "SCORE_BELOW_THRESHOLD" /\ r.pointsImpact = 0 /\ Standing(r) = 0
<1>1. ASSUME NEW c, NEW p, r = Reason(c, p)
      PROVE  r.code = c /\ r.pointsImpact = p /\ r = Reason(r.code, r.pointsImpact)
  BY <1>1 DEF Reason
<1>2. /\ EmiWithin(i, 10) => EmiPoints(i) = 150
      /\ ~EmiWithin(i, 30) => EmiPoints(i) \in {-40, -120, -220}
      /\ LoanWithin(i, 3) => LoanPoints(i) = 90
      /\ ~LoanWithin(i, 12) => LoanPoints(i) \in {-80, -200}
      /\ ~Earns(i, 50000) => RevenuePoints(i) = -100
  <2>1. EmiWithin(i, 10) => EmiWithin(i, 30)
    BY BandsNested
  <2>2. EmiWithin(i, 20) => EmiWithin(i, 30)
    BY BandsNested
  <2>3. LoanWithin(i, 3) => LoanWithin(i, 12)
    BY BandsNested
  <2>4. LoanWithin(i, 6) => LoanWithin(i, 12)
    BY BandsNested
  <2>5. /\ Earns(i, 1000000) => Earns(i, 50000)
        /\ Earns(i, 500000) => Earns(i, 50000)
        /\ Earns(i, 100000) => Earns(i, 50000)
    BY BandsNested
  <2> QED BY <2>1, <2>2, <2>3, <2>4, <2>5, EmiBands, LoanBands, RevenueBands
<1>3. ASSUME NEW c, NEW p \in Int, r = Reason(c, p)
      PROVE  Standing(r) = 1000 * severityRank[Severity(c)] - (IF p < 0 THEN -p ELSE p)
  BY <1>1, <1>3 DEF Standing, Magnitude
<1>4. CASE EmiWithin(i, 10) /\ r = Reason("STRONG_REVENUE_COVERAGE", EmiPoints(i))
  BY <1>1, <1>2, <1>3, <1>4, Severities
<1>5. CASE ~EmiWithin(i, 30) /\ r = Reason("HIGH_EMI_BURDEN", EmiPoints(i))
  BY <1>1, <1>2, <1>3, <1>5, Severities
<1>6. CASE LoanWithin(i, 3) /\ r = Reason("COMFORTABLE_LOAN_RATIO", LoanPoints(i))
  BY <1>1, <1>2, <1>3, <1>6, Severities
<1>7. CASE ~LoanWithin(i, 12) /\ r = Reason("HIGH_LOAN_RATIO", LoanPoints(i))
  BY <1>1, <1>2, <1>3, <1>7, Severities
<1>8. CASE r = Reason("HEALTHY_TENURE_FIT", 60)
  BY <1>1, <1>3, <1>8, Severities
<1>9. CASE r = Reason("SHORT_TENURE_RISK", -60)
  BY <1>1, <1>3, <1>9, Severities
<1>10. CASE r = Reason("LONG_TENURE_RISK", -70)
  BY <1>1, <1>3, <1>10, Severities
<1>11. CASE ~Earns(i, 50000) /\ r = Reason("LOW_REVENUE", RevenuePoints(i))
  BY <1>1, <1>2, <1>3, <1>11, Severities
<1>12. CASE r = Reason("PAN_NAME_MISMATCH", -30)
  BY <1>1, <1>3, <1>12, Severities
<1>13. CASE r = Reason("SCORE_BELOW_THRESHOLD", 0)
  BY <1>1, <1>3, <1>13, Severities
<1> QED BY <1>4, <1>5, <1>6, <1>7, <1>8, <1>9, <1>10, <1>11, <1>12, <1>13, GivenReasons

\* No two reasons of one evaluation tie under sortByImpact, so that the order in
\* which they were pushed never shows.
THEOREM NoTies ==
  ASSUME NEW i \in Inputs
  PROVE  /\ \A r \in Given(i) : Standing(r) \in Int
         /\ \A a, b \in Given(i) : Standing(a) = Standing(b) => a = b
         /\ \A a, b \in Given(i) : Precedes(a, b) <=> Standing(a) < Standing(b)
<1>1. ASSUME NEW r \in Given(i) PROVE Standing(r) \in Int
  BY Standings
<1>2. ASSUME NEW a \in Given(i), NEW b \in Given(i), Standing(a) = Standing(b)
      PROVE  a = b
  <2>1. a.code = b.code
    BY <1>2, Standings
  <2>2. a.pointsImpact = b.pointsImpact
    BY <2>1, Standings
  <2> QED BY <2>1, <2>2, Standings
<1>3. ASSUME NEW r \in Given(i)
      PROVE  /\ severityRank[Severity(r.code)] \in 0..2
             /\ Magnitude(r.pointsImpact) \in 0..300
  <2>1. severityRank[Severity(r.code)] \in 0..2
    BY Standings, Severities
  <2>2. Magnitude(r.pointsImpact)
          = 1000 * severityRank[Severity(r.code)] - Standing(r)
    <3>1. r.pointsImpact \in Int
      BY Standings, EmiBands, LoanBands
    <3>2. Magnitude(r.pointsImpact) \in Int
      BY <3>1 DEF Magnitude
    <3> QED BY <2>1, <3>2 DEF Standing
  <2>3. Magnitude(r.pointsImpact) \in 0..300
    BY <2>2, Standings, Severities
  <2> QED BY <2>1, <2>3
<1>4. ASSUME NEW a \in Given(i), NEW b \in Given(i)
      PROVE  Precedes(a, b) <=> Standing(a) < Standing(b)
  <2> DEFINE ra == severityRank[Severity(a.code)]
             rb == severityRank[Severity(b.code)]
             ma == Magnitude(a.pointsImpact)
             mb == Magnitude(b.pointsImpact)
  <2>1. ra \in 0..2 /\ rb \in 0..2 /\ ma \in 0..300 /\ mb \in 0..300
    BY <1>3
  <2>2. Standing(a) = 1000 * ra - ma /\ Standing(b) = 1000 * rb - mb
    BY DEF Standing
  <2>3. Precedes(a, b) <=> ra < rb \/ (ra = rb /\ ma > mb)
    BY DEF Precedes
  <2> HIDE DEF ra, rb, ma, mb
  <2> QED BY <2>1, <2>2, <2>3
<1> QED BY <1>1, <1>2, <1>4

\* The reasons stand at different places between -100 and 2000: they are
\* finitely many.
LEMMA GivenIsFinite ==
  ASSUME NEW i \in Inputs
  PROVE  IsFiniteSet(Given(i))
<1> DEFINE G == Given(i)
           least == -100
           most == 2000
           places == least..most
           key == [r \in G |-> Standing(r)]
<1>1. \A r \in G : Standing(r) \in places
  BY Standings
<1>2. \A a, b \in G : Standing(a) = Standing(b) => a = b
  BY NoTies
<1>3. IsFiniteSet(places)
  <2>1. least \in Int /\ most \in Int
    OBVIOUS
  <2> HIDE DEF least, most
  <2> QED BY <2>1, FS_Interval
<1> HIDE DEF G, places
<1>4. key \in Injection(G, places)
  BY <1>1, <1>2 DEF Injection, IsInjective
<1> QED BY <1>3, <1>4, FS_Injection DEF G

\* What an applicant reads of an evaluation that no hard rule ended: every reason
\* given, and no other, each before those it precedes.
THEOREM ReasonsRead ==
  ASSUME NEW i \in Inputs
  PROVE  LET read == Scored(i).reasons
             n == Cardinality(Given(i))
         IN /\ n \in Nat
            /\ DOMAIN read = 1..n
            /\ \A k \in 1..n : read[k] \in Given(i)
            /\ \A r \in Given(i) : \E k \in 1..n : read[k] = r
            /\ \A k, l \in 1..n : k < l => Precedes(read[k], read[l])
<1> DEFINE G == Given(i)
           key == [r \in G |-> Standing(r)]
<1>1. IsFiniteSet(G)
  BY GivenIsFinite
<1>2. key \in [G -> Int]
  BY NoTies
<1>3. /\ \A a, b \in G : key[a] = key[b] => a = b
      /\ \A a, b \in G : Precedes(a, b) <=> key[a] < key[b]
  BY NoTies
<1>4. Scored(i).reasons = sortByImpact(G)
  BY DEF Scored, Given
<1>5. Cardinality(G) \in Nat
  BY <1>1, FS_CardinalityType
<1> HIDE DEF G, key
<1>6. /\ DOMAIN sortByImpact(G) = 1..Cardinality(G)
      /\ \A k \in 1..Cardinality(G) : sortByImpact(G)[k] \in G
      /\ \A r \in G : \E k \in 1..Cardinality(G) : sortByImpact(G)[k] = r
      /\ \A k, l \in 1..Cardinality(G) :
           k < l => Precedes(sortByImpact(G)[k], sortByImpact(G)[l])
  BY <1>1, <1>2, <1>3, SortedByImpact
<1> QED BY <1>4, <1>5, <1>6 DEF G

-------------------------------------------------------------------------------
(* What an applicant reads first.                                          *)

\* The hard rules give reasons that decline, and no others.
LEMMA RulesDecline ==
  ASSUME NEW i \in Inputs
  PROVE  LET failures == evaluateHardRules(i)
             R == {Reason("LOW_REVENUE", 0), Reason("DATA_INCONSISTENCY", 0),
                   Reason("UNSERVICEABLE_EMI", 0)}
         IN failures \in Seq(R)
<1> DEFINE R == {Reason("LOW_REVENUE", 0), Reason("DATA_INCONSISTENCY", 0),
                 Reason("UNSERVICEABLE_EMI", 0)}
           a == HardRule(Earns(i, 25000), "LOW_REVENUE")
           b == HardRule(LoanWithin(i, 36), "DATA_INCONSISTENCY")
           c == HardRule(EmiBelow(i, 100), "UNSERVICEABLE_EMI")
<1>1. /\ Earns(i, 25000) \in BOOLEAN
      /\ LoanWithin(i, 36) \in BOOLEAN
      /\ EmiBelow(i, 100) \in BOOLEAN
  BY DEF Earns, LoanWithin, EmiBelow
<1>2. /\ Reason("LOW_REVENUE", 0) \in R
      /\ Reason("DATA_INCONSISTENCY", 0) \in R
      /\ Reason("UNSERVICEABLE_EMI", 0) \in R
  OBVIOUS
<1> HIDE DEF R
<1>3. a \in Seq(R) /\ b \in Seq(R) /\ c \in Seq(R)
  BY <1>1, <1>2, RuleIsSequence
<1>4. evaluateHardRules(i) = a \o b \o c
  BY DEF evaluateHardRules
<1> HIDE DEF a, b, c
<1>5. a \o b \in Seq(R)
  BY <1>3
<1>6. evaluateHardRules(i) \in Seq(R)
  BY <1>3, <1>4, <1>5
<1> QED BY <1>6 DEF R

\* The critical reasons of a scored input are at most two, and stand before every
\* other.
LEMMA CriticalReasons ==
  ASSUME NEW i \in Inputs
  PROVE  LET lowRevenue == Reason("LOW_REVENUE", -100)
             below == Reason("SCORE_BELOW_THRESHOLD", 0)
         IN /\ lowRevenue \in Given(i) <=> ~Earns(i, 50000)
            /\ below \in Given(i) <=> ~passes(i)
            /\ Standing(lowRevenue) = -100 /\ Standing(below) = 0
            /\ Severity(lowRevenue.code) = "CRITICAL" /\ Severity(below.code) = "CRITICAL"
            /\ \A r \in Given(i) : \/ r = lowRevenue
                                   \/ r = below
                                   \/ Standing(r) > 0 /\ Severity(r.code) # "CRITICAL"
<1> DEFINE lowRevenue == Reason("LOW_REVENUE", -100)
           below == Reason("SCORE_BELOW_THRESHOLD", 0)
<1>1. /\ lowRevenue.code = "LOW_REVENUE" /\ lowRevenue.pointsImpact = -100
      /\ below.code = "SCORE_BELOW_THRESHOLD" /\ below.pointsImpact = 0
      /\ \A c, p : Reason(c, p).code = c
  BY DEF Reason
<1>2. ~Earns(i, 50000) => RevenuePoints(i) = -100
  <2>1. /\ Earns(i, 1000000) => Earns(i, 50000)
        /\ Earns(i, 500000) => Earns(i, 50000)
        /\ Earns(i, 100000) => Earns(i, 50000)
    BY BandsNested
  <2> QED BY <2>1, RevenueBands
<1>3. /\ Severity(lowRevenue.code) = "CRITICAL" /\ Severity(below.code) = "CRITICAL"
      /\ Standing(lowRevenue) = -100 /\ Standing(below) = 0
  BY <1>1, Severities DEF Standing, Magnitude
<1>4. lowRevenue \in Given(i) <=> ~Earns(i, 50000)
  BY <1>1, <1>2, GivenReasons
<1>5. below \in Given(i) <=> ~passes(i)
  BY <1>1, GivenReasons
<1>6. ASSUME NEW r \in Given(i)
      PROVE  \/ r = lowRevenue
             \/ r = below
             \/ Standing(r) > 0 /\ Severity(r.code) # "CRITICAL"
  <2>1. r = Reason(r.code, r.pointsImpact)
    BY Standings
  <2>2. CASE r.code = "LOW_REVENUE"
    BY <2>1, <2>2, Standings
  <2>3. CASE r.code = "SCORE_BELOW_THRESHOLD"
    BY <2>1, <2>3, Standings
  <2>4. CASE r.code \notin {"LOW_REVENUE", "SCORE_BELOW_THRESHOLD"}
    BY <2>4, Standings, Severities
  <2> QED BY <2>2, <2>3, <2>4
<1> QED BY <1>3, <1>4, <1>5, <1>6

LEMMA Joined ==
  ASSUME NEW a, NEW b
  PROVE  /\ DOMAIN (<<>> \o <<>>) = {}
         /\ DOMAIN (<<a>> \o <<>>) = {1} /\ (<<a>> \o <<>>)[1] = a
         /\ DOMAIN (<<>> \o <<b>>) = {1} /\ (<<>> \o <<b>>)[1] = b
         /\ DOMAIN (<<a>> \o <<b>>) = {1, 2}
         /\ (<<a>> \o <<b>>)[1] = a /\ (<<a>> \o <<b>>)[2] = b
<1> DEFINE S == {a, b}
<1>1. /\ <<>> \in Seq(S) /\ Len(<<>>) = 0
      /\ <<a>> \in Seq(S) /\ Len(<<a>>) = 1 /\ <<a>>[1] = a
      /\ <<b>> \in Seq(S) /\ Len(<<b>>) = 1 /\ <<b>>[1] = b
  OBVIOUS
<1> HIDE DEF S
<1>2. ASSUME NEW q \in Seq(S), NEW r \in Seq(S)
      PROVE  /\ DOMAIN (q \o r) = 1..(Len(q) + Len(r))
             /\ \A k \in 1..Len(q) : (q \o r)[k] = q[k]
             /\ \A k \in 1..Len(r) : (q \o r)[Len(q) + k] = r[k]
  OBVIOUS
<1>3. 1..0 = {} /\ 1..1 = {1} /\ 1..2 = {1, 2}
  OBVIOUS
<1> DEFINE none == <<>>
           one == <<a>>
           two == <<b>>
<1>4. DOMAIN (none \o none) = {}
  <2>1. DOMAIN (none \o none) = 1..(Len(none) + Len(none))
    BY <1>1, <1>2
  <2> QED BY <1>1, <1>3, <2>1
<1>5. DOMAIN (one \o none) = {1} /\ (one \o none)[1] = a
  <2>1. DOMAIN (one \o none) = 1..(Len(one) + Len(none)) /\ (one \o none)[1] = one[1]
    BY <1>1, <1>2
  <2> QED BY <1>1, <1>3, <2>1
<1>6. DOMAIN (none \o two) = {1} /\ (none \o two)[1] = b
  <2>1. DOMAIN (none \o two) = 1..(Len(none) + Len(two))
        /\ (none \o two)[Len(none) + 1] = two[1]
    BY <1>1, <1>2
  <2> QED BY <1>1, <1>3, <2>1
<1>7. DOMAIN (one \o two) = {1, 2} /\ (one \o two)[1] = a /\ (one \o two)[2] = b
  <2>1. DOMAIN (one \o two) = 1..(Len(one) + Len(two)) /\ (one \o two)[1] = one[1]
        /\ (one \o two)[Len(one) + 1] = two[1]
    BY <1>1, <1>2
  <2> QED BY <1>1, <1>3, <2>1
<1> QED BY <1>4, <1>5, <1>6, <1>7

\* So they are what is read first: LOW_REVENUE, then the summary.
LEMMA HeadlineIsRead ==
  ASSUME NEW i \in Inputs
  PROVE  LET read == Scored(i).reasons
             head == Headline(i, Scored(i).outcome)
         IN /\ DOMAIN head \subseteq DOMAIN read
            /\ \A k \in DOMAIN read :
                 IF k \in DOMAIN head THEN read[k] = head[k]
                 ELSE Severity(read[k].code) # "CRITICAL"
<1> DEFINE read == Scored(i).reasons
           n == Cardinality(Given(i))
           G == Given(i)
           lowRevenue == Reason("LOW_REVENUE", -100)
           below == Reason("SCORE_BELOW_THRESHOLD", 0)
           poor == ~Earns(i, 50000)
           declined == ~passes(i)
           head == Headline(i, Scored(i).outcome)
<1>1. /\ n \in Nat
      /\ DOMAIN read = 1..n
      /\ \A k \in 1..n : read[k] \in G
      /\ \A r \in G : \E k \in 1..n : read[k] = r
  BY ReasonsRead
<1>2. \A k, l \in 1..n : k < l => Standing(read[k]) < Standing(read[l])
  BY ReasonsRead, NoTies
<1>3. \A k \in 1..n : Standing(read[k]) \in Int
  BY <1>1, NoTies
<1>4. /\ lowRevenue \in G <=> poor
      /\ below \in G <=> declined
      /\ Standing(lowRevenue) = -100 /\ Standing(below) = 0
      /\ Severity(lowRevenue.code) = "CRITICAL" /\ Severity(below.code) = "CRITICAL"
      /\ \A r \in G : \/ r = lowRevenue
                      \/ r = below
                      \/ Standing(r) > 0 /\ Severity(r.code) # "CRITICAL"
  BY CriticalReasons
<1>5. /\ ~poor /\ ~declined => DOMAIN head = {}
      /\ ~poor /\ declined => DOMAIN head = {1} /\ head[1] = below
      /\ poor /\ ~declined => DOMAIN head = {1} /\ head[1] = lowRevenue
      /\ poor /\ declined => DOMAIN head = {1, 2} /\ head[1] = lowRevenue /\ head[2] = below
  <2>1. Scored(i).outcome = IF declined THEN "REJECTED" ELSE "APPROVED"
    BY DEF Scored
  <2>2. head = (IF poor THEN <<lowRevenue>> ELSE <<>>) \o (IF declined THEN <<below>> ELSE <<>>)
    BY <2>1 DEF Headline
  <2> HIDE DEF head, lowRevenue, below, poor, declined
  <2>3. CASE poor
    BY <2>2, <2>3, Joined, Zenon
  <2>4. CASE ~poor
    BY <2>2, <2>4, Joined, Zenon
  <2> QED BY <2>3, <2>4
<1> HIDE DEF read, n, G, lowRevenue, below, poor, declined, head
<1>6. ASSUME poor PROVE 1 \in 1..n /\ read[1] = lowRevenue
  <2>1. PICK k \in 1..n : read[k] = lowRevenue
    BY <1>1, <1>4, <1>6
  <2>2. 1 \in 1..n
    BY <1>1, <2>1
  <2>3. k = 1
    BY <1>1, <1>2, <1>3, <1>4, <2>1, <2>2
  <2> QED BY <2>1, <2>3
<1>7. ASSUME declined, ~poor PROVE 1 \in 1..n /\ read[1] = below
  <2>1. PICK k \in 1..n : read[k] = below
    BY <1>1, <1>4, <1>7
  <2>2. 1 \in 1..n
    BY <1>1, <2>1
  <2>3. k = 1
    BY <1>1, <1>2, <1>3, <1>4, <1>7, <2>1, <2>2
  <2> QED BY <2>1, <2>3
<1>8. ASSUME declined, poor PROVE 2 \in 1..n /\ read[2] = below
  <2>1. PICK k \in 1..n : read[k] = below
    BY <1>1, <1>4, <1>8
  <2>2. k # 1
    BY <1>4, <1>6, <1>8, <2>1
  <2>3. 1 \in 1..n /\ 2 \in 1..n
    BY <1>1, <2>1, <2>2
  <2>4. Standing(read[2]) > -100
    BY <1>2, <1>3, <1>4, <1>6, <1>8, <2>3
  <2>5. k = 2
    BY <1>1, <1>2, <1>3, <1>4, <2>1, <2>2, <2>3, <2>4
  <2> QED BY <2>1, <2>5
<1>9. ASSUME NEW k \in 1..n, NEW l \in 1..n, read[k] = read[l] PROVE k = l
  BY <1>1, <1>2, <1>3, <1>9
<1>10. ASSUME NEW k \in 1..n
       PROVE  /\ read[k] = lowRevenue => poor
              /\ read[k] = below => declined
              /\ \/ read[k] = lowRevenue \/ read[k] = below
                 \/ Severity(read[k].code) # "CRITICAL"
  BY <1>1, <1>4
<1>11. /\ DOMAIN head \subseteq DOMAIN read
       /\ \A k \in DOMAIN read : IF k \in DOMAIN head THEN read[k] = head[k]
                                 ELSE Severity(read[k].code) # "CRITICAL"
  <2>1. CASE ~poor /\ ~declined
    BY <1>1, <1>5, <1>10, <2>1
  <2>2. CASE ~poor /\ declined
    BY <1>1, <1>5, <1>7, <1>9, <1>10, <2>2
  <2>3. CASE poor /\ ~declined
    BY <1>1, <1>5, <1>6, <1>9, <1>10, <2>3
  <2>4. CASE poor /\ declined
    BY <1>1, <1>5, <1>6, <1>8, <1>9, <1>10, <2>4
  <2> QED BY <2>1, <2>2, <2>3, <2>4
<1> QED BY <1>11 DEF read, head

\* For any applicants and amounts: what a scored verdict says first, and that a
\* hard rule speaks alone at the floor.
THEOREM HeadlinesAreRead == Spec => []HeadlineReasons
<1> DEFINE HardCodes == {"LOW_REVENUE", "DATA_INCONSISTENCY", "UNSERVICEABLE_EMI"}
<1>1. ASSUME NEW i \in Inputs, evaluateHardRules(i) # <<>>
      PROVE  LET read == evaluate(i).reasons
             IN /\ evaluate(i).outcome = "REJECTED" /\ evaluate(i).creditScore = MIN
                /\ read # <<>>
                /\ \A k \in DOMAIN read :
                     read[k].code \in HardCodes /\ read[k].pointsImpact = 0
  <2> DEFINE failures == evaluateHardRules(i)
             R == {Reason("LOW_REVENUE", 0), Reason("DATA_INCONSISTENCY", 0),
                   Reason("UNSERVICEABLE_EMI", 0)}
  <2>1. evaluate(i) = [outcome |-> "REJECTED", creditScore |-> MIN, reasons |-> failures]
    BY <1>1 DEF evaluate
  <2>2. failures \in Seq(R)
    BY RulesDecline
  <2>3. \A r \in R : r.code \in HardCodes /\ r.pointsImpact = 0
    BY DEF Reason
  <2> HIDE DEF failures, R, HardCodes
  <2>4. \A k \in DOMAIN failures : failures[k] \in R
    BY <2>2
  <2> QED BY <1>1, <2>1, <2>3, <2>4 DEF failures
<1>2. TypeOK => HeadlineReasons
  <2> SUFFICES ASSUME TypeOK PROVE HeadlineReasons
    OBVIOUS
  <2>1. Asked \in Inputs
    BY AskedTypes, SearchAssumption DEF Asked, TypeOK
  <2>2. CASE evaluateHardRules(Asked) = <<>>
    <3>1. Verdict = Scored(Asked)
      BY <2>2 DEF Verdict, evaluate
    <3> QED BY <2>1, <2>2, <3>1, HeadlineIsRead DEF HeadlineReasons
  <2>3. CASE evaluateHardRules(Asked) # <<>>
    BY <1>1, <2>1, <2>3 DEF HeadlineReasons, Verdict
  <2> QED BY <2>2, <2>3
<1> QED BY <1>2, SearchTypeCorrect, PTL

-------------------------------------------------------------------------------
(* What the form shows.                                                    *)

\* Money typed in rupees is read back in the engine's units.
LEMMA Exact ==
  ASSUME NEW a \in Nat, NEW u \in Nat \ {0}
  PROVE  (a * u) \div u = a
  OBVIOUS

LEMMA WholeFigure ==
  \A n : Figure(n, 0).rupees = n /\ Figure(n, 0).frac = 0
  BY DEF Figure

\* The form's figures are those of the input: it warns where the instalment
\* is above 30% of the revenue.
LEMMA FormFigures ==
  ASSUME NEW p \in Applicants, NEW x \in Nat, NEW f \in Typings(p, x)
  PROVE  /\ PreviewWarns(f) <=> ~EmiWithin(InputFor(p, x), 30)
         /\ f.requestedAmount.kind \in {"numeral", "number"}
         /\ f.requestedAmount.value = Figure(x * Unit, 0)
         /\ f.tenureMonths.kind \in {"numeral", "number"}
         /\ f.tenureMonths.value = Figure(p.tenure, 0)
<1>1. p.revenue \in Nat /\ p.tenure \in 1..84
  BY PeopleAssumption DEF People
<1>2. PICK typed \in {"normal", "lower case"}, kind \in {"numeral", "number"} :
        f = FormOf(p, x, typed, kind)
  BY DEF Typings
<1>3. /\ f.monthlyRevenue.value = Figure(p.revenue * Unit, 0)
      /\ f.requestedAmount.value = Figure(x * Unit, 0)
      /\ f.tenureMonths.value = Figure(p.tenure, 0)
      /\ f.requestedAmount.kind = kind /\ f.tenureMonths.kind = kind
  BY <1>2 DEF FormOf, Typed
<1>4. (p.revenue * Unit) \div Unit = p.revenue /\ (x * Unit) \div Unit = x
  BY <1>1, UnitAssumption, Exact
<1>5. buildPreview(f) = InputOf(p.revenue, x, p.tenure, "RETAIL", "not applicable")
  <2>1. /\ f.monthlyRevenue.value.rupees = p.revenue * Unit
        /\ f.requestedAmount.value.rupees = x * Unit
        /\ f.tenureMonths.value.rupees = p.tenure
    BY <1>3, WholeFigure, Zenon
  <2>2. /\ f.monthlyRevenue.value.rupees \div Unit = p.revenue
        /\ f.requestedAmount.value.rupees \div Unit = x
    BY <1>4, <2>1
  <2> QED BY <2>1, <2>2 DEF buildPreview
<1>6. EmiWithin(buildPreview(f), 30) <=> EmiWithin(InputFor(p, x), 30)
  <2>1. ASSUME NEW i, i = InputOf(p.revenue, x, p.tenure, "RETAIL", "not applicable")
        PROVE  i.revenue = p.revenue /\ i.amount = x /\ i.tenure = p.tenure
    BY <2>1 DEF InputOf
  <2>3. /\ buildPreview(f).revenue = p.revenue
        /\ buildPreview(f).amount = x
        /\ buildPreview(f).tenure = p.tenure
    BY <1>5, <2>1
  <2>2. /\ InputFor(p, x).revenue = p.revenue
        /\ InputFor(p, x).amount = x
        /\ InputFor(p, x).tenure = p.tenure
    BY DEF InputFor, InputOf
  <2> QED BY <2>2, <2>3 DEF EmiWithin
<1> QED BY <1>3, <1>6 DEF PreviewWarns

\* An instalment of the whole revenue is one above 30% of it.
LEMMA UnserviceableIsBurden ==
  ASSUME NEW i \in Inputs, i.revenue > 0, ~EmiBelow(i, 100)
  PROVE  ~EmiWithin(i, 30)
<1> DEFINE emi == i.amount * Instalment[i.tenure]
<1>1. emi \in Nat /\ i.revenue \in Nat
  BY InstalmentDefined DEF Inputs
<1>2. Scale \div 100 = 1000
  BY DEF Scale
<1>3. emi >= 100000 * i.revenue
  BY <1>1, <1>2 DEF EmiBelow
<1>4. EmiWithin(i, 30) <=> emi <= 30000 * i.revenue
  BY <1>2 DEF EmiWithin
<1> HIDE DEF emi
<1> QED BY <1>1, <1>3, <1>4

\* The burden is a reason of a scored input exactly where it is one.
LEMMA BurdenIsRead ==
  ASSUME NEW i \in Inputs
  PROVE  (\E k \in DOMAIN Scored(i).reasons : Scored(i).reasons[k].code = "HIGH_EMI_BURDEN")
           <=> ~EmiWithin(i, 30)
<1> DEFINE read == Scored(i).reasons
           n == Cardinality(Given(i))
<1>1. /\ n \in Nat
      /\ DOMAIN read = 1..n
      /\ \A k \in 1..n : read[k] \in Given(i)
      /\ \A r \in Given(i) : \E k \in 1..n : read[k] = r
  BY ReasonsRead
<1>2. ASSUME ~EmiWithin(i, 30)
      PROVE  \E r \in Given(i) : r.code = "HIGH_EMI_BURDEN"
  <2>1. Reason("HIGH_EMI_BURDEN", EmiPoints(i)) \in Given(i)
    BY <1>2, GivenReasons
  <2> QED BY <2>1 DEF Reason
<1>3. ASSUME NEW r \in Given(i), r.code = "HIGH_EMI_BURDEN"
      PROVE  ~EmiWithin(i, 30)
  BY <1>3, GivenReasons DEF Reason
<1> HIDE DEF read, n
<1>4. (\E k \in 1..n : read[k].code = "HIGH_EMI_BURDEN") <=> ~EmiWithin(i, 30)
  BY <1>1, <1>2, <1>3
<1> QED BY <1>1, <1>4 DEF read

\* An instalment of the whole revenue is only named where it is one.
LEMMA UnserviceableIsRead ==
  ASSUME NEW i \in Inputs,
         \E k \in DOMAIN evaluate(i).reasons :
           evaluate(i).reasons[k].code = "UNSERVICEABLE_EMI"
  PROVE  ~EmiBelow(i, 100)
<1> DEFINE a == HardRule(Earns(i, 25000), "LOW_REVENUE")
           b == HardRule(LoanWithin(i, 36), "DATA_INCONSISTENCY")
           c == HardRule(EmiBelow(i, 100), "UNSERVICEABLE_EMI")
           R == {Reason("LOW_REVENUE", 0), Reason("DATA_INCONSISTENCY", 0)}
<1> SUFFICES ASSUME EmiBelow(i, 100)
             PROVE  FALSE
  OBVIOUS
<1>1. CASE evaluateHardRules(i) = <<>>
  <2> DEFINE read == Scored(i).reasons
             n == Cardinality(Given(i))
  <2>1. DOMAIN read = 1..n /\ \A k \in 1..n : read[k] \in Given(i)
    BY ReasonsRead
  <2>2. evaluate(i).reasons = read
    BY <1>1 DEF evaluate
  <2>3. \A r \in Given(i) : r.code # "UNSERVICEABLE_EMI"
    BY Standings
  <2> HIDE DEF read, n
  <2> QED BY <2>1, <2>2, <2>3
<1>2. CASE evaluateHardRules(i) # <<>>
  <2>1. evaluate(i).reasons = a \o b \o c
    BY <1>2 DEF evaluate, evaluateHardRules
  <2>2. Reason("LOW_REVENUE", 0) \in R /\ Reason("DATA_INCONSISTENCY", 0) \in R
    OBVIOUS
  <2>3. /\ Earns(i, 25000) \in BOOLEAN
        /\ LoanWithin(i, 36) \in BOOLEAN
    BY DEF Earns, LoanWithin
  <2>4. c = <<>>
    BY DEF HardRule
  <2>5. \A r \in R : r.code # "UNSERVICEABLE_EMI"
    BY DEF Reason
  <2> HIDE DEF R
  <2>6. a \in Seq(R) /\ b \in Seq(R)
    BY <2>2, <2>3, RuleIsSequence
  <2> HIDE DEF a, b, c
  <2>7. a \o b \o c \in Seq(R)
    <3>1. a \o b \in Seq(R)
      BY <2>6
    <3>2. <<>> \in Seq(R)
      OBVIOUS
    <3>3. c \in Seq(R)
      BY <2>4, <3>2
    <3> QED BY <3>1, <3>3
  <2>8. \A k \in DOMAIN evaluate(i).reasons : evaluate(i).reasons[k] \in R
    BY <2>1, <2>7
  <2> QED BY <2>5, <2>8
<1> QED BY <1>1, <1>2

\* What the form warns of is what the engine counts, whoever asks and for
\* however much; and the gauge has room for every score.
THEOREM ScreenMatchesEngine == Spec => []ScreenAgrees
<1>1. TypeOK => ScreenAgrees
  <2> SUFFICES ASSUME TypeOK, pc = "start" PROVE ScreenAgrees
    BY DEF ScreenAgrees
  <2>1. /\ applicant \in Applicants /\ requested \in Nat /\ requested \in Amounts
        /\ Asked = InputFor(applicant, requested) /\ Asked \in Inputs
    BY AskedTypes, SearchAssumption DEF Asked, TypeOK
  <2>2. Asked.revenue \in Nat \ {0} /\ applicant.tenure \in 1..84
    BY <2>1, AskedTypes, PeopleAssumption DEF People
  <2>3. ASSUME NEW f \in Typings(applicant, requested)
        PROVE  Previewed(f)
    <3>1. requested * Unit \in Nat /\ requested * Unit > 0
      BY <2>1, LoanAssumption, LimitsAssumption, UnitAssumption
    <3>2. /\ f.requestedAmount.kind \in {"numeral", "number"}
          /\ f.requestedAmount.value = Figure(requested * Unit, 0)
          /\ f.tenureMonths.kind \in {"numeral", "number"}
          /\ f.tenureMonths.value = Figure(applicant.tenure, 0)
      BY <2>1, <2>3, FormFigures
    <3>3. /\ f.requestedAmount.value.rupees > 0
          /\ f.tenureMonths.value.rupees \in 1..84 /\ f.tenureMonths.value.frac = 0
      BY <2>2, <3>1, <3>2, WholeFigure
    <3> QED BY <3>2, <3>3 DEF Previewed, toFiniteNumber, Positive
  <2>4. ASSUME NEW f \in Typings(applicant, requested)
        PROVE  LET codes == {Verdict.reasons[k].code : k \in DOMAIN Verdict.reasons}
               IN /\ evaluateHardRules(Asked) = <<>> =>
                       (PreviewWarns(f) <=> "HIGH_EMI_BURDEN" \in codes)
                  /\ "UNSERVICEABLE_EMI" \in codes => PreviewWarns(f)
    <3>1. PreviewWarns(f) <=> ~EmiWithin(Asked, 30)
      BY <2>1, FormFigures
    <3>2. evaluateHardRules(Asked) = <<>> => Verdict = Scored(Asked)
      BY DEF Verdict, evaluate
    <3>3. evaluateHardRules(Asked) = <<>> =>
            ((\E k \in DOMAIN Verdict.reasons : Verdict.reasons[k].code = "HIGH_EMI_BURDEN")
               <=> ~EmiWithin(Asked, 30))
      BY <2>1, <3>2, BurdenIsRead
    <3>4. (\E k \in DOMAIN Verdict.reasons : Verdict.reasons[k].code = "UNSERVICEABLE_EMI")
            => ~EmiWithin(Asked, 30)
      <4>1. (\E k \in DOMAIN Verdict.reasons : Verdict.reasons[k].code = "UNSERVICEABLE_EMI")
              => ~EmiBelow(Asked, 100)
        BY <2>1, UnserviceableIsRead DEF Verdict
      <4> QED BY <2>1, <2>2, <4>1, UnserviceableIsBurden
    <3> QED BY <3>1, <3>3, <3>4
  <2>5. /\ Verdict.creditScore \in ScoreGauge.min..ScoreGauge.max
        /\ (Verdict.creditScore >= ScoreGauge.threshold) = (Verdict.outcome = "APPROVED")
    <3> DEFINE points == clamp(rawScore(Asked))
    <3>1. /\ Verdict.creditScore = IF Acceptable(Asked) THEN points ELSE 300
          /\ (Verdict.outcome = "APPROVED") <=> Acceptable(Asked) /\ points >= 650
          /\ points \in 300..900
      BY <2>1, Score DEF Verdict
    <3> HIDE DEF points
    <3>2. Verdict.creditScore \in 300..900
      BY <3>1
    <3>3. Verdict.creditScore >= 650 <=> Verdict.outcome = "APPROVED"
      BY <3>1
    <3> QED BY <3>2, <3>3 DEF ScoreGauge
  <2> QED BY <2>3, <2>4, <2>5 DEF ScreenAgrees
<1> QED BY <1>1, SearchTypeCorrect, PTL

-------------------------------------------------------------------------------
(* What is typed.                                                          *)

LEMMA PanTypes ==
  \E typings :
    /\ Pans = [kind : {"missing", "other", "text"}, typed : typings,
               shape : BOOLEAN, holder : BOOLEAN]
    /\ {"normal", "padded"} \subseteq typings
    /\ \A t \in {"normal", "lower case"} : t \in typings
<1> DEFINE typings == {"normal", "lower case", "padded"}
<1>1. Pans = [kind : {"missing", "other", "text"}, typed : typings,
              shape : BOOLEAN, holder : BOOLEAN]
  BY DEF Pans
<1>2. /\ {"normal", "padded"} \subseteq typings
      /\ \A t \in {"normal", "lower case"} : t \in typings
  BY Zenon
<1> HIDE DEF typings
<1> QED BY <1>1, <1>2, Zenon

\* Every slip is something a field may hold.
LEMMA SlipTypes ==
  /\ Slips["ownerName"] \subseteq Names
  /\ Slips["pan"] \subseteq Pans
  /\ Slips["businessType"] \subseteq Choices
  /\ Slips["monthlyRevenue"] \subseteq Entries
  /\ Slips["requestedAmount"] \subseteq Entries
  /\ Slips["tenureMonths"] \subseteq Entries
  /\ Slips["purpose"] \subseteq Choices
<1>1. NoNumber \subseteq Entries
  BY DEF NoNumber, Entries, Figure, Figures
<1>2. ASSUME NEW min \in Int, NEW max \in Int
      PROVE  Numerals(min, max) \subseteq Entries
  <2>1. Edges(min, max) \subseteq Figures
    BY DEF Edges, Figures
  <2>2. [rupees : {0, min, max}, frac : {5, 990, 995}] \subseteq Figures
    BY DEF Figures
  <2> QED BY <2>1, <2>2 DEF Numerals, Entries
<1>4. Slips["ownerName"] \subseteq Names
  <2>1. NameSlips \subseteq Names
    BY LimitsAssumption DEF NameSlips, Name, Names
  <2> QED BY <2>1 DEF Slips
<1>5. Slips["pan"] \subseteq Pans
  <2>1. PICK typings :
          /\ Pans = [kind : {"missing", "other", "text"}, typed : typings,
                     shape : BOOLEAN, holder : BOOLEAN]
          /\ {"normal", "padded"} \subseteq typings
    BY PanTypes, Zenon
  <2>2. PanSlips \subseteq Pans
    BY <2>1 DEF PanSlips
  <2> QED BY <2>2 DEF Slips
<1>6. /\ Slips["businessType"] \subseteq Choices
      /\ Slips["purpose"] \subseteq Choices
  BY DEF Slips, Choices
<1>7. /\ Slips["monthlyRevenue"] = NoNumber \cup Numerals(MinRevenue, MaxRevenue)
      /\ Slips["requestedAmount"] = NoNumber \cup Numerals(MinAmount, MaxAmount)
      /\ Slips["tenureMonths"] = NoNumber \cup Numerals(1, MaxTenure)
  BY DEF Slips
<1>8. {MinRevenue, MaxRevenue, MinAmount, MaxAmount, MaxTenure} \subseteq Int
  BY LimitsAssumption
<1>9. /\ Numerals(MinRevenue, MaxRevenue) \subseteq Entries
      /\ Numerals(MinAmount, MaxAmount) \subseteq Entries
      /\ Numerals(1, MaxTenure) \subseteq Entries
  BY <1>2, <1>8
<1> QED BY <1>1, <1>4, <1>5, <1>6, <1>7, <1>9

\* A form with a slip in it is still a form.
LEMMA SlipKeepsForm ==
  ASSUME NEW g \in RawForms, NEW k \in Fields, NEW x \in Slips[k]
  PROVE  [g EXCEPT ![k] = x] \in RawForms
<1>1. k \in {"ownerName", "pan", "businessType", "monthlyRevenue",
             "requestedAmount", "tenureMonths", "purpose"}
  BY DEF Fields, BusinessFields, ApplicationFields
<1>2. CASE k = "ownerName"
  BY <1>2, SlipTypes DEF RawForms
<1>3. CASE k = "pan"
  BY <1>3, SlipTypes DEF RawForms
<1>4. CASE k = "businessType"
  BY <1>4, SlipTypes DEF RawForms
<1>5. CASE k = "monthlyRevenue"
  BY <1>5, SlipTypes DEF RawForms
<1>6. CASE k = "requestedAmount"
  BY <1>6, SlipTypes DEF RawForms
<1>7. CASE k = "tenureMonths"
  BY <1>7, SlipTypes DEF RawForms
<1>8. CASE k = "purpose"
  BY <1>8, SlipTypes DEF RawForms
<1> QED BY <1>1, <1>2, <1>3, <1>4, <1>5, <1>6, <1>7, <1>8

LEMMA MeantPan ==
  \A typed \in {"normal", "lower case"} : Pan(typed, TRUE, TRUE) \in Pans
<1>1. PICK typings :
        /\ Pans = [kind : {"missing", "other", "text"}, typed : typings,
                   shape : BOOLEAN, holder : BOOLEAN]
        /\ \A t \in {"normal", "lower case"} : t \in typings
  BY PanTypes, Zenon
<1>2. \A t \in typings : Pan(t, TRUE, TRUE) \in Pans
  BY <1>1 DEF Pan
<1> QED BY <1>1, <1>2, Zenon

LEMMA MeantForms ==
  ASSUME NEW p \in Applicants, NEW x \in Nat,
         NEW typed, Pan(typed, TRUE, TRUE) \in Pans, NEW kind \in {"numeral", "number"}
  PROVE  FormOf(p, x, typed, kind) \in RawForms
<1>1. p.revenue \in Nat /\ p.tenure \in 1..84
  BY PeopleAssumption DEF People
<1>2. ASSUME NEW n \in Nat PROVE Typed(kind, n) \in Entries
  <2>1. n \in Int /\ 0 \in 0..999
    OBVIOUS
  <2>2. Figure(n, 0) \in Figures
    BY <2>1 DEF Figure, Figures
  <2> QED BY <2>2 DEF Typed, Entries
<1>3. p.revenue * Unit \in Nat /\ x * Unit \in Nat /\ p.tenure \in Nat
  BY <1>1, UnitAssumption
<1>4. /\ Typed(kind, p.revenue * Unit) \in Entries
      /\ Typed(kind, x * Unit) \in Entries
      /\ Typed(kind, p.tenure) \in Entries
  BY <1>1, <1>2, <1>3
<1>5. Name(1, 9) \in Names /\ Pan(typed, TRUE, TRUE) \in Pans /\ "offered" \in Choices
  BY DEF Name, Names, Choices
<1> QED BY <1>4, <1>5 DEF FormOf, RawForms

LEMMA FormTypesHold == TypeOK => Forms \subseteq RawForms
<1> SUFFICES ASSUME TypeOK, NEW f \in Forms PROVE f \in RawForms
  OBVIOUS
<1>1. applicant \in Applicants /\ requested \in Nat
  BY SearchAssumption DEF TypeOK
<1>2. CASE f \in Typings(applicant, requested)
  <2>1. PICK typed \in {"normal", "lower case"}, kind \in {"numeral", "number"} :
          f = FormOf(applicant, requested, typed, kind)
    BY <1>2, Zenon DEF Typings
  <2>2. Pan(typed, TRUE, TRUE) \in Pans
    BY MeantPan, Zenon
  <2> QED BY <1>1, <2>1, <2>2, MeantForms, Zenon
<1>3. CASE f \in Slipped(FormOf(applicant, requested, "normal", "numeral"))
  <2> DEFINE form == FormOf(applicant, requested, "normal", "numeral")
  <2>1. form \in RawForms
    BY <1>1, MeantPan, MeantForms
  <2> HIDE DEF form
  <2>2. PICK k \in Fields, l \in Fields :
          f \in {[form EXCEPT ![k] = x, ![l] = y] : x \in Slips[k], y \in Slips[l]}
    BY <1>3 DEF Slipped, form
  <2>3. PICK x \in Slips[k], y \in Slips[l] : f = [form EXCEPT ![k] = x, ![l] = y]
    BY <2>2
  <2>4. f = [[form EXCEPT ![k] = x] EXCEPT ![l] = y]
    BY <2>3
  <2>5. [form EXCEPT ![k] = x] \in RawForms
    BY <2>1, SlipKeepsForm
  <2> QED BY <2>4, <2>5, SlipKeepsForm
<1> QED BY <1>2, <1>3 DEF Forms

\* Nothing the applicants may type passes the browser and is refused by the API,
\* for any limits.
THEOREM ClientIsNeverRefused == Spec => []ClientNeverRefused
<1>1. TypeOK => ClientNeverRefused
  BY FormTypesHold, FormNeverRefused DEF ClientNeverRefused
<1> QED BY <1>1, SearchTypeCorrect, PTL

\* The wrong fields of what they type are named, each once, and no others.
THEOREM WrongFieldsAreReported == Spec => []ReportsEachField
<1>1. TypeOK => ReportsEachField
  BY FormTypesHold, EveryFieldReported DEF ReportsEachField
<1> QED BY <1>1, SearchTypeCorrect, PTL

-------------------------------------------------------------------------------
(* Asking again.                                                           *)

\* The applicant who asks for what was offered passes the form and the API:
\* the search stays within the limits both ends of its range are in.
THEOREM OffersCanBeAskedFor ==
  ASSUME minAmount * Unit >= MinAmount, \A x \in Amounts : x * Unit <= MaxAmount
  PROVE  Spec => [](pc = "done" /\ answer # Null =>
                      numericField(Typed("numeral", answer * Unit),
                                   MinAmount, MaxAmount, FALSE) = <<>>)
<1>1. TypeOK => (answer # Null =>
                   numericField(Typed("numeral", answer * Unit),
                                MinAmount, MaxAmount, FALSE) = <<>>)
  <2> SUFFICES ASSUME TypeOK, answer # Null
               PROVE  numericField(Typed("numeral", answer * Unit),
                                   MinAmount, MaxAmount, FALSE) = <<>>
    OBVIOUS
  <2> DEFINE e == Typed("numeral", answer * Unit)
             rupees == answer * Unit
  <2>1. /\ answer \in Nat /\ requested \in Nat /\ requested \in Amounts
        /\ minAmount \in Nat /\ minAmount <= answer /\ answer <= requested
    BY SearchAssumption DEF TypeOK
  <2>2. /\ minAmount * Unit <= answer * Unit /\ answer * Unit <= requested * Unit
        /\ minAmount * Unit \in Nat /\ answer * Unit \in Nat /\ requested * Unit \in Nat
    BY <2>1, UnitAssumption, ProductMonotone
  <2>3. requested * Unit <= MaxAmount
    BY <2>1
  <2>4. MinAmount \in Nat \ {0} /\ MaxAmount \in Nat
    BY LimitsAssumption
  <2>5. rupees \in Nat /\ MinAmount <= rupees /\ rupees <= MaxAmount
    BY <2>2, <2>3, <2>4
  <2>6. e.kind = "numeral" /\ e.value = Figure(rupees, 0)
    BY DEF Typed
  <2>7. e \in Entries
    <3> HIDE DEF rupees
    <3>1. rupees \in Int /\ 0 \in 0..999
      BY <2>5
    <3>2. Figure(rupees, 0) \in Figures
      BY <3>1 DEF Figure, Figures
    <3> QED BY <3>2 DEF Typed, Entries, rupees
  <2> HIDE DEF e, rupees
  <2>8. e.value.rupees = rupees /\ e.value.frac = 0
    BY <2>6, WholeFigure
  <2>9. toFiniteNumber(e) /\ Within(e.value, MinAmount, MaxAmount)
    BY <2>4, <2>5, <2>6, <2>8 DEF toFiniteNumber, Within
  <2>10. numericField(e, MinAmount, MaxAmount, FALSE) = <<>>
    BY <2>4, <2>7, <2>9, NumericField
  <2> QED BY <2>10 DEF e
<1>2. TypeOK => (pc = "done" /\ answer # Null =>
                   numericField(Typed("numeral", answer * Unit),
                                MinAmount, MaxAmount, FALSE) = <<>>)
  BY <1>1
<1> QED BY <1>2, SearchTypeCorrect, PTL
===============================================================================
