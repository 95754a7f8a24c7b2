-------------------------- MODULE Ust1Common_lemmas --------------------------
(* What the proofs of the contracts rest on, for every value of the          *)
(* constants: the arithmetic of ust1-common, sums over finite sets, the      *)
(* rolling meter of ensure_limits and the ledgers of CW20 tokens.            *)
EXTENDS RollingLimit, FiniteSetTheorems, TLAPS

(* Multiplication by a natural number is monotone. *)
LEMMA TimesMonotone ==
  ASSUME NEW a \in Int, NEW b \in Int, NEW c \in Nat, a <= b
  PROVE  a * c <= b * c
<1>1. (b - a) * c >= 0
  BY Z3
<1>2. QED
  BY <1>1, SMT

(* Integer division is the floor of the quotient. *)
LEMMA DivFloor ==
  ASSUME NEW n \in Int, NEW d \in Nat \ {0}
  PROVE  /\ n \div d \in Int
         /\ d * (n \div d) <= n
         /\ n < d * (n \div d) + d
BY SMT

(* A multiple of the divisor bounds the quotient from below. *)
LEMMA DivLower ==
  ASSUME NEW n \in Int, NEW d \in Nat \ {0}, NEW q \in Int, q * d <= n
  PROVE  q <= n \div d
<1>1. n < d * (n \div d) + d /\ n \div d \in Int
  BY DivFloor
<1>2. SUFFICES ASSUME q > n \div d PROVE FALSE
  BY <1>1
<1>3. (n \div d + 1) * d <= q * d
  BY <1>1, <1>2, TimesMonotone
<1>4. (n \div d + 1) * d = d * (n \div d) + d
  BY <1>1, SMT
<1>5. QED
  BY <1>1, <1>3, <1>4

(* Integer division is monotone in the dividend. *)
LEMMA DivMonotone ==
  ASSUME NEW a \in Int, NEW b \in Int, NEW d \in Nat \ {0}, a <= b
  PROVE  a \div d <= b \div d
<1>1. a \div d \in Int /\ d * (a \div d) <= a
  BY DivFloor
<1>2. (a \div d) * d <= b
  BY <1>1, SMT
<1>3. QED
  BY <1>1, <1>2, DivLower

(* The daily cap never lies below the baseline it is computed from. *)
LEMMA CapAboveBaseline ==
  ASSUME NEW b \in Nat
  PROVE  MaxRateAfterDailyCap(b) \in Int /\ b <= MaxRateAfterDailyCap(b)
<1>1. b * BpsDenom <= b * (BpsDenom + MaxDailyIncreaseBps)
  <2>1. b * MaxDailyIncreaseBps >= 0
    BY CommonAssumption, Z3
  <2>2. QED
    BY <2>1, CommonAssumption, SMT
<1>2. b * (BpsDenom + MaxDailyIncreaseBps) \in Int
  BY CommonAssumption
<1>3. QED
  BY <1>1, <1>2, DivLower, DivFloor, CommonAssumption DEF MaxRateAfterDailyCap

(* A baseline below one whose cap fits Uint128 has a cap that fits. *)
LEMMA CapFitsDownward ==
  ASSUME NEW b \in Nat, NEW r \in Nat, b <= r, DailyCapFits(r)
  PROVE  DailyCapFits(b)
<1>1. b * (BpsDenom + MaxDailyIncreaseBps) <= r * (BpsDenom + MaxDailyIncreaseBps)
  BY TimesMonotone, CommonAssumption
<1>2. QED
  BY <1>1, CommonAssumption DEF DailyCapFits, FitsU128

(* Integer division of a natural number is a natural number. *)
LEMMA DivIsNat ==
  ASSUME NEW n \in Nat, NEW d \in Nat \ {0}
  PROVE  n \div d \in Nat
<1>1. 0 <= n \div d
  BY DivLower
<1>2. QED
  BY <1>1, DivFloor

(* The fee leaves between nothing and the whole amount. *)
LEMMA FeeWithinAmount ==
  ASSUME NEW a \in Nat, NEW f \in 0..BpsDenom
  PROVE  ApplyFeeUst1(a, f) \in 0..a
<1> DEFINE n == a * (BpsDenom - f)
           q == n \div BpsDenom
<1>1. n \in Nat /\ n <= a * BpsDenom
  <2>1. a * f >= 0
    BY Z3
  <2>2. a * (BpsDenom - f) >= 0
    <3>1. BpsDenom - f \in Nat
      BY CommonAssumption
    <3>2. QED
      BY <3>1, Z3
  <2>3. QED
    BY <2>1, <2>2, CommonAssumption, SMT
<1>2. q \in Nat /\ BpsDenom * q <= n
  BY <1>1, DivIsNat, DivFloor, CommonAssumption
<1>3. q <= a
  <2>1. SUFFICES ASSUME a + 1 <= q PROVE FALSE
    BY <1>2
  <2>2. (a + 1) * BpsDenom <= q * BpsDenom
    BY <1>2, <2>1, TimesMonotone, CommonAssumption
  <2>3. (a + 1) * BpsDenom = a * BpsDenom + BpsDenom
    BY CommonAssumption, SMT
  <2>4. q * BpsDenom = BpsDenom * q
    BY <1>2, CommonAssumption, SMT
  <2>5. QED
    BY <1>1, <1>2, <2>2, <2>3, <2>4, CommonAssumption
<1>4. QED
  BY <1>2, <1>3 DEF ApplyFeeUst1

(* The fee withheld is its exact share, rounded up to a whole unit. *)
LEMMA FeeRoundsUp ==
  ASSUME NEW a \in Nat, NEW f \in 0..BpsDenom
  PROVE  LET fee == a - ApplyFeeUst1(a, f)
         IN  a * f <= fee * BpsDenom /\ fee * BpsDenom < a * f + BpsDenom
<1> DEFINE n == a * (BpsDenom - f)
           q == n \div BpsDenom
<1>1. n \in Int /\ n = a * BpsDenom - a * f /\ a * f \in Int /\ a * BpsDenom \in Int
  BY CommonAssumption, SMT
<1>2. q \in Int /\ BpsDenom * q <= n /\ n < BpsDenom * q + BpsDenom
  BY <1>1, DivFloor, CommonAssumption
<1> HIDE DEF q, n
<1>3. (a - q) * BpsDenom = a * BpsDenom - BpsDenom * q /\ BpsDenom * q \in Int
  BY <1>2, CommonAssumption, SMT
<1>4. q = ApplyFeeUst1(a, f)
  BY DEF q, n, ApplyFeeUst1
<1>5. QED
  BY <1>1, <1>2, <1>3, <1>4, CommonAssumption

(* A deposit mints no more UST1 than the vFDUSD sent is worth at the rate.   *)
LEMMA DepositBelowValue ==
  ASSUME NEW x \in Nat, NEW r \in Nat, NEW f \in 0..BpsDenom
  PROVE  /\ DepositVfdusdToUst1(x, r, f) \in Nat
         /\ DepositVfdusdToUst1(x, r, f) * RateScale <= x * r
<1> DEFINE before == VfdusdToUst1BeforeFee(x, r)
           out == DepositVfdusdToUst1(x, r, f)
<1>1. x * r \in Nat
  BY Z3
<1>2. before \in Nat /\ RateScale * before <= x * r
  BY <1>1, DivIsNat, DivFloor, CommonAssumption DEF VfdusdToUst1BeforeFee
<1>3. out \in 0..before
  BY <1>2, FeeWithinAmount DEF DepositVfdusdToUst1
<1>4. out * RateScale <= before * RateScale
  BY <1>2, <1>3, TimesMonotone, CommonAssumption
<1>5. before * RateScale = RateScale * before
  BY <1>2, CommonAssumption, SMT
<1>6. out \in Int /\ out * RateScale \in Int /\ before * RateScale \in Int
  BY <1>2, <1>3, CommonAssumption
<1>7. QED
  BY <1>1, <1>2, <1>3, <1>4, <1>5, <1>6

(* A withdrawal pays no more vFDUSD than the UST1 burnt is worth at the rate. *)
LEMMA WithdrawBelowValue ==
  ASSUME NEW g \in Nat, NEW r \in Nat \ {0}, NEW f \in 0..BpsDenom
  PROVE  /\ WithdrawGrossUst1ToVfdusd(g, r, f) \in Nat
         /\ WithdrawGrossUst1ToVfdusd(g, r, f) * r <= g * RateScale
<1> DEFINE after == ApplyFeeUst1(g, f)
           v == WithdrawGrossUst1ToVfdusd(g, r, f)
<1>1. after \in 0..g
  BY FeeWithinAmount
<1>2. after * RateScale <= g * RateScale
  BY <1>1, TimesMonotone, CommonAssumption
<1>3. after * RateScale \in Nat
  BY <1>1, CommonAssumption, Z3
<1>4. v \in Nat /\ r * v <= after * RateScale
  BY <1>3, DivIsNat, DivFloor DEF WithdrawGrossUst1ToVfdusd, Ust1AfterFeeToVfdusd
<1>5. r * v = v * r /\ v * r \in Int
  BY <1>4, SMT
<1>6. g * RateScale \in Int
  BY CommonAssumption
<1>7. QED
  BY <1>2, <1>3, <1>4, <1>5, <1>6

(* A deposit withholds its fee and less than one unit of each rounding. *)
LEMMA DepositCost ==
  ASSUME NEW x \in Nat, NEW r \in Nat, NEW f \in 0..BpsDenom
  PROVE  (x * r - DepositVfdusdToUst1(x, r, f) * RateScale) * BpsDenom
           < (x * r) * f + (RateScale + RateScale) * BpsDenom
<1> DEFINE n == x * r
           q == VfdusdToUst1BeforeFee(x, r)
           out == DepositVfdusdToUst1(x, r, f)
           fee == q - out
           S == RateScale
           B == BpsDenom
<1>0. S \in Nat \ {0} /\ B \in Nat \ {0} /\ n \in Nat
  BY CommonAssumption, Z3
<1>1. q \in Nat /\ S * q <= n /\ n < S * q + S
  BY <1>0, DivIsNat, DivFloor DEF VfdusdToUst1BeforeFee
<1>2. out \in 0..q /\ fee * B < q * f + B
  BY <1>1, FeeWithinAmount, FeeRoundsUp DEF DepositVfdusdToUst1
<1> HIDE DEF n, q, out, S, B
<1>3. fee \in Nat /\ f \in Nat
  BY <1>1, <1>2, CommonAssumption
<1> HIDE DEF fee
<1>4. (fee * B) * S <= (q * f + B) * S
  BY <1>0, <1>1, <1>2, <1>3, TimesMonotone
<1>5. (S * q) * f <= n * f
  BY <1>0, <1>1, <1>3, TimesMonotone
<1>6. (n - S * q) * B < S * B
  <2>1. S - (n - S * q) \in Nat /\ S - (n - S * q) >= 1
    BY <1>0, <1>1
  <2>2. 1 * B <= (S - (n - S * q)) * B
    BY <1>0, <2>1, TimesMonotone
  <2>3. (S - (n - S * q)) * B = S * B - (n - S * q) * B
    BY <1>0, <1>1, SMT
  <2>4. S * B \in Int /\ (n - S * q) * B \in Int
    BY <1>0, <1>1
  <2>5. QED
    BY <1>0, <2>2, <2>3, <2>4
<1>7. n - out * S = (n - S * q) + fee * S
  BY <1>0, <1>1, <1>2, SMT DEF fee
<1>8. (n - out * S) * B = (n - S * q) * B + (fee * B) * S
  BY <1>0, <1>1, <1>3, <1>7, SMT
<1>9. (q * f + B) * S = (S * q) * f + S * B
  BY <1>0, <1>1, <1>3, SMT
<1>10. (S + S) * B = S * B + S * B
  BY <1>0, SMT
<1>11. /\ (n - S * q) * B \in Int /\ (fee * B) * S \in Int /\ S * B \in Int
       /\ (S * q) * f \in Int /\ n * f \in Int
  BY <1>0, <1>1, <1>3
<1>12. (n - out * S) * B < n * f + (S + S) * B
  BY <1>4, <1>5, <1>6, <1>8, <1>9, <1>10, <1>11
<1>13. QED
  BY <1>12 DEF n, out, S, B

(* So does a withdrawal, whose second unit is vFDUSD. *)
LEMMA WithdrawCost ==
  ASSUME NEW g \in Nat, NEW r \in Nat \ {0}, NEW f \in 0..BpsDenom
  PROVE  (g * RateScale - WithdrawGrossUst1ToVfdusd(g, r, f) * r) * BpsDenom
           < (g * RateScale) * f + (RateScale + r) * BpsDenom
<1> DEFINE u == ApplyFeeUst1(g, f)
           v == WithdrawGrossUst1ToVfdusd(g, r, f)
           fee == g - u
           S == RateScale
           B == BpsDenom
<1>0. S \in Nat \ {0} /\ B \in Nat \ {0}
  BY CommonAssumption
<1>1. u \in 0..g /\ fee * B < g * f + B
  BY FeeWithinAmount, FeeRoundsUp
<1>2. u * S \in Nat
  BY <1>0, <1>1, Z3
<1>3. v \in Nat /\ r * v <= u * S /\ u * S < r * v + r
  BY <1>2, DivIsNat, DivFloor DEF WithdrawGrossUst1ToVfdusd, Ust1AfterFeeToVfdusd
<1> HIDE DEF u, v, S, B
<1>4. fee \in Nat /\ f \in Nat
  BY <1>1, CommonAssumption
<1> HIDE DEF fee
<1>5. (fee * B) * S <= (g * f + B) * S
  BY <1>0, <1>1, <1>4, TimesMonotone
<1>6. (u * S - r * v) * B < r * B
  <2>1. r - (u * S - r * v) \in Nat /\ r - (u * S - r * v) >= 1
    BY <1>2, <1>3
  <2>2. 1 * B <= (r - (u * S - r * v)) * B
    BY <1>0, <2>1, TimesMonotone
  <2>3. (r - (u * S - r * v)) * B = r * B - (u * S - r * v) * B
    BY <1>0, <1>2, <1>3, SMT
  <2>4. r * B \in Int /\ (u * S - r * v) * B \in Int
    BY <1>0, <1>2, <1>3
  <2>5. QED
    BY <1>0, <2>2, <2>3, <2>4
<1>7. g * S - v * r = fee * S + (u * S - r * v)
  BY <1>0, <1>1, <1>3, SMT DEF fee
<1>8. (g * S - v * r) * B = (fee * B) * S + (u * S - r * v) * B
  <2>1. \A a, b \in Int : (a + b) * B = a * B + b * B
    BY <1>0, SMT
  <2>2. (fee * S) * B = (fee * B) * S /\ fee * S \in Int /\ u * S - r * v \in Int
    BY <1>0, <1>2, <1>3, <1>4, SMT
  <2>3. QED
    BY <1>7, <2>1, <2>2, Zenon
<1>9. (g * f + B) * S = (g * S) * f + S * B
  BY <1>0, <1>4, SMT
<1>10. (S + r) * B = S * B + r * B
  BY <1>0, SMT
<1>11. /\ (u * S - r * v) * B \in Int /\ (fee * B) * S \in Int /\ S * B \in Int
       /\ (g * S) * f \in Int /\ r * B \in Int
  BY <1>0, <1>2, <1>3, <1>4
<1>12. (g * S - v * r) * B < (g * S) * f + (S + r) * B
  BY <1>5, <1>6, <1>8, <1>9, <1>10, <1>11
<1>13. QED
  BY <1>12 DEF v, S, B

-----------------------------------------------------------------------------
(* Sums over finite sets.  SumFunctionOnSet is a CHOOSE of a recursive       *)
(* function: SumExists says there is one to choose, by induction over the    *)
(* subsets, and SumRemove that the order of summing does not matter.         *)

(* Induction over the subsets of a finite set, for a set of good subsets.    *)
LEMMA SubsetInduction ==
  ASSUME NEW S, IsFiniteSet(S), NEW G,
         \A U \in SUBSET S : (\A x \in U : U \ {x} \in G) => U \in G
  PROVE  SUBSET S \subseteq G
<1> DEFINE Bad == {U \in SUBSET S : U \notin G}
<1>1. SUFFICES ASSUME Bad # {} PROVE FALSE
  OBVIOUS
<1>2. Bad \subseteq FiniteSubsetsOf(S)
  BY FS_FiniteSubsetsOfFinite
<1>3. PICK U \in Bad : \A V \in Bad : <<V, U>> \notin StrictSubsetOrdering(S)
  <2> HIDE DEF Bad
  <2>1. QED
    BY <1>1, <1>2, WFMin, FS_StrictSubsetOrderingWellFounded, Zenon
<1>4. ASSUME NEW x \in U PROVE U \ {x} \in G
  <2>1. SUFFICES ASSUME U \ {x} \in Bad PROVE FALSE
    BY <1>3
  <2>2. <<U \ {x}, U>> \in StrictSubsetOrdering(S)
    BY <1>4 DEF StrictSubsetOrdering
  <2>3. QED
    BY <1>3, <2>1, <2>2
<1>5. QED
  BY <1>3, <1>4

(* Induction over an interval of the natural numbers, for a set of good ones. *)
LEMMA CountingUp ==
  ASSUME NEW N \in Nat, NEW G, 0 \in G, \A k \in 0..(N - 1) : k \in G => k + 1 \in G
  PROVE  0..N \subseteq G
<1> DEFINE H == {U \in SUBSET (1..N) : \A k \in 0..N : U = 1..k => k \in G}
<1>1. ASSUME NEW U \in SUBSET (1..N), \A x \in U : U \ {x} \in H PROVE U \in H
  <2>1. SUFFICES ASSUME NEW k \in 0..N, U = 1..k PROVE k \in G
    OBVIOUS
  <2>2. CASE k = 0
    BY <2>2
  <2>3. CASE k # 0
    <3>1. k \in U /\ U \ {k} = 1..(k - 1) /\ k - 1 \in 0..(N - 1) /\ k - 1 \in 0..N
      BY <2>1, <2>3
    <3>2. k - 1 \in G
      BY <1>1, <3>1
    <3>3. (k - 1) + 1 \in G
      BY <3>1, <3>2
    <3>4. QED
      BY <3>3
  <2>4. QED
    BY <2>2, <2>3
<1> HIDE DEF H
<1>2. IsFiniteSet(1..N)
  BY FS_Interval
<1>3. SUBSET (1..N) \subseteq H
  BY <1>1, <1>2, SubsetInduction
<1>4. ASSUME NEW k \in 0..N PROVE k \in G
  <2>1. 1..k \in SUBSET (1..N)
    OBVIOUS
  <2>2. QED
    BY <1>3, <2>1 DEF H
<1>5. QED
  BY <1>4

(* One step of the recursive function that sums f over the subsets of S: the *)
(* chosen element and the sum of the rest.                                   *)
SumStep(f, S, iter) ==
  [s \in SUBSET S |-> IF s = {} THEN 0
                      ELSE f[CHOOSE y \in s : TRUE] + iter[s \ {CHOOSE y \in s : TRUE}]]

(* The sum of the community modules, with its folds expanded. *)
LEMMA SumUnfold ==
  ASSUME NEW f, NEW S
  PROVE  SumFunctionOnSet(f, S) = (CHOOSE iter : iter = SumStep(f, S, iter))[S]
BY DEF SumFunctionOnSet, FoldFunctionOnSet, MapThenFoldSet, SumStep

(* Two such functions, of two summands that agree on V, agree on V: which    *)
(* one CHOOSE picks is no matter.                                            *)
LEMMA SumAgree ==
  ASSUME NEW W, NEW V \in SUBSET W, IsFiniteSet(V),
         NEW f, NEW h, \A x \in V : f[x] = h[x],
         NEW g, g = SumStep(f, W, g), NEW k, k = SumStep(h, V, k)
  PROVE  \A s \in SUBSET V : g[s] = k[s]
<1> DEFINE G == {s \in SUBSET V : g[s] = k[s]}
<1>1. ASSUME NEW s \in SUBSET V, \A x \in s : s \ {x} \in G PROVE s \in G
  <2> DEFINE x == CHOOSE y \in s : TRUE
  <2>1. g[s] = IF s = {} THEN 0 ELSE f[x] + g[s \ {x}]
    BY DEF SumStep
  <2>2. k[s] = IF s = {} THEN 0 ELSE h[x] + k[s \ {x}]
    BY DEF SumStep
  <2>3. s # {} => x \in s
    OBVIOUS
  <2> HIDE DEF x
  <2>4. QED
    BY <1>1, <2>1, <2>2, <2>3
<1>2. SUBSET V \subseteq G
  <2> HIDE DEF G
  <2>1. QED
    BY <1>1, SubsetInduction, Zenon
<1>3. QED
  BY <1>2

(* There is such a function over every finite set. *)
LEMMA SumExists ==
  ASSUME NEW f, NEW S, IsFiniteSet(S)
  PROVE  \A s \in SUBSET S : \E g : g = SumStep(f, s, g)
<1> DEFINE Good(s) == \A u \in SUBSET s : \E g : g = SumStep(f, u, g)
           G == {s \in SUBSET S : Good(s)}
<1>1. ASSUME NEW s \in SUBSET S, \A x \in s : s \ {x} \in G PROVE s \in G
  <2> DEFINE pick(u) == CHOOSE y \in u : TRUE
             h(u) == CHOOSE g : g = SumStep(f, u, g)
             g == [u \in SUBSET s |->
                     IF u = {} THEN 0 ELSE f[pick(u)] + h(u \ {pick(u)})[u \ {pick(u)}]]
  <2>1. ASSUME NEW u \in SUBSET s, u # s PROVE \E k : k = SumStep(f, u, k)
    <3>1. PICK x \in s : x \notin u
      BY <2>1
    <3>2. u \in SUBSET (s \ {x}) /\ Good(s \ {x})
      BY <1>1, <3>1
    <3>3. QED
      BY <3>2
  <2>2. ASSUME NEW u \in SUBSET s, u # s PROVE h(u) = SumStep(f, u, h(u))
    BY <2>1, <2>2
  <2>3. \A u \in SUBSET s : u # {} => pick(u) \in u
    OBVIOUS
  <2>4. ASSUME NEW u \in SUBSET s, u # s PROVE g[u] = h(u)[u]
    <3>1. h(u) = SumStep(f, u, h(u))
      BY <2>2, <2>4
    <3> DEFINE k == h(u)
    <3>2. k[u] = IF u = {} THEN 0 ELSE f[pick(u)] + k[u \ {pick(u)}]
      <4>1. k = SumStep(f, u, k)
        BY <3>1
      <4> HIDE DEF k
      <4>2. QED
        BY <4>1 DEF SumStep
    <3>3. g[u] = IF u = {} THEN 0 ELSE f[pick(u)] + h(u \ {pick(u)})[u \ {pick(u)}]
      OBVIOUS
    <3>4. ASSUME u # {} PROVE k[u \ {pick(u)}] = h(u \ {pick(u)})[u \ {pick(u)}]
      <4> DEFINE v == u \ {pick(u)}
      <4>1. v \in SUBSET s /\ v # s /\ v \in SUBSET u /\ v \in SUBSET S
        BY <2>3, <2>4, <3>4
      <4>2. IsFiniteSet(v)
        BY <4>1, FS_Subset
      <4>3. h(v) = SumStep(f, v, h(v))
        BY <2>2, <4>1
      <4> HIDE DEF v, h
      <4>4. \A t \in SUBSET v : h(u)[t] = h(v)[t]
        BY <3>1, <4>1, <4>2, <4>3, SumAgree
      <4>5. QED
        BY <4>4 DEF v
    <3>5. QED
      BY <3>2, <3>3, <3>4
  <2>5. g = SumStep(f, s, g)
    <3>1. ASSUME NEW u \in SUBSET s
          PROVE  g[u] = IF u = {} THEN 0 ELSE f[pick(u)] + g[u \ {pick(u)}]
      <4>1. u # {} => (u \ {pick(u)} \in SUBSET s /\ u \ {pick(u)} # s)
        BY <2>3
      <4>2. u # {} => g[u \ {pick(u)}] = h(u \ {pick(u)})[u \ {pick(u)}]
        BY <2>4, <4>1
      <4>3. QED
        BY <4>2
    <3>2. g = [u \in SUBSET s |-> g[u]]
      OBVIOUS
    <3> HIDE DEF g
    <3>3. QED
      BY <3>1, <3>2 DEF SumStep
  <2>6. Good(s)
    <3> HIDE DEF g
    <3>1. QED
      BY <2>1, <2>5
  <2>7. QED
    BY <2>6
<1>2. SUBSET S \subseteq G
  <2> HIDE DEF G
  <2>1. QED
    BY <1>1, SubsetInduction, Zenon
<1>3. QED
  BY <1>2

(* Taking out the chosen element. *)
LEMMA SumChosen ==
  ASSUME NEW f, NEW S, IsFiniteSet(S), S # {}
  PROVE  \E x \in S : SumFunctionOnSet(f, S) = f[x] + SumFunctionOnSet(f, S \ {x})
<1> DEFINE x == CHOOSE y \in S : TRUE
           T == S \ {x}
           h(u) == CHOOSE g : g = SumStep(f, u, g)
<1>1. x \in S /\ T \in SUBSET S
  OBVIOUS
<1>2. IsFiniteSet(T)
  BY <1>1, FS_Subset
<1>3. h(S) = SumStep(f, S, h(S)) /\ h(T) = SumStep(f, T, h(T))
  BY <1>1, SumExists
<1> HIDE DEF h, T
<1>4. h(S)[S] = f[x] + h(S)[T]
  BY <1>3 DEF SumStep, T
<1>5. h(S)[T] = h(T)[T]
  BY <1>1, <1>2, <1>3, SumAgree
<1>6. QED
  BY <1>1, <1>4, <1>5, SumUnfold DEF h, T

(* The sum over no element. *)
LEMMA SumEmpty ==
  ASSUME NEW f
  PROVE  SumFunctionOnSet(f, {}) = 0
<1> DEFINE h == CHOOSE g : g = SumStep(f, {}, g)
<1>1. h = SumStep(f, {}, h)
  BY SumExists, FS_EmptySet
<1> HIDE DEF h
<1>2. h[{}] = 0
  BY <1>1 DEF SumStep
<1>3. QED
  BY <1>2, SumUnfold DEF h

(* A sum reads the function on the set summed over and nowhere else. *)
LEMMA SumSame ==
  ASSUME NEW S, IsFiniteSet(S), NEW f, NEW h, \A x \in S : f[x] = h[x]
  PROVE  SumFunctionOnSet(f, S) = SumFunctionOnSet(h, S)
<1> DEFINE F == CHOOSE g : g = SumStep(f, S, g)
           H == CHOOSE g : g = SumStep(h, S, g)
<1>1. F = SumStep(f, S, F) /\ H = SumStep(h, S, H)
  BY SumExists
<1> HIDE DEF F, H
<1>2. F[S] = H[S]
  BY <1>1, SumAgree
<1>3. QED
  BY <1>2, SumUnfold DEF F, H

(* A sum of natural numbers is a natural number. *)
LEMMA SumIsNat ==
  ASSUME NEW S, IsFiniteSet(S), NEW f, \A x \in S : f[x] \in Nat
  PROVE  SumFunctionOnSet(f, S) \in Nat
<1> DEFINE G == {U \in SUBSET S : SumFunctionOnSet(f, U) \in Nat}
<1>1. ASSUME NEW U \in SUBSET S, \A x \in U : U \ {x} \in G PROVE U \in G
  <2>1. CASE U = {}
    BY <2>1, SumEmpty
  <2>2. CASE U # {}
    <3>1. PICK x \in U : SumFunctionOnSet(f, U) = f[x] + SumFunctionOnSet(f, U \ {x})
      BY <2>2, SumChosen, FS_Subset
    <3>2. QED
      BY <1>1, <3>1
  <2>3. QED
    BY <2>1, <2>2
<1>2. SUBSET S \subseteq G
  <2> HIDE DEF G
  <2>1. QED
    BY <1>1, SubsetInduction, Zenon
<1>3. QED
  BY <1>2

(* Any element may be taken out first. *)
LEMMA SumRemove ==
  ASSUME NEW S, IsFiniteSet(S), NEW f, \A x \in S : f[x] \in Nat, NEW e \in S
  PROVE  SumFunctionOnSet(f, S) = f[e] + SumFunctionOnSet(f, S \ {e})
<1> DEFINE sum(U) == SumFunctionOnSet(f, U)
           G == {U \in SUBSET S : \A x \in U : sum(U) = f[x] + sum(U \ {x})}
<1>1. ASSUME NEW U \in SUBSET S, \A x \in U : U \ {x} \in G, NEW x \in U
      PROVE  sum(U) = f[x] + sum(U \ {x})
  <2>1. PICK c \in U : sum(U) = f[c] + sum(U \ {c})
    BY SumChosen, FS_Subset
  <2>2. CASE c = x
    BY <2>1, <2>2
  <2>3. CASE c # x
    <3>1. sum(U \ {c}) = f[x] + sum((U \ {c}) \ {x})
      BY <1>1, <2>3
    <3>2. sum(U \ {x}) = f[c] + sum((U \ {x}) \ {c})
      BY <1>1, <2>3
    <3>3. (U \ {c}) \ {x} = (U \ {x}) \ {c}
      OBVIOUS
    <3>4. sum((U \ {x}) \ {c}) \in Nat
      <4>1. (U \ {x}) \ {c} \in SUBSET S
        OBVIOUS
      <4>2. QED
        BY <4>1, SumIsNat, FS_Subset
    <3>5. f[x] \in Nat /\ f[c] \in Nat
      OBVIOUS
    <3>6. QED
      BY <2>1, <3>1, <3>2, <3>3, <3>4, <3>5
  <2>4. QED
    BY <2>2, <2>3
<1>2. SUBSET S \subseteq G
  <2>1. ASSUME NEW U \in SUBSET S, \A x \in U : U \ {x} \in G PROVE U \in G
    BY <1>1, <2>1
  <2> HIDE DEF G
  <2>2. QED
    BY <2>1, SubsetInduction, Zenon
<1>3. QED
  BY <1>2

(* The sum over two disjoint sets. *)
LEMMA SumUnion ==
  ASSUME NEW A, IsFiniteSet(A), NEW B, IsFiniteSet(B), A \cap B = {},
         NEW f, \A x \in A \cup B : f[x] \in Nat
  PROVE  SumFunctionOnSet(f, A \cup B) = SumFunctionOnSet(f, A) + SumFunctionOnSet(f, B)
<1> DEFINE sum(U) == SumFunctionOnSet(f, U)
           G == {U \in SUBSET B : sum(A \cup U) = sum(A) + sum(U)}
<1>0. ASSUME NEW U \in SUBSET B
      PROVE  IsFiniteSet(U) /\ IsFiniteSet(A \cup U) /\ sum(U) \in Nat /\ sum(A \cup U) \in Nat
  <2>1. IsFiniteSet(U) /\ IsFiniteSet(A \cup U)
    BY FS_Subset, FS_Union
  <2>2. QED
    BY <2>1, SumIsNat
<1>1. ASSUME NEW U \in SUBSET B, \A x \in U : U \ {x} \in G PROVE U \in G
  <2>1. CASE U = {}
    <3>1. A \cup U = A /\ sum(U) = 0
      BY <2>1, SumEmpty
    <3>2. sum(A) \in Nat
      BY SumIsNat
    <3>3. QED
      BY <3>1, <3>2
  <2>2. CASE U # {}
    <3>1. PICK x \in U : TRUE
      BY <2>2
    <3>2. sum(U) = f[x] + sum(U \ {x})
      BY <1>0, SumRemove
    <3>3. sum(A \cup U) = f[x] + sum((A \cup U) \ {x})
      BY <1>0, SumRemove
    <3>4. (A \cup U) \ {x} = A \cup (U \ {x})
      OBVIOUS
    <3>5. sum(A \cup (U \ {x})) = sum(A) + sum(U \ {x})
      BY <1>1
    <3>6. f[x] \in Nat /\ sum(U \ {x}) \in Nat /\ sum(A) \in Nat
      BY <1>0, SumIsNat
    <3>7. sum(A \cup U) = f[x] + (sum(A) + sum(U \ {x}))
      BY <3>3, <3>4, <3>5, Zenon
    <3>8. \A a, b, c \in Nat : a + (b + c) = b + (a + c)
      OBVIOUS
    <3>9. sum(A \cup U) = sum(A) + sum(U)
      <4>1. f[x] + (sum(A) + sum(U \ {x})) = sum(A) + (f[x] + sum(U \ {x}))
        BY <3>6, <3>8
      <4>2. QED
        BY <3>2, <3>7, <4>1
    <3>10. QED
      BY <3>9
  <2>3. QED
    BY <2>1, <2>2
<1>2. SUBSET B \subseteq G
  <2> HIDE DEF G
  <2>1. QED
    BY <1>1, SubsetInduction, Zenon
<1>3. QED
  BY <1>2

(* Summing over more elements gives no less. *)
LEMMA SumMonotone ==
  ASSUME NEW B, IsFiniteSet(B), NEW A \in SUBSET B, NEW f, \A x \in B : f[x] \in Nat
  PROVE  SumFunctionOnSet(f, A) <= SumFunctionOnSet(f, B)
<1>1. IsFiniteSet(A) /\ IsFiniteSet(B \ A) /\ A \cup (B \ A) = B /\ A \cap (B \ A) = {}
  BY FS_Subset
<1>2. SumFunctionOnSet(f, B) = SumFunctionOnSet(f, A) + SumFunctionOnSet(f, B \ A)
  BY <1>1, SumUnion
<1>3. SumFunctionOnSet(f, A) \in Nat /\ SumFunctionOnSet(f, B \ A) \in Nat
  BY <1>1, SumIsNat
<1>4. QED
  BY <1>2, <1>3

(* A sum of zeros. *)
LEMMA SumZero ==
  ASSUME NEW S, IsFiniteSet(S), NEW f, \A x \in S : f[x] = 0
  PROVE  SumFunctionOnSet(f, S) = 0
<1> DEFINE G == {U \in SUBSET S : SumFunctionOnSet(f, U) = 0}
<1>1. ASSUME NEW U \in SUBSET S, \A x \in U : U \ {x} \in G PROVE U \in G
  <2>1. CASE U = {}
    BY <2>1, SumEmpty
  <2>2. CASE U # {}
    <3>1. PICK x \in U : SumFunctionOnSet(f, U) = f[x] + SumFunctionOnSet(f, U \ {x})
      BY <2>2, SumChosen, FS_Subset
    <3>2. QED
      BY <1>1, <3>1
  <2>3. QED
    BY <2>1, <2>2
<1>2. SUBSET S \subseteq G
  <2> HIDE DEF G
  <2>1. QED
    BY <1>1, SubsetInduction, Zenon
<1>3. QED
  BY <1>2

(* Changing the function at one element. *)
LEMMA SumUpdate ==
  ASSUME NEW S, IsFiniteSet(S), NEW f, \A x \in S : f[x] \in Nat,
         NEW e \in S, NEW h, h[e] \in Nat, \A x \in S \ {e} : h[x] = f[x]
  PROVE  SumFunctionOnSet(h, S) = SumFunctionOnSet(f, S) + h[e] - f[e]
<1>1. SumFunctionOnSet(f, S) = f[e] + SumFunctionOnSet(f, S \ {e})
  BY SumRemove
<1>2. SumFunctionOnSet(h, S) = h[e] + SumFunctionOnSet(h, S \ {e})
  BY SumRemove
<1>3. SumFunctionOnSet(h, S \ {e}) = SumFunctionOnSet(f, S \ {e})
  BY SumSame, FS_Subset
<1>4. SumFunctionOnSet(f, S \ {e}) \in Nat /\ f[e] \in Nat
  BY SumIsNat, FS_Subset
<1>5. QED
  BY <1>1, <1>2, <1>3, <1>4

-----------------------------------------------------------------------------
(* The rolling meter.  settled records what swaps settled at each block time *)
(* up to T; a meter sees only its window's start and volume.                 *)

(* What was settled from one block time to another. *)
Span(settled, from, to) == SumFunctionOnSet(settled, (from..to) \cap DOMAIN settled)

(* A swap of n settles now. *)
Settle(settled, now, n) == [settled EXCEPT ![now] = @ + n]

(* What ensure_limits keeps true of its meter against the record of all that *)
(* was settled: the volume is all there is since the window opened, all of   *)
(* it within the window's day; the day before the window opened lies within  *)
(* the one before it, and so within the limit of its time.                   *)
MeterInv(T, settled, now, start, volume, ceiling) ==
  /\ settled \in [1..T -> Nat]
  /\ now \in 1..T
  /\ ceiling \in Nat
  /\ start \in 0..now
  /\ \A t \in 1..T : t > now => settled[t] = 0
  /\ start = 0 => \A t \in 1..T : settled[t] = 0
  /\ start > 0 => \A t \in 1..T : t >= start + Day => settled[t] = 0
  /\ volume = Span(settled, start, T)
  /\ volume <= ceiling
  /\ Span(settled, start - Day, start - 1) <= ceiling
  /\ \A t \in 1..T : Span(settled, t, t + Day - 1) <= 2 * ceiling

(* A span sums a finite set of natural numbers. *)
LEMMA SpanIsNat ==
  ASSUME NEW T \in Nat, NEW s \in [1..T -> Nat], NEW a \in Int, NEW b \in Int
  PROVE  /\ IsFiniteSet((a..b) \cap DOMAIN s)
         /\ Span(s, a, b) \in Nat
<1>1. IsFiniteSet(1..T) /\ (a..b) \cap DOMAIN s \in SUBSET (1..T)
  BY FS_Interval
<1>2. IsFiniteSet((a..b) \cap DOMAIN s)
  BY <1>1, FS_Subset
<1>3. \A x \in (a..b) \cap DOMAIN s : s[x] \in Nat
  OBVIOUS
<1>4. QED
  BY <1>2, <1>3, SumIsNat DEF Span

(* A span within another carries no more. *)
LEMMA SpanWithin ==
  ASSUME NEW T \in Nat, NEW s \in [1..T -> Nat],
         NEW a \in Int, NEW b \in Int, NEW c \in Int, NEW d \in Int,
         \A t \in 1..T : a <= t /\ t <= b => c <= t /\ t <= d
  PROVE  Span(s, a, b) <= Span(s, c, d)
<1>1. (a..b) \cap DOMAIN s \in SUBSET ((c..d) \cap DOMAIN s)
  OBVIOUS
<1>2. IsFiniteSet((c..d) \cap DOMAIN s) /\ \A x \in (c..d) \cap DOMAIN s : s[x] \in Nat
  BY SpanIsNat
<1>3. QED
  BY <1>1, <1>2, SumMonotone DEF Span

(* A span of block times at which nothing was settled. *)
LEMMA SpanZero ==
  ASSUME NEW T \in Nat, NEW s \in [1..T -> Nat], NEW a \in Int, NEW b \in Int,
         \A t \in 1..T : a <= t /\ t <= b => s[t] = 0
  PROVE  Span(s, a, b) = 0
<1>1. \A x \in (a..b) \cap DOMAIN s : s[x] = 0
  OBVIOUS
<1>2. QED
  BY <1>1, SumZero, SpanIsNat DEF Span

(* A span cut in two. *)
LEMMA SpanSplit ==
  ASSUME NEW T \in Nat, NEW s \in [1..T -> Nat],
         NEW a \in Int, NEW b \in Int, NEW c \in Int, a <= b + 1, b <= c
  PROVE  Span(s, a, c) = Span(s, a, b) + Span(s, b + 1, c)
<1> DEFINE A == (a..b) \cap DOMAIN s
           B == ((b + 1)..c) \cap DOMAIN s
<1>1. IsFiniteSet(A) /\ IsFiniteSet(B)
  <2>1. b + 1 \in Int
    OBVIOUS
  <2>2. QED
    BY <2>1, SpanIsNat
<1>2. A \cap B = {} /\ (a..c) \cap DOMAIN s = A \cup B /\ \A x \in A \cup B : s[x] \in Nat
  OBVIOUS
<1> HIDE DEF A, B
<1>3. SumFunctionOnSet(s, A \cup B) = SumFunctionOnSet(s, A) + SumFunctionOnSet(s, B)
  BY <1>1, <1>2, SumUnion
<1>4. QED
  BY <1>2, <1>3 DEF Span, A, B

(* Settling at a block time adds to the spans that hold it and to no other.  *)
LEMMA SpanUpdate ==
  ASSUME NEW T \in Nat, NEW s \in [1..T -> Nat], NEW a \in Int, NEW b \in Int,
         NEW now \in 1..T, NEW n \in Nat
  PROVE  Span(Settle(s, now, n), a, b)
           = Span(s, a, b) + (IF a <= now /\ now <= b THEN n ELSE 0)
<1> DEFINE h == Settle(s, now, n)
           S == (a..b) \cap DOMAIN s
<1>1. h \in [1..T -> Nat] /\ h[now] = s[now] + n /\ \A t \in 1..T \ {now} : h[t] = s[t]
  BY DEF Settle
<1>2. DOMAIN h = DOMAIN s /\ DOMAIN s = 1..T /\ IsFiniteSet(S)
  BY <1>1, SpanIsNat
<1>3. now \in S <=> a <= now /\ now <= b
  OBVIOUS
<1>4. S \subseteq 1..T /\ \A x \in S : s[x] \in Nat
  OBVIOUS
<1> HIDE DEF h, S
<1>5. CASE now \in S
  <2>1. h[now] \in Nat /\ s[now] \in Nat /\ \A x \in S \ {now} : h[x] = s[x]
    BY <1>1, <1>4
  <2>2. SumFunctionOnSet(h, S) = SumFunctionOnSet(s, S) + h[now] - s[now]
    <3>1. IsFiniteSet(S) /\ \A x \in S : s[x] \in Nat
      BY <1>2, <1>4
    <3>2. \A e \in S : /\ h[e] \in Nat
                       /\ \A x \in S \ {e} : h[x] = s[x]
          => SumFunctionOnSet(h, S) = SumFunctionOnSet(s, S) + h[e] - s[e]
      BY <3>1, SumUpdate
    <3>3. QED
      BY <1>5, <2>1, <3>2
  <2>3. SumFunctionOnSet(s, S) \in Nat
    BY <1>2, <1>4, SumIsNat
  <2>4. SumFunctionOnSet(h, S) = SumFunctionOnSet(s, S) + n
    BY <1>1, <2>1, <2>2, <2>3
  <2>5. QED
    <3>1. Span(h, a, b) = Span(s, a, b) + n
      BY <1>2, <2>4 DEF Span, S
    <3>2. QED
      BY <1>3, <1>5, <3>1 DEF h
<1>6. CASE now \notin S
  <2>1. \A x \in S : h[x] = s[x]
    BY <1>1, <1>4, <1>6
  <2>2. SumFunctionOnSet(h, S) = SumFunctionOnSet(s, S)
    BY <1>2, <2>1, SumSame
  <2>3. Span(h, a, b) = Span(s, a, b)
    BY <1>2, <2>2 DEF Span, S
  <2>4. Span(s, a, b) \in Nat
    BY SpanIsNat
  <2>5. QED
    BY <1>3, <1>6, <2>3, <2>4 DEF h
<1>7. QED
  BY <1>5, <1>6

(* A swap that ensure_limits lets through keeps the meter true. *)
LEMMA MeteredSwap ==
  ASSUME NEW T \in Nat, NEW settled, NEW now, NEW start, NEW volume, NEW ceiling,
         MeterInv(T, settled, now, start, volume, ceiling),
         NEW per_tx, NEW rolling \in Nat, rolling <= ceiling, NEW n \in Nat,
         WithinLimits(now, start, volume, n, per_tx, rolling)
  PROVE  MeterInv(T, Settle(settled, now, n), now, WindowStartAfter(now, start),
                  CarriedVolume(now, start, volume) + n, ceiling)
<1> DEFINE h == Settle(settled, now, n)
           start2 == WindowStartAfter(now, start)
           volume2 == CarriedVolume(now, start, volume) + n
<1>1. /\ settled \in [1..T -> Nat] /\ now \in 1..T /\ ceiling \in Nat /\ start \in 0..now
      /\ Day \in Nat \ {0}
  BY CommonAssumption DEF MeterInv
<1>2. /\ h \in [1..T -> Nat]
      /\ \A a, b \in Int :
           Span(h, a, b) = Span(settled, a, b) + (IF a <= now /\ now <= b THEN n ELSE 0)
  <2>1. h \in [1..T -> Nat]
    BY <1>1 DEF Settle
  <2>2. settled \in [1..T -> Nat] /\ now \in 1..T
    BY <1>1
  <2>3. \A a, b \in Int : Span(Settle(settled, now, n), a, b)
                             = Span(settled, a, b) + (IF a <= now /\ now <= b THEN n ELSE 0)
    BY <2>2, SpanUpdate
  <2>4. QED
    BY <2>1, <2>3
<1>3. \A t \in 1..T \ {now} : h[t] = settled[t]
  BY <1>1 DEF Settle
<1>4. \A a, b \in Int : Span(settled, a, b) \in Nat /\ Span(h, a, b) \in Nat
  BY <1>1, <1>2, SpanIsNat
<1>5. /\ start2 \in 1..now
      /\ now < start2 + Day
      /\ volume2 = Span(h, start2, T)
      /\ volume2 <= ceiling
      /\ Span(settled, start2 - Day, start2 - 1) <= ceiling
  <2> HIDE DEF h
  <2>1. CASE WindowExpired(now, start)
    <3>1. start2 = now /\ volume2 = n /\ n <= ceiling
      BY <1>1, <2>1 DEF WindowStartAfter, CarriedVolume, WithinLimits
    <3>2. \A t \in 1..T : now <= t => settled[t] = 0
      BY <1>1, <2>1 DEF MeterInv, WindowExpired
    <3>3. Span(settled, now, T) = 0
      BY <1>1, <3>2, SpanZero
    <3>4. Span(h, now, T) = n
      BY <1>1, <1>2, <3>3
    <3>5. Span(settled, now - Day, now - 1) <= ceiling
      <4>1. CASE start = 0
        <5>1. Span(settled, now - Day, now - 1) = 0
          <6>1. now - Day \in Int /\ now - 1 \in Int
            BY <1>1
          <6>2. \A t \in 1..T : settled[t] = 0
            BY <4>1 DEF MeterInv
          <6>3. QED
            BY <1>1, <6>1, <6>2, SpanZero
        <5>2. QED
          BY <1>1, <5>1
      <4>2. CASE start # 0
        <5>1. Span(settled, now - Day, now - 1) <= Span(settled, start, T)
          <6>1. now - Day \in Int /\ now - 1 \in Int /\ start \in Int
            BY <1>1
          <6>2. \A t \in 1..T : now - Day <= t /\ t <= now - 1 => start <= t /\ t <= T
            BY <1>1, <2>1, <4>2 DEF WindowExpired
          <6>3. QED
            BY <1>1, <6>1, <6>2, SpanWithin
        <5>2. Span(settled, start, T) <= ceiling
          BY DEF MeterInv
        <5>3. /\ Span(settled, now - Day, now - 1) \in Nat
              /\ Span(settled, start, T) \in Nat
          <6>1. now - Day \in Int /\ now - 1 \in Int /\ start \in Int
            BY <1>1
          <6>2. QED
            BY <1>4, <6>1
        <5>4. QED
          BY <1>1, <5>1, <5>2, <5>3
      <4>3. QED
        BY <4>1, <4>2
    <3>6. QED
      BY <1>1, <3>1, <3>4, <3>5
  <2>2. CASE ~WindowExpired(now, start)
    <3>1. start2 = start /\ volume2 = volume + n /\ volume2 <= ceiling /\ start > 0 /\ now < start + Day
      <4>1. start2 = start /\ volume2 = volume + n /\ volume2 <= rolling
        BY <2>2 DEF WindowStartAfter, CarriedVolume, WithinLimits
      <4>2. start > 0 /\ now < start + Day
        BY <1>1, <2>2 DEF WindowExpired
      <4>3. volume \in Nat
        BY <1>1, <1>4 DEF MeterInv
      <4>4. QED
        BY <1>1, <4>1, <4>2, <4>3
    <3>2. Span(h, start, T) = volume + n
      BY <1>1, <1>2 DEF MeterInv
    <3>3. QED
      BY <1>1, <3>1, <3>2 DEF MeterInv
  <2>3. QED
    BY <2>1, <2>2
<1> HIDE DEF h, start2, volume2
<1>6. \A t \in 1..T : t > now => h[t] = 0
  BY <1>1, <1>3 DEF MeterInv
<1>7. \A t \in 1..T : t >= start2 + Day => h[t] = 0
  BY <1>1, <1>5, <1>6
<1>8. Span(h, start2 - Day, start2 - 1) <= ceiling
  <2>1. start2 - Day \in Int /\ start2 - 1 \in Int /\ ~(now <= start2 - 1)
    BY <1>1, <1>5
  <2>2. Span(h, start2 - Day, start2 - 1) = Span(settled, start2 - Day, start2 - 1) + 0
    BY <1>2, <2>1
  <2>3. Span(settled, start2 - Day, start2 - 1) \in Nat
    BY <1>4, <2>1
  <2>4. QED
    BY <1>1, <1>5, <2>2, <2>3
<1>9. ASSUME NEW t \in 1..T PROVE Span(h, t, t + Day - 1) <= 2 * ceiling
  <2> DEFINE last == t + Day - 1
  <2>0. /\ t \in Int /\ last \in Int /\ start2 \in Int /\ start2 - 1 \in Int
        /\ start2 - Day \in Int /\ T \in Int
    BY <1>1, <1>5
  <2>1. CASE now \notin t..last
    <3>1. ~(t <= now /\ now <= last)
      BY <1>1, <2>0, <2>1
    <3>2. Span(settled, t, last) <= 2 * ceiling
      BY DEF MeterInv
    <3> HIDE DEF last
    <3>3. Span(h, t, last) = Span(settled, t, last) + 0 /\ Span(settled, t, last) \in Nat
      BY <1>2, <1>4, <2>0, <3>1
    <3>4. Span(h, t, last) <= 2 * ceiling
      BY <1>1, <3>2, <3>3
    <3>5. QED
      BY <3>4 DEF last
  <2>2. CASE now \in t..last /\ t < start2
    <3>1. Span(h, t, last) = Span(h, t, start2 - 1) + Span(h, start2, last)
      <4>1. t <= (start2 - 1) + 1 /\ start2 - 1 <= last /\ (start2 - 1) + 1 = start2
        BY <1>1, <1>5, <2>2
      <4> HIDE DEF last
      <4>2. Span(h, t, last) = Span(h, t, start2 - 1) + Span(h, (start2 - 1) + 1, last)
        <5>1. \A a, b, c \in Int :
                a <= b + 1 /\ b <= c => Span(h, a, c) = Span(h, a, b) + Span(h, b + 1, c)
          BY <1>2, SpanSplit
        <5>2. QED
          BY <2>0, <4>1, <5>1
      <4>3. QED
        BY <4>1, <4>2
    <3>2. Span(h, t, start2 - 1) <= Span(h, start2 - Day, start2 - 1)
      <4>1. \A u \in 1..T : t <= u /\ u <= start2 - 1 => start2 - Day <= u /\ u <= start2 - 1
        BY <1>1, <1>5, <2>2
      <4>2. QED
        BY <1>2, <2>0, <4>1, SpanWithin
    <3>3. Span(h, start2, last) <= Span(h, start2, T)
      <4>1. \A u \in 1..T : start2 <= u /\ u <= last => start2 <= u /\ u <= T
        OBVIOUS
      <4> HIDE DEF last
      <4>2. QED
        BY <1>2, <2>0, <4>1, SpanWithin
    <3>4. /\ Span(h, t, start2 - 1) \in Nat /\ Span(h, start2 - Day, start2 - 1) \in Nat
          /\ Span(h, start2, last) \in Nat /\ Span(h, start2, T) \in Nat
      <4> HIDE DEF last
      <4>1. QED
        BY <1>4, <2>0
    <3> HIDE DEF last
    <3>5. Span(h, t, last) <= ceiling + ceiling
      BY <1>1, <1>5, <1>8, <3>1, <3>2, <3>3, <3>4
    <3>6. QED
      BY <1>1, <3>5 DEF last
  <2>3. CASE t >= start2
    <3>1. Span(h, t, last) <= Span(h, start2, T)
      <4>1. \A u \in 1..T : t <= u /\ u <= last => start2 <= u /\ u <= T
        BY <1>5, <2>3
      <4> HIDE DEF last
      <4>2. QED
        BY <1>2, <2>0, <4>1, SpanWithin
    <3> HIDE DEF last
    <3>2. Span(h, t, last) \in Nat /\ Span(h, start2, T) \in Nat
      BY <1>4, <2>0
    <3>3. Span(h, t, last) <= 2 * ceiling
      BY <1>1, <1>5, <3>1, <3>2
    <3>4. QED
      BY <3>3 DEF last
  <2>4. QED
    BY <1>1, <1>5, <2>1, <2>2, <2>3
<1>10. MeterInv(T, h, now, start2, volume2, ceiling)
  <2>1. start2 \in 0..now /\ start2 # 0
    BY <1>1, <1>5
  <2>2. QED
    BY <1>1, <1>2, <1>5, <1>6, <1>7, <1>8, <1>9, <2>1, Zenon DEF MeterInv
<1>11. QED
  BY <1>10 DEF h, start2, volume2

(* A meter nothing was settled through. *)
LEMMA MeterOpens ==
  ASSUME NEW T \in Nat, NEW now \in 1..T, NEW ceiling \in Nat
  PROVE  MeterInv(T, [t \in 1..T |-> 0], now, 0, 0, ceiling)
<1> DEFINE s == [t \in 1..T |-> 0]
<1>1. s \in [1..T -> Nat] /\ \A t \in 1..T : s[t] = 0
  OBVIOUS
<1> HIDE DEF s
<1>2. \A a, b \in Int : Span(s, a, b) = 0
  BY <1>1, SpanZero
<1>3. /\ Span(s, 0, T) = 0
      /\ Span(s, 0 - Day, 0 - 1) = 0
      /\ \A t \in 1..T : Span(s, t, t + Day - 1) = 0
  BY <1>2, CommonAssumption
<1>4. MeterInv(T, s, now, 0, 0, ceiling)
  BY <1>1, <1>3 DEF MeterInv
<1>5. QED
  BY <1>4 DEF s

(* Time passing and a higher ceiling leave it true. *)
LEMMA MeterKept ==
  ASSUME NEW T \in Nat, NEW s, NEW now, NEW start, NEW volume, NEW ceiling,
         MeterInv(T, s, now, start, volume, ceiling),
         NEW later \in 1..T, now <= later, NEW ceiling2 \in Nat, ceiling <= ceiling2
  PROVE  MeterInv(T, s, later, start, volume, ceiling2)
<1>1. /\ s \in [1..T -> Nat] /\ now \in 1..T /\ ceiling \in Nat /\ start \in 0..now
      /\ Day \in Nat \ {0}
  BY CommonAssumption DEF MeterInv
<1>2. \A a, b \in Int : Span(s, a, b) \in Nat
  BY <1>1, SpanIsNat
<1>3. start \in 0..later /\ \A t \in 1..T : t > later => s[t] = 0
  BY <1>1 DEF MeterInv
<1>4. volume <= ceiling2
  <2>1. volume \in Nat
    BY <1>1, <1>2 DEF MeterInv
  <2>2. QED
    BY <1>1, <2>1 DEF MeterInv
<1>5. Span(s, start - Day, start - 1) <= ceiling2
  <2>1. Span(s, start - Day, start - 1) \in Nat
    <3>1. start - Day \in Int /\ start - 1 \in Int
      BY <1>1
    <3>2. QED
      BY <1>2, <3>1
  <2>2. QED
    BY <1>1, <2>1 DEF MeterInv
<1>6. ASSUME NEW t \in 1..T PROVE Span(s, t, t + Day - 1) <= 2 * ceiling2
  <2>1. Span(s, t, t + Day - 1) \in Nat
    <3>1. t \in Int /\ t + Day - 1 \in Int
      BY <1>1
    <3>2. QED
      BY <1>2, <3>1
  <2>2. Span(s, t, t + Day - 1) <= 2 * ceiling
    BY DEF MeterInv
  <2>3. QED
    BY <1>1, <2>1, <2>2
<1>7. QED
  BY <1>1, <1>3, <1>4, <1>5, <1>6 DEF MeterInv

(* What a true meter says: the volume is what its day carried.               *)
LEMMA MeterExact ==
  ASSUME NEW T \in Nat, NEW s, NEW now, NEW start, NEW volume, NEW ceiling,
         MeterInv(T, s, now, start, volume, ceiling)
  PROVE  /\ volume = Span(s, start, start + Day - 1)
         /\ start > 0 => Span(s, start + Day, T) = 0
<1>1. /\ s \in [1..T -> Nat] /\ now \in 1..T /\ start \in 0..now /\ start \in Int
      /\ Day \in Nat \ {0}
  BY CommonAssumption DEF MeterInv
<1>2. \A a, b \in Int : Span(s, a, b) \in Nat
  BY <1>1, SpanIsNat
<1>3. \A t \in 1..T : t >= start + Day => s[t] = 0
  BY <1>1 DEF MeterInv
<1>4. Span(s, start + Day, T) = 0
  <2>1. start + Day \in Int /\ \A t \in 1..T : start + Day <= t /\ t <= T => s[t] = 0
    BY <1>1, <1>3
  <2>2. QED
    BY <1>1, <2>1, SpanZero
<1>5. Span(s, start, T) <= Span(s, start, start + Day - 1)
  <2> DEFINE last == start + Day - 1
  <2>1. last \in Int /\ last + 1 = start + Day /\ start <= last + 1
    BY <1>1
  <2> HIDE DEF last
  <2>2. CASE last <= T
    <3>1. \A a, b, c \in Int : a <= b + 1 /\ b <= c => Span(s, a, c) = Span(s, a, b) + Span(s, b + 1, c)
      BY <1>1, SpanSplit
    <3>2. Span(s, start, T) = Span(s, start, last) + Span(s, last + 1, T)
      BY <1>1, <2>1, <2>2, <3>1
    <3>3. Span(s, start, last) \in Nat
      BY <1>1, <1>2, <2>1
    <3>4. QED
      BY <1>4, <2>1, <3>2, <3>3 DEF last
  <2>3. CASE T < last
    <3>1. \A t \in 1..T : start <= t /\ t <= T => start <= t /\ t <= last
      BY <1>1, <2>1, <2>3
    <3>2. Span(s, start, T) <= Span(s, start, last)
      BY <1>1, <2>1, <3>1, SpanWithin
    <3>3. QED
      BY <3>2 DEF last
  <2>4. QED
    BY <1>1, <2>1, <2>2, <2>3
<1>6. Span(s, start, start + Day - 1) <= Span(s, start, T)
  <2>1. start + Day - 1 \in Int
        /\ \A t \in 1..T : start <= t /\ t <= start + Day - 1 => start <= t /\ t <= T
    BY <1>1
  <2>2. QED
    BY <1>1, <2>1, SpanWithin
<1>7. Span(s, start, start + Day - 1) \in Nat /\ Span(s, start, T) \in Nat
  <2>1. start + Day - 1 \in Int /\ T \in Int
    BY <1>1
  <2>2. QED
    BY <1>1, <1>2, <2>1
<1>8. QED
  BY <1>4, <1>5, <1>6, <1>7 DEF MeterInv

-----------------------------------------------------------------------------
(* CW20 ledgers. *)

(* A CW20 ledger: the total supply is what its finitely many holders have.   *)
LedgerSum(accounts, balance, supply) ==
  \E H \in SUBSET accounts :
    /\ IsFiniteSet(H)
    /\ \A u \in accounts \ H : balance[u] = 0
    /\ supply = SumFunctionOnSet(balance, H)

(* No account holds more than the supply, which is a natural number. *)
LEMMA LedgerBound ==
  ASSUME NEW U, NEW b \in [U -> Nat], NEW supply, LedgerSum(U, b, supply)
  PROVE  supply \in Nat /\ \A u \in U : b[u] <= supply
<1>1. PICK H \in SUBSET U : /\ IsFiniteSet(H)
                            /\ \A u \in U \ H : b[u] = 0
                            /\ supply = SumFunctionOnSet(b, H)
  BY DEF LedgerSum
<1>2. \A x \in H : b[x] \in Nat
  OBVIOUS
<1>3. supply \in Nat
  BY <1>1, <1>2, SumIsNat
<1>4. ASSUME NEW u \in U PROVE b[u] <= supply
  <2>1. CASE u \notin H
    BY <1>1, <1>3, <2>1
  <2>2. CASE u \in H
    <3>1. SumFunctionOnSet(b, H) = b[u] + SumFunctionOnSet(b, H \ {u})
      BY <1>1, <1>2, <2>2, SumRemove
    <3>2. SumFunctionOnSet(b, H \ {u}) \in Nat
      <4>1. IsFiniteSet(H \ {u}) /\ \A x \in H \ {u} : b[x] \in Nat
        BY <1>1, FS_Subset
      <4>2. QED
        BY <4>1, SumIsNat
    <3>3. b[u] \in Nat
      OBVIOUS
    <3>4. QED
      BY <1>1, <3>1, <3>2, <3>3
  <2>3. QED
    BY <2>1, <2>2
<1>5. QED
  BY <1>3, <1>4

(* A ledger nobody holds anything of. *)
LEMMA LedgerOpens ==
  ASSUME NEW U
  PROVE  LedgerSum(U, [u \in U |-> 0], 0)
BY SumEmpty, FS_EmptySet DEF LedgerSum

(* A mint or a burn moves one balance and the supply alike. *)
LEMMA LedgerMoves ==
  ASSUME NEW U, NEW b \in [U -> Nat], NEW supply, LedgerSum(U, b, supply),
         NEW u \in U, NEW n \in Nat
  PROVE  LedgerSum(U, [b EXCEPT ![u] = n], supply + n - b[u])
<1> DEFINE h == [b EXCEPT ![u] = n]
<1>1. PICK H \in SUBSET U : /\ IsFiniteSet(H)
                            /\ \A v \in U \ H : b[v] = 0
                            /\ supply = SumFunctionOnSet(b, H)
  BY DEF LedgerSum
<1> DEFINE K == H \cup {u}
<1>2. K \in SUBSET U /\ IsFiniteSet(K) /\ u \in K
  BY <1>1, FS_AddElement
<1>3. h \in [U -> Nat] /\ h[u] = n /\ \A v \in U \ {u} : h[v] = b[v]
  OBVIOUS
<1>4. \A v \in U \ K : h[v] = 0
  BY <1>1
<1>5. SumFunctionOnSet(b, K) = supply
  <2>1. CASE u \in H
    <3>1. K = H
      BY <2>1
    <3>2. QED
      BY <1>1, <3>1
  <2>2. CASE u \notin H
    <3>1. K \ {u} = H /\ b[u] = 0 /\ \A v \in K : b[v] \in Nat
      BY <1>1, <2>2
    <3>2. SumFunctionOnSet(b, K) = b[u] + SumFunctionOnSet(b, K \ {u})
      BY <1>2, <3>1, SumRemove
    <3>3. supply \in Nat
      BY LedgerBound
    <3>4. QED
      BY <1>1, <3>1, <3>2, <3>3
  <2>3. QED
    BY <2>1, <2>2
<1>6. (\A v \in K : b[v] \in Nat) /\ (\A v \in K \ {u} : h[v] = b[v]) /\ h[u] \in Nat
  BY <1>2, <1>3
<1> HIDE DEF h, K
<1>7. SumFunctionOnSet(h, K) = SumFunctionOnSet(b, K) + h[u] - b[u]
  BY <1>2, <1>6, SumUpdate
<1>8. LedgerSum(U, h, supply + n - b[u])
  BY <1>2, <1>3, <1>4, <1>5, <1>7 DEF LedgerSum
<1>9. QED
  BY <1>8 DEF h
=============================================================================
