----------------------------- MODULE ModLemmas ------------------------------
(***************************************************************************)
(* Facts about numbers that the provers do not know: \div and % by a       *)
(* constant, what the ring positions and the two-word registers of the     *)
(* models rest on; and the least number of a set, from which induction     *)
(* over the numbers follows for sets.                                      *)
(***************************************************************************)
EXTENDS Integers, FiniteSetTheorems, TLAPS

\* Quotient and remainder put the number back together: splitting a counter
\* into register words loses nothing.
LEMMA DivMod ==
    ASSUME NEW n \in Nat, NEW m \in Nat \ {0}
    PROVE  /\ n \div m \in Nat
           /\ n % m \in 0..(m - 1)
           /\ n = (n \div m) * m + (n % m)
  OBVIOUS

\* A register value put together from its words is a number.
LEMMA WordsJoin ==
    ASSUME NEW a \in Nat, NEW m \in Nat, NEW b \in Nat
    PROVE  a * m + b \in Nat
<1>1. a * m \in Nat
  OBVIOUS
<1>2. QED BY <1>1

\* Multiples of m that differ are at least m apart.
LEMMA MultipleGap ==
    ASSUME NEW m \in Nat \ {0}, NEW a \in Int, NEW b \in Int, a < b
    PROVE  a * m + m <= b * m
<1>1. PICK d \in Nat \ {0} : b = a + d
  <2>1. b - a \in Nat \ {0} /\ b = a + (b - a)
    OBVIOUS
  <2>2. QED BY <2>1
<1>2. b * m = a * m + d * m
  BY <1>1
<1>3. d * m >= m
  BY <1>1
<1>4. QED BY <1>2, <1>3

\* A counter below the modulus is its own remainder; at the modulus it wraps.
LEMMA ModStep ==
    ASSUME NEW n \in Nat \ {0}, NEW x \in 0..n
    PROVE  x % n = IF x = n THEN 0 ELSE x
<1> DEFINE q == x \div n
<1>1. q \in Nat /\ x % n \in 0..(n - 1) /\ x = q * n + (x % n)
  <2>1. x \in Nat
    OBVIOUS
  <2>2. QED BY <2>1, DivMod
<1> HIDE DEF q
<1>2. CASE q = 0
  <2>1. q * n = 0
    BY <1>2
  <2>2. QED BY <1>1, <2>1
<1>3. CASE q = 1
  <2>1. q * n = n
    BY <1>3
  <2>2. QED BY <1>1, <2>1
<1>4. CASE q > 1
  <2>1. 1 * n + n <= q * n
    BY <1>1, <1>4, MultipleGap
  <2>2. QED BY <1>1, <2>1
<1>5. QED BY <1>1, <1>2, <1>3, <1>4

\* A step that stays in the current multiple of m, or ends it exactly.
LEMMA ModAdd ==
    ASSUME NEW m \in Nat \ {0}, NEW n \in Nat, NEW k \in Nat, (n % m) + k <= m
    PROVE  (n + k) % m = IF (n % m) + k = m THEN 0 ELSE (n % m) + k
<1> DEFINE r == n % m
           q == n \div m
           x == (n + k) % m
           y == (n + k) \div m
<1>1. q \in Nat /\ r \in 0..(m - 1) /\ n = q * m + r
  BY DivMod
<1>2. n + k \in Nat
  OBVIOUS
<1>3. y \in Nat /\ x \in 0..(m - 1) /\ n + k = y * m + x
  BY <1>2, DivMod
<1>4. r + k <= m
  OBVIOUS
<1>5. q * m \in Nat /\ y * m \in Nat
  BY <1>1, <1>3
<1> HIDE DEF r, q, x, y
<1>6. y < q => y * m + m <= q * m
  BY <1>1, <1>3, MultipleGap
<1>7. q < y => q * m + m <= y * m
  BY <1>1, <1>3, MultipleGap
<1>8. y = q => y * m = q * m
  OBVIOUS
<1>9. y < q \/ y = q \/ q < y
  BY <1>1, <1>3
<1>10. x = IF r + k = m THEN 0 ELSE r + k
  <2> DEFINE a == q * m
             b == y * m
  <2>1. a \in Nat /\ b \in Nat /\ n = a + r /\ n + k = b + x
    BY <1>1, <1>3, <1>5
  <2>2. b + m <= a \/ b = a \/ a + m <= b
    BY <1>6, <1>7, <1>8, <1>9
  <2> HIDE DEF a, b
  <2>3. QED BY <2>1, <2>2, <1>1, <1>3, <1>4
<1>11. QED BY <1>10 DEF r, x

\* Positions less than m apart have different remainders: the ring slots of
\* one window are distinct.
LEMMA WindowDistinct ==
    ASSUME NEW m \in Nat \ {0}, NEW i \in Nat, NEW j \in Nat, i < j, j < i + m
    PROVE  i % m # j % m
<1>1. SUFFICES ASSUME i % m = j % m PROVE FALSE
  OBVIOUS
<1> DEFINE a == i \div m
           b == j \div m
<1>2. /\ a \in Int /\ b \in Int /\ i % m \in Int
      /\ i = a * m + (i % m) /\ j = b * m + (i % m)
  BY <1>1, DivMod
<1> HIDE DEF a, b
<1>3. CASE a < b
  BY <1>2, <1>3, MultipleGap
<1>4. CASE b < a
  BY <1>2, <1>4, MultipleGap
<1>5. CASE a = b
  BY <1>2, <1>5
<1>6. QED BY <1>2, <1>3, <1>4, <1>5

\* The HI word of a later value over the LO word of an earlier one gives
\* back the earlier value, or one at least a whole word too large.
LEMMA TornRead ==
    ASSUME NEW m \in Nat \ {0}, NEW r \in Nat, NEW s \in Nat, r <= s
    PROVE  LET v == (s \div m) * m + (r % m)
           IN  v \in Nat /\ (v = r \/ v >= r + m)
<1> DEFINE a == r \div m
           b == s \div m
           v == b * m + (r % m)
<1>1. /\ a \in Nat /\ b \in Nat /\ r % m \in 0..(m - 1) /\ s % m \in 0..(m - 1)
      /\ r = a * m + (r % m) /\ s = b * m + (s % m)
  BY DivMod
<1>2. v \in Nat
  <2>1. b * m \in Nat
    BY <1>1
  <2>2. QED BY <2>1, <1>1
<1> HIDE DEF a, b
<1>3. v = r \/ v >= r + m
  <2>1. CASE b < a
    BY <1>1, <2>1, MultipleGap
  <2>2. CASE b = a
    BY <1>1, <2>2
  <2>3. CASE a < b
    BY <1>1, <2>3, MultipleGap
  <2>4. QED BY <1>1, <2>1, <2>2, <2>3
<1>4. QED BY <1>2, <1>3 DEF b

\* Below one word there is nothing in the HI word, and a read is not torn.
LEMMA LowRead ==
    ASSUME NEW m \in Nat \ {0}, NEW r \in Nat, NEW s \in Nat, r <= s, s < m
    PROVE  (s \div m) * m + (r % m) = r
<1> DEFINE a == r \div m
           b == s \div m
           x == r % m
<1>1. /\ a \in Nat /\ b \in Nat /\ x \in 0..(m - 1) /\ s % m \in 0..(m - 1)
      /\ r = a * m + x /\ s = b * m + (s % m)
  BY DivMod
<1> HIDE DEF a, b, x
<1>2. ASSUME NEW q \in Nat, q > 0 PROVE q * m >= m
  <2>1. 0 * m + m <= q * m
    BY <1>2, MultipleGap
  <2>2. 0 * m = 0
    OBVIOUS
  <2>3. QED BY <2>1, <2>2
<1>3. b = 0
  <2>1. b > 0 => b * m >= m
    BY <1>1, <1>2
  <2>2. QED BY <1>1, <2>1
<1>4. a = 0
  <2>1. a > 0 => a * m >= m
    BY <1>1, <1>2
  <2>2. QED BY <1>1, <2>1
<1>5. b * m = 0 /\ a * m = 0
  BY <1>3, <1>4
<1>6. b * m + x = r
  BY <1>1, <1>5
<1>7. QED BY <1>6 DEF b, x

-----------------------------------------------------------------------------
\* Every set of numbers that is not empty has a least one.
LEMMA LeastNumber ==
    ASSUME NEW S, S \subseteq Nat, S # {}
    PROVE  \E least \in S : \A n \in S : least <= n
<1> DEFINE upTo == {0..n : n \in S}
<1>1. upTo \subseteq FiniteSubsetsOf(Nat) /\ upTo # {}
  <2>1. ASSUME NEW n \in S PROVE 0..n \in FiniteSubsetsOf(Nat)
    <3>1. n \in Int /\ 0 \in Int /\ 0..n \subseteq Nat
      OBVIOUS
    <3>2. IsFiniteSet(0..n)
      BY <3>1, FS_Interval
    <3>3. QED BY <3>1, <3>2 DEF FiniteSubsetsOf
  <2>2. QED BY <2>1
<1>2. PICK low \in upTo : \A up \in upTo : <<up, low>> \notin StrictSubsetOrdering(Nat)
  <2> HIDE DEF upTo
  <2>1. IsWellFoundedOn(StrictSubsetOrdering(Nat), FiniteSubsetsOf(Nat))
    BY FS_StrictSubsetOrderingWellFounded
  <2>2. QED BY <1>1, <2>1, WFMin
<1>3. PICK least \in S : low = 0..least
  BY <1>2
<1>4. ASSUME NEW n \in S PROVE least <= n
  <2>1. <<0..n, 0..least>> \notin StrictSubsetOrdering(Nat)
    BY <1>2, <1>3
  <2>2. 0..n \in SUBSET Nat /\ 0..least \in SUBSET Nat
    OBVIOUS
  <2>3. ~ (0..n \subseteq 0..least) \/ 0..n = 0..least
    BY <2>1, <2>2 DEF StrictSubsetOrdering
  <2>4. CASE n < least
    <3>1. 0..n \subseteq 0..least
      BY <2>4
    <3>2. least \in 0..least /\ least \notin 0..n
      BY <2>4
    <3>3. QED BY <2>3, <3>1, <3>2
  <2>5. QED BY <2>4
<1>5. QED BY <1>4

\* Induction over the numbers.
LEMMA Induction ==
    ASSUME NEW S, S \subseteq Nat, 0 \in S, \A n \in S : n + 1 \in S
    PROVE  S = Nat
<1>1. SUFFICES ASSUME Nat \ S # {} PROVE FALSE
  OBVIOUS
<1>2. PICK least \in Nat \ S : \A n \in Nat \ S : least <= n
  BY <1>1, LeastNumber
<1>3. least - 1 \in S
  <2>1. least # 0 /\ least - 1 \in Nat
    BY <1>2
  <2>2. ~ (least <= least - 1)
    BY <1>2
  <2>3. QED BY <1>2, <2>1, <2>2
<1>4. (least - 1) + 1 \in S
  BY <1>3
<1>5. QED BY <1>2, <1>4

=============================================================================
