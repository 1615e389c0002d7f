------------------------------- MODULE NatFacts -------------------------------
(***************************************************************************)
(* Facts about the natural numbers: induction, stated with a set in place  *)
(* of a predicate so that a proof can use it by naming the set, and        *)
(* quotients and remainders.                                               *)
(***************************************************************************)
EXTENDS Integers, FiniteSetTheorems, WellFoundedInduction, TLAPS

(***************************************************************************)
(* A set that holds zero and, with a number, its successor holds every     *)
(* natural number.  It is what the proofs about the loops of the checker   *)
(* and of the instantiation pool use to follow a loop from its start.      *)
(***************************************************************************)
LEMMA NatSetInduction ==
  ASSUME NEW S, 0 \in S, \A n \in Nat : n \in S => n + 1 \in S
  PROVE  Nat \subseteq S
<1> SUFFICES ASSUME NEW bad \in Nat, bad \notin S PROVE FALSE
  OBVIOUS
<1> DEFINE T == {0 .. m : m \in Nat \ S}
<1>1. T \subseteq FiniteSubsetsOf(Nat)
  <2> SUFFICES ASSUME NEW m \in Nat \ S PROVE 0 .. m \in FiniteSubsetsOf(Nat)
    OBVIOUS
  <2>1. 0 .. m \in SUBSET Nat
    OBVIOUS
  <2>2. IsFiniteSet(0 .. m)
    BY FS_Interval
  <2> QED BY <2>1, <2>2 DEF FiniteSubsetsOf
<1>2. T # {}
  OBVIOUS
<1>3. PICK least \in T : \A y \in T : ~ (<<y, least>> \in StrictSubsetOrdering(Nat))
  BY <1>1, <1>2, FS_StrictSubsetOrderingWellFounded, WFMin
<1>4. PICK m \in Nat \ S : least = 0 .. m
  OBVIOUS
<1>5. m # 0 /\ m - 1 \in Nat
  OBVIOUS
<1>6. m - 1 \in Nat \ S
  BY <1>5
<1>7. <<0 .. (m - 1), 0 .. m>> \in StrictSubsetOrdering(Nat)
  <2>1. 0 .. (m - 1) \in SUBSET Nat /\ 0 .. m \in SUBSET Nat
    OBVIOUS
  <2>2. 0 .. (m - 1) \subseteq 0 .. m /\ m \in 0 .. m /\ m \notin 0 .. (m - 1)
    BY <1>5
  <2>3. 0 .. (m - 1) # 0 .. m
    BY <2>2
  <2> QED BY <2>1, <2>2, <2>3 DEF StrictSubsetOrdering
<1> QED BY <1>3, <1>4, <1>6, <1>7

\* A set of natural numbers has a least one, unless it is empty.
LEMMA LeastNat ==
  ASSUME NEW T, T \subseteq Nat, NEW t \in T
  PROVE  \E least \in T : \A x \in T : least <= x
<1> SUFFICES ASSUME \A least \in T : \E x \in T : ~ (least <= x) PROVE FALSE
  OBVIOUS
<1> DEFINE S == {n \in Nat : \A x \in T : n <= x}
<1>1. 0 \in S
  OBVIOUS
<1>2. \A n \in Nat : n \in S => n + 1 \in S
  <2> SUFFICES ASSUME NEW n \in Nat, n \in S, NEW x \in T PROVE n + 1 <= x
    OBVIOUS
  <2>1. n <= x /\ x \in Nat
    OBVIOUS
  <2>2. n # x
    OBVIOUS
  <2> QED BY <2>1, <2>2
<1>3. Nat \subseteq S
  <2> HIDE DEF S
  <2> QED BY <1>1, <1>2, NatSetInduction
<1>4. t + 1 \in S
  BY <1>3
<1> QED BY <1>4

-----------------------------------------------------------------------------
(***************************************************************************)
(* Quotients and remainders.                                               *)
(***************************************************************************)

\* A product with a factor that is at least one is at least the other factor.
LEMMA ProductBound ==
  ASSUME NEW a \in Nat, NEW b \in Nat \ {0}
  PROVE  a * b \in Nat /\ a <= a * b
<1> DEFINE S == {x \in Nat : x * b \in Nat /\ x <= x * b}
<1>1. 0 \in S
  OBVIOUS
<1>2. \A x \in Nat : x \in S => x + 1 \in S
  <2> SUFFICES ASSUME NEW x \in Nat, x * b \in Nat, x <= x * b
               PROVE  (x + 1) * b \in Nat /\ x + 1 <= (x + 1) * b
    OBVIOUS
  <2>1. (x + 1) * b = x * b + b
    OBVIOUS
  <2> QED BY <2>1
<1> HIDE DEF S
<1>3. Nat \subseteq S
  BY <1>1, <1>2, NatSetInduction
<1> QED BY <1>3 DEF S

\* A number between two multiples of s has the quotient of the first.
LEMMA QuotientIs ==
  ASSUME NEW a \in Nat, NEW s \in Nat \ {0}, NEW q \in Nat, q * s <= a, a < (q + 1) * s
  PROVE  a \div s = q
<1> DEFINE d == a \div s
<1>1. d \in Nat /\ d * s <= a /\ a < d * s + s
  OBVIOUS
<1> HIDE DEF d
<1>2. (q + 1) * s = q * s + s
  OBVIOUS
<1>3. ASSUME d < q PROVE FALSE
  <2>1. q - d - 1 \in Nat
    BY <1>1, <1>3
  <2>2. (q - d - 1) * s \in Nat
    BY <2>1, ProductBound
  <2>3. (q - d - 1) * s = q * s - d * s - s
    BY <1>1
  <2> QED BY <1>1, <2>2, <2>3
<1>4. ASSUME d > q PROVE FALSE
  <2>1. d - q - 1 \in Nat
    BY <1>1, <1>4
  <2>2. (d - q - 1) * s \in Nat
    BY <2>1, ProductBound
  <2>3. (d - q - 1) * s = d * s - q * s - s
    BY <1>1
  <2> QED BY <1>1, <1>2, <2>2, <2>3
<1> QED BY <1>1, <1>3, <1>4 DEF d

\* A wheel that moves every s counts: its quotient moves on multiples of s only.
LEMMA QuotientMoves ==
  ASSUME NEW a \in Nat, NEW s \in Nat \ {0}
  PROVE  (a + 1) \div s = IF (a + 1) % s = 0 THEN (a \div s) + 1 ELSE a \div s
<1> DEFINE q == (a + 1) \div s
           r == (a + 1) % s
<1>1. q \in Nat /\ r \in 0 .. s - 1 /\ a + 1 = q * s + r
  OBVIOUS
<1> HIDE DEF q, r
<1>2. (q + 1) * s = q * s + s
  BY <1>1
<1>3. CASE r = 0
  <2>1. q # 0
    BY <1>1, <1>3
  <2>2. (q - 1) * s = q * s - s /\ (q - 1) + 1 = q /\ q - 1 \in Nat
    BY <1>1, <2>1
  <2>3. a \div s = q - 1
    BY <1>1, <1>3, <2>2, QuotientIs
  <2> QED BY <1>1, <1>3, <2>3 DEF q, r
<1>4. CASE r # 0
  <2>1. a \div s = q
    BY <1>1, <1>2, <1>4, QuotientIs
  <2> QED BY <1>4, <2>1 DEF q, r
<1> QED BY <1>3, <1>4

\* The remainder of the next number.
LEMMA RemainderMoves ==
  ASSUME NEW a \in Nat, NEW n \in Nat \ {0}
  PROVE  /\ a % n \in 0 .. n - 1
         /\ (a + 1) % n = IF a % n = n - 1 THEN 0 ELSE (a % n) + 1
<1> DEFINE q == a \div n
           r == a % n
<1>1. q \in Nat /\ r \in 0 .. n - 1 /\ a = q * n + r
  OBVIOUS
<1>2. (a + 1) \div n \in Nat /\ a + 1 = ((a + 1) \div n) * n + ((a + 1) % n)
  OBVIOUS
<1> HIDE DEF q, r
<1>3. (q + 1) * n = q * n + n /\ ((q + 1) + 1) * n = q * n + n + n
  BY <1>1
<1>4. CASE r = n - 1
  <2>1. (a + 1) \div n = q + 1
    BY <1>1, <1>3, <1>4, QuotientIs
  <2>2. (a + 1) % n = 0
    BY <1>1, <1>2, <1>3, <1>4, <2>1
  <2> QED BY <1>1, <1>4, <2>2 DEF r
<1>5. CASE r # n - 1
  <2>1. (a + 1) \div n = q
    BY <1>1, <1>3, <1>5, QuotientIs
  <2>2. (a + 1) % n = r + 1
    BY <1>1, <1>2, <1>3, <1>5, <2>1
  <2> QED BY <1>1, <1>5, <2>2 DEF r
<1> QED BY <1>4, <1>5

\* One less than a multiple.
LEMMA BeforeMultiple ==
  ASSUME NEW m \in Nat \ {0}, NEW s \in Nat \ {0}
  PROVE  /\ m * s - 1 \in Nat
         /\ (m * s - 1) \div s = m - 1
         /\ (m * s - 1) % s = s - 1
<1>1. m * s \in Nat /\ m <= m * s
  BY ProductBound
<1>2. (m - 1) * s = m * s - s /\ (m - 1) + 1 = m /\ m - 1 \in Nat
  OBVIOUS
<1>3. m * s - 1 \in Nat
  BY <1>1
<1>4. (m * s - 1) \div s = m - 1
  BY <1>1, <1>2, <1>3, QuotientIs
<1>5. m * s - 1 = ((m * s - 1) \div s) * s + ((m * s - 1) % s)
  BY <1>3
<1> QED BY <1>2, <1>3, <1>4, <1>5

\* A quotient of a quotient.
LEMMA QuotientTwice ==
  ASSUME NEW c \in Nat, NEW s \in Nat \ {0}, NEW n \in Nat \ {0}
  PROVE  n * s \in Nat \ {0} /\ (c \div s) \div n = c \div (n * s)
<1> DEFINE q == c \div s
           p == q \div n
<1>1. n * s \in Nat \ {0}
  BY ProductBound
<1>2. q \in Nat /\ q * s <= c /\ c < q * s + s
  OBVIOUS
<1>3. p \in Nat /\ p * n <= q /\ q < p * n + n
  OBVIOUS
<1> HIDE DEF q, p
<1>4. p * (n * s) <= c
  <2>1. (q - p * n) * s \in Nat
    BY <1>2, <1>3, ProductBound
  <2>2. (q - p * n) * s = q * s - p * (n * s)
    BY <1>2, <1>3
  <2>3. p * (n * s) \in Nat
    BY <1>1, <1>3
  <2> QED BY <1>2, <2>1, <2>2, <2>3
<1>5. c < (p + 1) * (n * s)
  <2>1. (p * n + n - q - 1) * s \in Nat
    BY <1>2, <1>3, ProductBound
  <2>2. (p * n + n - q - 1) * s = (p + 1) * (n * s) - q * s - s
    BY <1>2, <1>3
  <2>3. (p + 1) * (n * s) \in Nat
    BY <1>1, <1>3
  <2> QED BY <1>2, <2>1, <2>2, <2>3
<1>6. c \div (n * s) = p
  BY <1>1, <1>3, <1>4, <1>5, QuotientIs
<1> QED BY <1>1, <1>6 DEF p, q

\* Larger numbers have no smaller quotients.
LEMMA QuotientMonotone ==
  ASSUME NEW a \in Nat, NEW b \in Nat, a <= b, NEW s \in Nat \ {0}
  PROVE  a \div s <= b \div s
<1> DEFINE p == a \div s
           q == b \div s
<1>1. p \in Nat /\ p * s <= a /\ q \in Nat /\ b < q * s + s
  OBVIOUS
<1> HIDE DEF p, q
<1>2. ASSUME q < p PROVE FALSE
  <2>1. (p - q - 1) * s \in Nat
    BY <1>1, <1>2, ProductBound
  <2>2. (p - q - 1) * s = p * s - q * s - s
    BY <1>1
  <2> QED BY <1>1, <2>1, <2>2
<1>3. p <= q
  BY <1>1, <1>2
<1> QED BY <1>3 DEF p, q

\* A multiple of the divisor more.
LEMMA QuotientShift ==
  ASSUME NEW x \in Nat, NEW c \in Nat, NEW s \in Nat \ {0}
  PROVE  (x * s + c) \div s = x + (c \div s) /\ (x * s + c) % s = c % s
<1> DEFINE q == c \div s
           r == c % s
<1>1. q \in Nat /\ r \in 0 .. s - 1 /\ c = q * s + r
  OBVIOUS
<1> HIDE DEF q, r
<1>2. (x + q) * s = x * s + q * s /\ ((x + q) + 1) * s = x * s + q * s + s /\ x * s \in Nat
  BY <1>1
<1>3. (x * s + c) \div s = x + q
  BY <1>1, <1>2, QuotientIs
<1> DEFINE d == (x * s + c) \div s
           m == (x * s + c) % s
<1>4. m \in Int /\ x * s + c = d * s + m
  BY <1>1, <1>2
<1> HIDE DEF d, m
<1>5. m = r
  BY <1>1, <1>2, <1>3, <1>4 DEF d
<1> QED BY <1>3, <1>5 DEF q, r, m
=============================================================================
