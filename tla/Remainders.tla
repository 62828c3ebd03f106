----------------------------- MODULE Remainders -----------------------------
(***************************************************************************)
(* What the proofs need of the natural numbers: the code finds the place   *)
(* of a job or of an index in an array by a remainder, and the index of a  *)
(* job in the history by a search from the left.                           *)
(***************************************************************************)
EXTENDS Integers, FiniteSetsExt, WellFoundedInduction, TLAPS

\* A set of naturals that is not empty has a least element.
LEMMA MinOfNaturals ==
  ASSUME NEW S \in SUBSET Nat, S # {}
  PROVE  Min(S) \in S /\ \A y \in S : Min(S) <= y
<1> DEFINE R == OpToRel(<, Nat)
<1>1. IsWellFoundedOn(R, Nat)
  BY NatLessThanWellFounded
<1>4. \A x, y \in Nat : x < y => <<x, y>> \in R
  BY DEF OpToRel
<1> HIDE DEF R
<1>2. PICK x \in S : \A y \in S : ~(<<y, x>> \in R)
  BY <1>1, WFMin
<1>3. ASSUME NEW y \in S PROVE x <= y
  <2>1. x \in Nat /\ y \in Nat
    OBVIOUS
  <2>2. ~(y < x)
    BY <1>2, <1>4, <2>1
  <2> QED
    BY <2>1, <2>2
<1> QED
  BY <1>3 DEF Min

-----------------------------------------------------------------------------
\* Quotient and remainder.
LEMMA DivMod ==
  ASSUME NEW n \in Nat, NEW m \in Nat \ {0}
  PROVE  /\ n % m \in 0 .. m - 1
         /\ n \div m \in Nat
         /\ n = m * (n \div m) + (n % m)
OBVIOUS

\* There is only one quotient and one remainder.
LEMMA DivModUnique ==
  ASSUME NEW m \in Nat \ {0}, NEW a \in Nat, NEW b \in Nat,
         NEW u \in 0 .. m - 1, NEW v \in 0 .. m - 1,
         m * a + u = m * b + v
  PROVE  a = b /\ u = v
<1>1. ASSUME NEW x \in Nat, NEW y \in Nat, NEW s \in 0 .. m - 1, NEW t \in 0 .. m - 1,
             x < y
      PROVE  m * x + s < m * y + t
  <2>1. PICK d \in Nat : y = x + 1 + d
    <3>1. y - x - 1 \in Nat /\ y = x + 1 + (y - x - 1)
      BY <1>1
    <3> QED
      BY <3>1
  <2>2. m * y = m * x + m + m * d /\ m * d \in Nat /\ m * x \in Nat
    BY <2>1
  <2> QED
    BY <2>2
<1>2. ~(a < b) /\ ~(b < a)
  <2>1. ASSUME a < b PROVE FALSE
    <3>1. m * a + u < m * b + v
      BY <1>1, <2>1
    <3> QED
      BY <3>1
  <2>2. ASSUME b < a PROVE FALSE
    <3>1. m * b + v < m * a + u
      BY <1>1, <2>2
    <3> QED
      BY <3>1
  <2> QED
    BY <2>1, <2>2
<1>3. a = b
  BY <1>2
<1>4. m * a \in Nat
  OBVIOUS
<1> QED
  BY <1>3, <1>4

\* The remainder of a multiple plus something small.
LEMMA ModMultiple ==
  ASSUME NEW m \in Nat \ {0}, NEW a \in Nat, NEW u \in 0 .. m - 1,
         NEW n, n = m * a + u
  PROVE  n % m = u /\ n \div m = a
<1> DEFINE q == n \div m
           r == n % m
<1>1. n \in Nat
  OBVIOUS
<1>2. r \in 0 .. m - 1 /\ q \in Nat /\ n = m * q + r
  BY <1>1, DivMod
<1> HIDE DEF q, r
<1>3. q = a /\ r = u
  BY <1>2, DivModUnique
<1> QED
  BY <1>3 DEF q, r

\* Adding at most m goes round at most once.
LEMMA ModAddBelow ==
  ASSUME NEW m \in Nat \ {0}, NEW n \in Nat, NEW k \in 0 .. m, (n % m) + k < m
  PROVE  (n + k) % m = (n % m) + k /\ (n + k) \div m = n \div m
<1>1. PICK a \in Nat, u \in 0 .. m - 1 : n = m * a + u /\ n % m = u /\ n \div m = a
  BY DivMod
<1> DEFINE w == u + k
           s == n + k
<1>2. w \in 0 .. m - 1 /\ s = m * a + w
  BY <1>1
<1> HIDE DEF w, s
<1>3. s % m = w /\ s \div m = a
  BY <1>2, ModMultiple
<1> QED
  BY <1>1, <1>3 DEF w, s

\* The same, beyond m.
LEMMA ModAddAbove ==
  ASSUME NEW m \in Nat \ {0}, NEW n \in Nat, NEW k \in 0 .. m, (n % m) + k >= m
  PROVE  (n + k) % m = (n % m) + k - m /\ (n + k) \div m = (n \div m) + 1
<1>1. PICK a \in Nat, u \in 0 .. m - 1 : n = m * a + u /\ n % m = u /\ n \div m = a
  BY DivMod
<1> DEFINE w == u + k - m
           b == a + 1
           s == n + k
<1>2. w \in 0 .. m - 1 /\ s = m * b + w /\ b \in Nat
  BY <1>1
<1> HIDE DEF w, b, s
<1>3. s % m = w /\ s \div m = b
  BY <1>2, ModMultiple
<1> QED
  BY <1>1, <1>3 DEF w, b, s

\* A number below m is its own remainder.
LEMMA ModSmall ==
  ASSUME NEW m \in Nat \ {0}, NEW n \in 0 .. m - 1
  PROVE  n % m = n /\ n \div m = 0
<1>1. n = m * 0 + n
  OBVIOUS
<1> QED
  BY <1>1, ModMultiple

\* A multiple of m can be taken away.
LEMMA ModMinus ==
  ASSUME NEW m \in Nat \ {0}, NEW d \in Nat, d % m = 0, NEW n \in Nat, n >= d
  PROVE  (n - d) % m = n % m
<1>1. PICK a \in Nat : d = m * a
  <2>1. d \div m \in Nat /\ d = m * (d \div m) + (d % m)
    BY DivMod
  <2>2. d = m * (d \div m)
    BY <2>1
  <2> QED
    BY <2>1, <2>2
<1> DEFINE s == n - d
<1>2. s \in Nat /\ n = s + d
  OBVIOUS
<1> HIDE DEF s
<1>3. PICK b \in Nat, u \in 0 .. m - 1 : s = m * b + u /\ s % m = u
  BY <1>2, DivMod
<1> DEFINE c == a + b
<1>4. n = m * c + u /\ c \in Nat
  BY <1>1, <1>2, <1>3
<1> HIDE DEF c
<1>5. n % m = u
  BY <1>4, ModMultiple
<1> QED
  BY <1>3, <1>5 DEF s
=============================================================================
