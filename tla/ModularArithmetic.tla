------------------------- MODULE ModularArithmetic --------------------------
(***************************************************************************)
(* Lemmas about naturals, quotients and remainders that the proofs about   *)
(* wrapping counters share (the ring's size_t counters, the stream's       *)
(* sequence numbers).  Induction is stated for a set in place of a         *)
(* predicate, from the well-foundedness of the order on the naturals.      *)
(***************************************************************************)
EXTENDS Integers, WellFoundedInduction, TLAPS

\* A nonempty set of naturals has a least element.
LEMMA LeastNatural ==
    ASSUME NEW T, T \subseteq Nat, T # {}
    PROVE  \E x \in T : \A y \in T : x <= y
  <1> DEFINE R == {ss \in Nat \X Nat : ss[1] < ss[2]}
  <1>1. IsWellFoundedOn(R, Nat)
    BY NatLessThanWellFounded, Zenon DEF OpToRel
  <1>2. PICK x \in T : \A y \in T : ~ (<<y, x>> \in R)
    BY <1>1, WFMin
  <1>3. ASSUME NEW y \in T PROVE x <= y
    <2>1. x \in Nat /\ y \in Nat
      OBVIOUS
    <2>2. y < x => <<y, x>> \in R
      BY <2>1
    <2> HIDE DEF R
    <2> QED
      BY <1>2, <2>1, <2>2
  <1> QED
    BY <1>3

\* Induction over the naturals, for a set in place of a predicate.
LEMMA NatSetInduction ==
    ASSUME NEW S, 0 \in S, \A n \in Nat : n \in S => n + 1 \in S
    PROVE  Nat \subseteq S
  <1> DEFINE T == Nat \ S
  <1>1. SUFFICES ASSUME T # {} PROVE FALSE
    OBVIOUS
  <1>2. PICK x \in T : \A y \in T : x <= y
    BY <1>1, LeastNatural
  <1>3. x # 0 /\ x \in Nat /\ x - 1 \in Nat
    OBVIOUS
  <1>4. x - 1 \notin T
    BY <1>2, <1>3
  <1> QED
    BY <1>3, <1>4

\* Quotient and remainder.
LEMMA Division ==
    ASSUME NEW p \in Nat \ {0}, NEW x \in Nat
    PROVE  /\ x \div p \in Nat /\ x % p \in 0 .. (p - 1)
           /\ x = (p * (x \div p)) + (x % p)
  OBVIOUS

LEMMA DivisionUnique ==
    ASSUME NEW p \in Nat \ {0}, NEW q \in Nat, NEW r \in 0 .. (p - 1),
           NEW x \in Int, x = (p * q) + r
    PROVE  x \div p = q /\ x % p = r
  OBVIOUS

\* One more bit of a remainder.
LEMMA RemainderBit ==
    ASSUME NEW p \in Nat \ {0}, NEW x \in Nat
    PROVE  x % (2 * p) = (x % p) + (p * ((x \div p) % 2))
  <1> DEFINE q == x \div p
             r == x % p
             s == q \div 2
             b == q % 2
  <1>1. q \in Nat /\ r \in 0 .. (p - 1) /\ x = (p * q) + r
    BY Division
  <1> HIDE DEF q, r
  <1>2. s \in Nat /\ b \in 0 .. 1 /\ q = (2 * s) + b
    BY <1>1
  <1> HIDE DEF s, b
  <1>3. x = ((2 * p) * s) + (r + (p * b))
    <2>1. p * ((2 * s) + b) = ((2 * p) * s) + (p * b)
      BY <1>2
    <2>2. (p * b) \in Nat /\ ((2 * p) * s) \in Nat
      BY <1>2
    <2> QED
      BY <2>1, <2>2, <1>1, <1>2
  <1>4. r + (p * b) \in 0 .. ((2 * p) - 1)
    <2>1. b = 0 \/ b = 1
      BY <1>2
    <2> QED
      BY <2>1, <1>1
  <1>5. 2 * p \in Nat \ {0}
    OBVIOUS
  <1>6. x % (2 * p) = r + (p * b)
    <2> DEFINE m == 2 * p
               u == r + (p * b)
    <2>1. m \in Nat \ {0} /\ u \in 0 .. (m - 1) /\ x = (m * s) + u
      BY <1>3, <1>4, <1>5
    <2> HIDE DEF m, u
    <2>2. x % m = u
      BY <1>2, <2>1, DivisionUnique
    <2> QED
      BY <2>2 DEF m, u
  <1> QED
    BY <1>6 DEF r, b, q

\* Adding a multiple of the modulus leaves the remainder alone.
LEMMA RemainderShift ==
    ASSUME NEW c \in Nat \ {0}, NEW m \in Nat, NEW y \in Nat
    PROVE  (y + (c * m)) % c = y % c
  <1> DEFINE q == y \div c
             r == y % c
             u == q + m
             x == y + (c * m)
  <1>1. q \in Nat /\ r \in 0 .. (c - 1) /\ y = (c * q) + r
    BY Division
  <1> HIDE DEF q, r
  <1>2. u \in Nat /\ x = (c * u) + r /\ x \in Int
    <2>1. c * m \in Nat /\ c * (q + m) = (c * q) + (c * m)
      BY <1>1
    <2> QED
      BY <1>1, <2>1
  <1> HIDE DEF u, x
  <1>3. x % c = r
    BY <1>1, <1>2, DivisionUnique
  <1> QED
    BY <1>3 DEF x, r

\* Numbers less than c apart have different remainders.
LEMMA RemainderDiffers ==
    ASSUME NEW c \in Nat \ {0}, NEW x \in Nat, NEW y \in Nat,
           x % c = y % c, x - y < c, y - x < c
    PROVE  x = y
  <1> DEFINE q == x \div c
             u == y \div c
             r == x % c
  <1>1. q \in Nat /\ r \in 0 .. (c - 1) /\ x = (c * q) + r
    BY Division
  <1>2. u \in Nat /\ y = (c * u) + r
    BY Division
  <1> HIDE DEF q, u, r
  <1>3. x - y = c * (q - u)
    BY <1>1, <1>2
  <1>4. q - u = 0
    <2>1. q - u >= 1 => c * (q - u) >= c
      BY <1>1, <1>2
    <2>2. q - u <= -1 => c * (q - u) <= -c
      BY <1>1, <1>2
    <2> QED
      BY <1>1, <1>2, <1>3, <2>1, <2>2
  <1> QED
    BY <1>3, <1>4

\* A remainder modulo a multiple of c has the same remainder modulo c.
LEMMA RemainderTwice ==
    ASSUME NEW c \in Nat \ {0}, NEW d \in Nat \ {0}, NEW m \in Nat, d = c * m, NEW x \in Nat
    PROVE  (x % d) % c = x % c
  <1> DEFINE q == x \div d
             r == x % d
             k == m * q
  <1>1. q \in Nat /\ r \in 0 .. (d - 1) /\ x = (d * q) + r
    BY Division
  <1> HIDE DEF q, r
  <1>2. r \in Nat /\ k \in Nat /\ x = r + (c * k)
    <2>1. (c * m) * q = c * (m * q)
      BY <1>1
    <2> QED
      BY <1>1, <2>1
  <1> HIDE DEF k
  <1>3. (r + (c * k)) % c = r % c
    BY <1>1, <1>2, RemainderShift, Zenon
  <1> QED
    BY <1>2, <1>3 DEF r

\* Wrapping after every step or once at the end makes no difference.
LEMMA RemainderSum ==
    ASSUME NEW c \in Nat \ {0}, NEW x \in Nat, NEW y \in Nat
    PROVE  ((x % c) + y) % c = (x + y) % c
  <1> DEFINE q == x \div c
             r == x % c
             z == r + y
  <1>1. q \in Nat /\ r \in Nat /\ x = (c * q) + r
    BY Division
  <1> HIDE DEF q, r
  <1>2. z \in Nat /\ x + y = z + (c * q)
    BY <1>1
  <1> HIDE DEF z
  <1>3. (z + (c * q)) % c = z % c
    BY <1>1, <1>2, RemainderShift, Zenon
  <1> QED
    BY <1>2, <1>3 DEF z, r

\* A factor may be reduced before or after the product.
LEMMA RemainderProduct ==
    ASSUME NEW c \in Nat \ {0}, NEW x \in Nat, NEW y \in Nat
    PROVE  ((x % c) * y) % c = (x * y) % c
  <1> DEFINE q == x \div c
             r == x % c
             z == r * y
             m == q * y
  <1>1. q \in Nat /\ r \in Nat /\ x = (c * q) + r
    BY Division
  <1> HIDE DEF q, r
  <1>2. z \in Nat /\ m \in Nat /\ x * y = z + (c * m)
    <2>1. ((c * q) + r) * y = (c * (q * y)) + (r * y)
      BY <1>1
    <2>2. r * y \in Nat /\ q * y \in Nat
      BY <1>1
    <2> QED
      BY <1>1, <2>1, <2>2
  <1> HIDE DEF z, m
  <1>3. (z + (c * m)) % c = z % c
    BY <1>1, <1>2, RemainderShift, Zenon
  <1> QED
    BY <1>2, <1>3 DEF z, r

\* A term taken away from a reduced sum leaves the other term, also where the
\* difference is negative.
LEMMA RemainderMinus ==
    ASSUME NEW c \in Nat \ {0}, NEW x \in Nat, NEW y \in 0 .. (c - 1)
    PROVE  (((x + y) % c) - x) % c = y
  <1> DEFINE s == x + y
             q == s \div c
             r == s % c
             d == r - x
             u == -q
  <1>1. s \in Nat
    OBVIOUS
  <1>2. q \in Nat /\ r \in 0 .. (c - 1) /\ s = (c * q) + r
    BY <1>1, Division
  <1> HIDE DEF q, r
  <1>3. d \in Int /\ u \in Int /\ d = (c * u) + y
    <2>1. c * (-q) = -(c * q) /\ c * q \in Int
      BY <1>2
    <2> QED
      BY <1>2, <2>1
  <1> HIDE DEF d, u
  <1>4. d % c = y
    BY <1>3
  <1> QED
    BY <1>4 DEF d, r, s
=============================================================================
