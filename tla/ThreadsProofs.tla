--------------------------- MODULE ThreadsProofs ---------------------------
(***************************************************************************)
(* Proofs about the two levels of Threads: the ring of ring_buffer.h, for  *)
(* every width of size_t up to 64 bits and every requested size, and the   *)
(* example's main() and producer, for files, chunks and rings of every     *)
(* size: the shutdown is in order, and left and right samples stay apart.  *)
(***************************************************************************)
EXTENDS Threads, SequenceTheorems, ModularArithmetic, TLAPS

----------------------------------------------------------------------------
(* Arithmetic. *)

\* Powers of two up to the word's are positive and add their exponents.
LEMMA Powers == \A i \in 0 .. WordBits : 2 ^ i \in Nat \ {0}
  <1> DEFINE S == {i \in Nat : i <= WordBits => 2 ^ i \in Nat \ {0}}
  <1>0. WordBits \in Nat
    BY RingAssumption
  <1>1. 0 \in S
    BY PowerLaw
  <1>2. ASSUME NEW n \in Nat, n \in S PROVE n + 1 \in S
    <2>1. CASE n + 1 <= WordBits
      <3>1. 2 ^ (n + 1) = 2 * 2 ^ n
        BY <2>1, <1>0, PowerLaw
      <3> QED
        BY <2>1, <1>0, <1>2, <3>1
    <2> QED
      BY <2>1, <1>0
  <1> HIDE DEF S
  <1>3. Nat \subseteq S
    BY <1>1, <1>2, NatSetInduction
  <1> QED
    BY <1>3, <1>0 DEF S

LEMMA PowerSum ==
    ASSUME NEW i \in Nat, NEW j \in Nat, i + j <= WordBits
    PROVE  2 ^ (i + j) = 2 ^ i * 2 ^ j
  <1> DEFINE S == {k \in Nat : i + k <= WordBits => 2 ^ (i + k) = 2 ^ i * 2 ^ k}
  <1>0. WordBits \in Nat /\ i <= WordBits
    BY RingAssumption
  <1>1. 0 \in S
    <2>1. 2 ^ i \in Nat
      BY Powers, <1>0
    <2>2. i + 0 = i /\ 2 ^ 0 = 1
      BY PowerLaw
    <2> QED
      BY <2>1, <2>2
  <1>2. ASSUME NEW n \in Nat, n \in S PROVE n + 1 \in S
    <2>1. CASE i + n + 1 <= WordBits
      <3>1. 2 ^ ((i + n) + 1) = 2 * 2 ^ (i + n)
        BY <2>1, <1>0, PowerLaw
      <3>2. 2 ^ (n + 1) = 2 * 2 ^ n
        BY <2>1, <1>0, PowerLaw
      <3>3. 2 ^ i \in Nat /\ 2 ^ n \in Nat
        BY Powers, <2>1, <1>0
      <3>4. 2 ^ (i + n) = 2 ^ i * 2 ^ n
        BY <1>2, <2>1, <1>0
      <3>5. 2 * (2 ^ i * 2 ^ n) = 2 ^ i * (2 * 2 ^ n)
        BY <3>3
      <3>6. i + (n + 1) = (i + n) + 1
        OBVIOUS
      <3> QED
        BY <3>1, <3>2, <3>4, <3>5, <3>6
    <2> QED
      BY <2>1, <1>0
  <1> HIDE DEF S
  <1>3. Nat \subseteq S
    BY <1>1, <1>2, NatSetInduction
  <1> QED
    BY <1>3 DEF S

LEMMA PowersGrow ==
    ASSUME NEW i \in 0 .. WordBits, NEW j \in 0 .. WordBits, i <= j
    PROVE  2 ^ i <= 2 ^ j
  <1>1. WordBits \in Nat
    BY RingAssumption
  <1>2. j - i \in Nat /\ i + (j - i) = j
    BY <1>1
  <1>3. 2 ^ j = 2 ^ i * 2 ^ (j - i)
    BY <1>1, <1>2, PowerSum
  <1>4. 2 ^ i \in Nat \ {0} /\ 2 ^ (j - i) \in Nat \ {0}
    BY <1>1, <1>2, Powers
  <1> QED
    BY <1>3, <1>4

LEMMA WordType == Word \in Nat \ {0} /\ Counters = 0 .. (Word - 1)
  <1>1. WordBits \in 0 .. WordBits
    BY RingAssumption
  <1> QED
    BY <1>1, Powers DEF Word, Counters

----------------------------------------------------------------------------
(* The bits of a word. *)

\* 2^k - 1 has the k lowest bits.
LEMMA BitsOfMask ==
    ASSUME NEW k \in 0 .. WordBits
    PROVE  Bits(2 ^ k - 1) = 0 .. (k - 1)
  <1>0. WordBits \in Nat
    BY RingAssumption
  <1>1. ASSUME NEW i \in 0 .. (WordBits - 1), i < k
        PROVE  ((2 ^ k - 1) \div 2 ^ i) % 2 = 1
    <2> DEFINE p == 2 ^ i
               h == 2 ^ (k - i - 1)
    <2>1. 2 ^ k = p * 2 ^ (k - i)
      <3>1. k - i \in Nat /\ i + (k - i) = k
        BY <1>0, <1>1
      <3> QED
        BY <3>1, <1>0, PowerSum
    <2>2. 2 ^ (k - i) = 2 * h
      <3>1. k - i - 1 \in 0 .. (WordBits - 1) /\ (k - i - 1) + 1 = k - i
        BY <1>0, <1>1
      <3> QED
        BY <3>1, PowerLaw
    <2>3. p \in Nat \ {0} /\ h \in Nat \ {0}
      BY <1>0, <1>1, Powers
    <2> HIDE DEF p, h
    <2>4. 2 ^ k - 1 = (p * (2 * h - 1)) + (p - 1)
      BY <2>1, <2>2, <2>3
    <2>5. 2 * h - 1 \in Nat /\ p - 1 \in 0 .. (p - 1)
      BY <2>3
    <2>6. (2 ^ k - 1) \div p = 2 * h - 1
      <3> DEFINE q == 2 * h - 1
                 r == p - 1
                 x == 2 ^ k - 1
      <3>1. q \in Nat /\ r \in 0 .. (p - 1) /\ x = (p * q) + r /\ x \in Int
        BY <2>3, <2>4, <2>5, Powers
      <3> HIDE DEF q, r, x
      <3>2. x \div p = q
        BY <3>1, <2>3, DivisionUnique
      <3> QED
        BY <3>2 DEF q, x
    <2> QED
      BY <2>3, <2>6 DEF p
  <1>2. ASSUME NEW i \in 0 .. (WordBits - 1), k <= i
        PROVE  (2 ^ k - 1) \div 2 ^ i = 0
    <2>1. 2 ^ k <= 2 ^ i /\ 2 ^ k \in Nat \ {0} /\ 2 ^ i \in Nat \ {0}
      BY <1>0, <1>2, PowersGrow, Powers
    <2>2. 2 ^ k - 1 \in 0 .. (2 ^ i - 1) /\ 2 ^ k - 1 = (2 ^ i * 0) + (2 ^ k - 1)
            /\ 2 ^ k - 1 \in Int
      BY <2>1
    <2> QED
      BY <2>1, <2>2, DivisionUnique
  <1>3. \A i \in 0 .. (WordBits - 1) : i \in Bits(2 ^ k - 1) <=> i < k
    <2> TAKE i \in 0 .. (WordBits - 1)
    <2>1. CASE i < k
      BY <1>1, <2>1 DEF Bits
    <2>2. CASE k <= i
      <3> DEFINE d == (2 ^ k - 1) \div 2 ^ i
      <3>1. d = 0
        BY <1>2, <2>2
      <3> HIDE DEF d
      <3>2. d % 2 = 0
        BY <3>1
      <3> QED
        BY <3>2, <2>2, <1>0 DEF Bits, d
    <2> QED
      BY <2>1, <2>2, <1>0
  <1> DEFINE B == Bits(2 ^ k - 1)
  <1>4. B \subseteq 0 .. (WordBits - 1)
    BY DEF Bits
  <1>5. \A i \in 0 .. (WordBits - 1) : i \in B <=> i < k
    BY <1>3
  <1> HIDE DEF B
  <1>6. B = 0 .. (k - 1)
    <2>1. \A i \in B : i \in 0 .. (k - 1)
      BY <1>0, <1>4, <1>5
    <2>2. \A i \in 0 .. (k - 1) : i \in B
      BY <1>0, <1>5
    <2> QED
      BY <2>1, <2>2
  <1> QED
    BY <1>6 DEF B

\* The remainder modulo 2^k keeps the k lowest bits.
LEMMA BitsOfRemainder ==
    ASSUME NEW x \in Counters, NEW k \in 0 .. WordBits
    PROVE  Bits(x % 2 ^ k) = Bits(x) \cap (0 .. (k - 1))
  <1>0. WordBits \in Nat /\ x \in Nat /\ 2 ^ k \in Nat \ {0}
    BY RingAssumption, WordType, Powers
  <1> DEFINE r == x % 2 ^ k
             q == x \div 2 ^ k
  <1>1. q \in Nat /\ r \in 0 .. (2 ^ k - 1) /\ x = (2 ^ k * q) + r
    BY <1>0, Division
  <1> HIDE DEF r, q
  <1>2. ASSUME NEW i \in 0 .. (WordBits - 1), i < k
        PROVE  (x \div 2 ^ i) % 2 = (r \div 2 ^ i) % 2
    <2> DEFINE p == 2 ^ i
               h == 2 ^ (k - i - 1)
               s == r \div p
               t == r % p
    <2>1. 2 ^ k = p * 2 ^ (k - i)
      <3>1. k - i \in Nat /\ i + (k - i) = k
        BY <1>0, <1>2
      <3> QED
        BY <3>1, <1>0, PowerSum
    <2>2. 2 ^ (k - i) = 2 * h
      <3>1. k - i - 1 \in 0 .. (WordBits - 1) /\ (k - i - 1) + 1 = k - i
        BY <1>0, <1>2
      <3> QED
        BY <3>1, PowerLaw
    <2>3. p \in Nat \ {0} /\ h \in Nat \ {0}
      BY <1>0, <1>2, Powers
    <2> HIDE DEF p, h
    <2>4. s \in Nat /\ t \in 0 .. (p - 1) /\ r = (p * s) + t
      <3>1. r \in Nat
        BY <1>1, <1>0
      <3> QED
        BY <3>1, <2>3, Division
    <2> HIDE DEF s, t
    <2>5. x = (p * (2 * (h * q) + s)) + t
      <3>1. x = ((p * (2 * h)) * q) + ((p * s) + t)
        BY <1>1, <2>1, <2>2, <2>4
      <3>2. ((p * (2 * h)) * q) + ((p * s) + t) = (p * (2 * (h * q) + s)) + t
        BY <1>1, <2>3, <2>4
      <3> QED
        BY <3>1, <3>2
    <2>6. h * q \in Nat
      BY <2>3, <1>1
    <2>7. 2 * (h * q) + s \in Nat
      BY <2>6, <2>4
    <2>8. x \div p = 2 * (h * q) + s
      <3> DEFINE u == 2 * (h * q) + s
      <3>1. u \in Nat /\ x = (p * u) + t
        BY <2>5, <2>7
      <3> HIDE DEF u
      <3>2. x \div p = u
        BY <1>0, <2>3, <2>4, <3>1, DivisionUnique
      <3> QED
        BY <3>2 DEF u
    <2>9. (2 * (h * q) + s) % 2 = s % 2
      BY <2>6, <2>4
    <2> QED
      BY <2>8, <2>9 DEF p, s
  <1>3. ASSUME NEW i \in 0 .. (WordBits - 1), k <= i
        PROVE  r \div 2 ^ i = 0
    <2>1. 2 ^ k <= 2 ^ i /\ 2 ^ i \in Nat \ {0}
      BY <1>0, <1>3, PowersGrow, Powers
    <2>2. r \in 0 .. (2 ^ i - 1) /\ r = (2 ^ i * 0) + r
      BY <2>1, <1>1, <1>0
    <2> QED
      BY <2>1, <2>2, DivisionUnique
  <1>4. \A i \in 0 .. (WordBits - 1) : i \in Bits(r) <=> i \in Bits(x) /\ i < k
    <2> TAKE i \in 0 .. (WordBits - 1)
    <2>1. CASE i < k
      BY <1>2, <2>1 DEF Bits
    <2>2. CASE k <= i
      <3>1. (r \div 2 ^ i) % 2 = 0
        BY <1>3, <2>2
      <3> QED
        BY <3>1, <2>2, <1>0 DEF Bits
    <2> QED
      BY <2>1, <2>2, <1>0
  <1>5. Bits(r) = Bits(x) \cap (0 .. (k - 1))
    <2>1. Bits(r) \subseteq 0 .. (WordBits - 1) /\ Bits(x) \subseteq 0 .. (WordBits - 1)
      BY DEF Bits
    <2> QED
      BY <1>0, <1>4, <2>1
  <1> QED
    BY <1>5 DEF r

\* A word is determined by its bits.
LEMMA BitsDetermine ==
    ASSUME NEW x \in Counters, NEW y \in Counters, Bits(x) = Bits(y)
    PROVE  x = y
  <1>0. WordBits \in Nat /\ x \in Nat /\ y \in Nat /\ Word \in Nat \ {0}
    BY RingAssumption, WordType
  <1> DEFINE S == {n \in Nat : n <= WordBits => x % 2 ^ n = y % 2 ^ n}
  <1>1. 0 \in S
    BY <1>0, PowerLaw
  <1>2. ASSUME NEW n \in Nat, n \in S PROVE n + 1 \in S
    <2>1. CASE n + 1 <= WordBits
      <3> DEFINE p == 2 ^ n
      <3>1. p \in Nat \ {0} /\ 2 ^ (n + 1) = 2 * p
        BY <2>1, <1>0, PowerLaw, Powers
      <3>2. x % p = y % p
        BY <1>2, <2>1, <1>0
      <3>3. (x \div p) % 2 = (y \div p) % 2
        <4>1. n \in 0 .. (WordBits - 1)
          BY <2>1, <1>0
        <4>2. (x \div p) % 2 = 1 <=> (y \div p) % 2 = 1
          BY <4>1 DEF Bits
        <4> HIDE DEF p
        <4>3. x \div p \in Nat /\ y \div p \in Nat
          BY <3>1, <1>0, Division
        <4> QED
          BY <4>2, <4>3
      <3> HIDE DEF p
      <3>4. x % (2 * p) = y % (2 * p)
        BY <3>1, <3>2, <3>3, <1>0, RemainderBit
      <3> QED
        BY <3>1, <3>4
    <2> QED
      BY <2>1, <1>0
  <1> HIDE DEF S
  <1>3. Nat \subseteq S
    BY <1>1, <1>2, NatSetInduction
  <1>4. x % Word = y % Word
    BY <1>0, <1>3 DEF S, Word
  <1>5. x \in 0 .. (Word - 1) /\ y \in 0 .. (Word - 1)
    BY WordType
  <1> QED
    BY <1>0, <1>4, <1>5

LEMMA ValueOfBits ==
    ASSUME NEW x \in Counters
    PROVE  Value(Bits(x)) = x
  <1> DEFINE v == Value(Bits(x))
  <1>1. v \in Counters /\ Bits(v) = Bits(x)
    <2>1. \E y \in 0 .. (Word - 1) : Bits(y) = Bits(x)
      BY WordType
    <2> QED
      BY <2>1, WordType DEF Value
  <1> QED
    BY <1>1, BitsDetermine

LEMMA RemainderIsCounter ==
    ASSUME NEW x \in Counters, NEW p \in Nat \ {0}
    PROVE  x % p \in Counters
  <1>1. x \in Nat /\ x < Word /\ Word \in Nat
    BY WordType
  <1> DEFINE q == x \div p
             r == x % p
  <1>2. q \in Nat /\ r \in 0 .. (p - 1) /\ x = (p * q) + r
    BY <1>1, Division
  <1> HIDE DEF q, r
  <1>3. p * q \in Nat
    BY <1>2
  <1>4. r \in 0 .. (Word - 1)
    BY <1>1, <1>2, <1>3
  <1> QED
    BY <1>4, WordType DEF r

\* wr & mask_ is the remainder modulo the capacity.
LEMMA AndMask ==
    ASSUME NEW x \in Counters, NEW k \in 0 .. WordBits
    PROVE  And(x, 2 ^ k - 1) = x % 2 ^ k
  <1>1. And(x, 2 ^ k - 1) = Value(Bits(x % 2 ^ k))
    BY BitsOfMask, BitsOfRemainder DEF And
  <1>2. x % 2 ^ k \in Counters
    BY Powers, RemainderIsCounter
  <1> QED
    BY <1>1, <1>2, ValueOfBits

----------------------------------------------------------------------------
(* nextPow2. *)

\* The positions with a bit of bits less than n places above them.
Spread(bits, n) == {b \in Nat : \E c \in bits : b <= c /\ c <= b + n - 1}

\* v |= v >> n doubles the reach of every bit.
LEMMA SmearDoubles ==
    ASSUME NEW bits, bits \subseteq Nat, NEW n \in Nat \ {0},
           NEW m \in Nat, m = 2 * n
    PROVE  Smear(Spread(bits, n), n) = Spread(bits, m)
  <1>1. ASSUME NEW x \in Smear(Spread(bits, n), n) PROVE x \in Spread(bits, m)
    <2>1. CASE x \in Spread(bits, n)
      BY <2>1 DEF Spread
    <2>2. CASE x \notin Spread(bits, n)
      <3>1. PICK b \in Spread(bits, n) : b >= n /\ x = b - n
        BY <2>2 DEF Smear
      <3>2. PICK c \in bits : b <= c /\ c <= b + n - 1
        BY DEF Spread
      <3>3. b \in Nat /\ c \in Nat
        BY DEF Spread
      <3> QED
        BY <3>1, <3>2, <3>3 DEF Spread
    <2> QED
      BY <2>1, <2>2
  <1>2. ASSUME NEW x \in Spread(bits, m) PROVE x \in Smear(Spread(bits, n), n)
    <2>1. PICK c \in bits : x <= c /\ c <= x + m - 1
      BY DEF Spread
    <2>2. x \in Nat /\ c \in Nat
      BY DEF Spread
    <2>3. CASE c <= x + n - 1
      BY <2>1, <2>2, <2>3 DEF Spread, Smear
    <2>4. CASE c >= x + n
      <3>1. x + n \in Spread(bits, n)
        BY <2>1, <2>2, <2>4 DEF Spread
      <3>2. x + n >= n /\ x = (x + n) - n
        BY <2>2
      <3> QED
        BY <3>1, <3>2 DEF Smear
    <2> QED
      BY <2>2, <2>3, <2>4
  <1> QED
    BY <1>1, <1>2

\* Six of them reach every position of a word of at most 64 bits.
LEMMA SmearAll ==
    ASSUME NEW bits, bits \subseteq 0 .. (WordBits - 1)
    PROVE  LET low  == Smear(Smear(Smear(bits, 1), 2), 4)
               high == Smear(Smear(Smear(low, 8), 16), 32)
           IN  high = {b \in Nat : \E c \in bits : b <= c}
  <1>0. WordBits \in 1 .. 64 /\ bits \subseteq Nat
    BY RingAssumption
  <1>1. bits = Spread(bits, 1)
    <2>1. ASSUME NEW x \in bits PROVE x \in Spread(bits, 1)
      BY <1>0 DEF Spread
    <2>2. ASSUME NEW x \in Spread(bits, 1) PROVE x \in bits
      <3>1. PICK c \in bits : x <= c /\ c <= x + 1 - 1
        BY DEF Spread
      <3>2. x \in Nat /\ c \in Nat
        BY <1>0 DEF Spread
      <3> QED
        BY <3>1, <3>2
    <2> QED
      BY <2>1, <2>2
  <1>2. Smear(Spread(bits, 1), 1) = Spread(bits, 2)
    <2>1. 1 \in Nat \ {0} /\ 2 \in Nat /\ 2 = 2 * 1
      OBVIOUS
    <2> QED
      BY <1>0, <2>1, SmearDoubles, Zenon
  <1>3. Smear(Spread(bits, 2), 2) = Spread(bits, 4)
    <2>1. 2 \in Nat \ {0} /\ 4 \in Nat /\ 4 = 2 * 2
      OBVIOUS
    <2> QED
      BY <1>0, <2>1, SmearDoubles, Zenon
  <1>4. Smear(Spread(bits, 4), 4) = Spread(bits, 8)
    <2>1. 4 \in Nat \ {0} /\ 8 \in Nat /\ 8 = 2 * 4
      OBVIOUS
    <2> QED
      BY <1>0, <2>1, SmearDoubles, Zenon
  <1>5. Smear(Spread(bits, 8), 8) = Spread(bits, 16)
    <2>1. 8 \in Nat \ {0} /\ 16 \in Nat /\ 16 = 2 * 8
      OBVIOUS
    <2> QED
      BY <1>0, <2>1, SmearDoubles, Zenon
  <1>6. Smear(Spread(bits, 16), 16) = Spread(bits, 32)
    <2>1. 16 \in Nat \ {0} /\ 32 \in Nat /\ 32 = 2 * 16
      OBVIOUS
    <2> QED
      BY <1>0, <2>1, SmearDoubles, Zenon
  <1>7. Smear(Spread(bits, 32), 32) = Spread(bits, 64)
    <2>1. 32 \in Nat \ {0} /\ 64 \in Nat /\ 64 = 2 * 32
      OBVIOUS
    <2> QED
      BY <1>0, <2>1, SmearDoubles, Zenon
  <1>8. Spread(bits, 64) = {b \in Nat : \E c \in bits : b <= c}
    BY <1>0 DEF Spread
  <1> QED
    BY <1>1, <1>2, <1>3, <1>4, <1>5, <1>6, <1>7, <1>8

LEMMA NextPow2Smears ==
    ASSUME NEW r
    PROVE  nextPow2(r) = Plus(Value({b \in Nat : \E c \in Bits(Minus(r, 1)) : b <= c}), 1)
  <1>1. Bits(Minus(r, 1)) \subseteq 0 .. (WordBits - 1)
    BY DEF Bits
  <1> QED
    BY <1>1, SmearAll DEF nextPow2

\* Half a word, and the range of a request.
LEMMA HalfWord ==
    /\ WordBits - 1 \in 0 .. WordBits
    /\ 2 ^ (WordBits - 1) \in Nat \ {0}
    /\ Word = 2 * 2 ^ (WordBits - 1) /\ Word \div 2 = 2 ^ (WordBits - 1)
  <1>1. WordBits \in 1 .. 64
    BY RingAssumption
  <1>2. 2 ^ (WordBits - 1) \in Nat \ {0}
    BY <1>1, Powers
  <1>3. Word = 2 * 2 ^ (WordBits - 1)
    BY <1>1, PowerLaw DEF Word
  <1> QED
    BY <1>1, <1>2, <1>3

\* The constructor's size: the least power of two that holds the request.
THEOREM NextPow2Least ==
    ASSUME NEW r \in 1 .. (Word \div 2)
    PROVE  \E k \in 0 .. (WordBits - 1) :
              /\ nextPow2(r) = 2 ^ k /\ r <= 2 ^ k
              /\ \A j \in 0 .. (WordBits - 1) : r <= 2 ^ j => k <= j
  <1>0. WordBits \in 1 .. 64 /\ Word \in Nat \ {0} /\ Word \div 2 \in Nat
    BY RingAssumption, WordType, HalfWord
  <1> DEFINE v == r - 1
             B == Bits(v)
             Bounds == {n \in Nat : n <= WordBits /\ B \subseteq 0 .. (n - 1)}
  <1>1. v \in Counters /\ v \in Nat /\ r \in Nat \ {0} /\ v < Word \div 2
    BY <1>0, WordType, HalfWord
  <1>2. Minus(r, 1) = v
    BY <1>0, <1>1, WordType DEF Minus
  <1>3. B \subseteq 0 .. (WordBits - 1)
    BY DEF Bits
  \* v fits in n bits exactly when n bounds its bits.
  <1>4. ASSUME NEW n \in 0 .. WordBits PROVE v < 2 ^ n <=> n \in Bounds
    <2>1. 2 ^ n \in Nat \ {0} /\ v % 2 ^ n \in Counters
      BY <1>1, Powers, RemainderIsCounter
    <2>2. Bits(v % 2 ^ n) = B \cap (0 .. (n - 1))
      BY <1>1, BitsOfRemainder
    <2>3. v % 2 ^ n = v <=> v < 2 ^ n
      BY <1>1, <2>1
    <2>4. v % 2 ^ n = v <=> Bits(v % 2 ^ n) = B
      BY <1>1, <2>1, BitsDetermine
    <2>5. n \in Nat /\ n <= WordBits
      BY <1>0
    <2> QED
      BY <2>2, <2>3, <2>4, <2>5
  <1> HIDE DEF v, B
  <1>5. PICK k \in Bounds : \A n \in Bounds : k <= n
    <2>1. WordBits \in Bounds
      BY <1>3, <1>0
    <2> QED
      BY <2>1, LeastNatural
  <1>6. k \in 0 .. (WordBits - 1)
    <2>1. WordBits - 1 \in Bounds
      BY <1>1, <1>4, HalfWord
    <2> QED
      BY <2>1, <1>5, <1>0
  <1>7. {b \in Nat : \E c \in B : b <= c} = 0 .. (k - 1)
    <2>0. k \in Nat /\ B \subseteq 0 .. (k - 1)
      OBVIOUS
    <2>1. CASE k = 0
      BY <2>0, <2>1
    <2>2. CASE k > 0
      <3>1. k - 1 \in B
        <4>1. SUFFICES ASSUME k - 1 \notin B PROVE FALSE
          OBVIOUS
        <4>2. B \subseteq 0 .. ((k - 1) - 1)
          BY <2>0, <2>2, <4>1
        <4>3. k - 1 \in Bounds
          BY <2>0, <2>2, <4>2, <1>6, <1>0
        <4> QED
          BY <2>0, <4>3, <1>5
      <3> QED
        BY <2>0, <2>2, <3>1
    <2> QED
      BY <2>0, <2>1, <2>2
  <1>8. k \in 0 .. WordBits /\ 2 ^ k \in Nat \ {0} /\ 2 ^ k <= 2 ^ (WordBits - 1)
    BY <1>0, <1>6, Powers, PowersGrow, HalfWord
  <1>9. Value(0 .. (k - 1)) = 2 ^ k - 1
    <2>1. 2 ^ k - 1 \in Counters
      BY <1>8, HalfWord, WordType
    <2> QED
      BY <2>1, <1>8, BitsOfMask, ValueOfBits
  <1>10. nextPow2(r) = Plus(2 ^ k - 1, 1)
    <2>1. nextPow2(r) = Plus(Value({b \in Nat : \E c \in B : b <= c}), 1)
      BY <1>2, NextPow2Smears DEF B
    <2> QED
      BY <2>1, <1>7, <1>9
  <1>11. nextPow2(r) = 2 ^ k
    <2>1. (2 ^ k - 1) + 1 = 2 ^ k /\ 2 ^ k < Word
      BY <1>8, HalfWord
    <2> QED
      BY <1>0, <1>8, <1>10, <2>1 DEF Plus
  <1>12. r <= 2 ^ k
    BY <1>4, <1>8, <1>1, <1>5 DEF v
  <1>13. ASSUME NEW j \in 0 .. (WordBits - 1), r <= 2 ^ j PROVE k <= j
    <2>1. j \in 0 .. WordBits /\ 2 ^ j \in Nat
      BY <1>0, Powers
    <2>2. v < 2 ^ j
      BY <1>1, <1>13, <2>1 DEF v
    <2> QED
      BY <2>1, <2>2, <1>4, <1>5
  <1> QED
    BY <1>6, <1>11, <1>12, <1>13

\* A request of zero wraps to a capacity of zero.
LEMMA NextPow2OfZero == nextPow2(0) = 0
  <1>0. WordBits \in 1 .. 64 /\ Word \in Nat \ {0}
    BY RingAssumption, WordType
  <1>1. Minus(0, 1) = Word - 1
    BY <1>0 DEF Minus
  <1>2. Bits(Word - 1) = 0 .. (WordBits - 1)
    BY <1>0, BitsOfMask DEF Word
  <1>4. Word - 1 \in Counters
    BY <1>0, WordType
  <1>5. nextPow2(0) = Plus(Value(0 .. (WordBits - 1)), 1)
    <2> DEFINE B == Bits(Minus(0, 1))
    <2>1. B = 0 .. (WordBits - 1)
      BY <1>1, <1>2
    <2>2. nextPow2(0) = Plus(Value({b \in Nat : \E c \in B : b <= c}), 1)
      BY NextPow2Smears
    <2> HIDE DEF B
    <2>3. {b \in Nat : \E c \in B : b <= c} = 0 .. (WordBits - 1)
      BY <2>1, <1>0
    <2> QED
      BY <2>2, <2>3
  <1>6. nextPow2(0) = Plus(Word - 1, 1)
    BY <1>2, <1>4, <1>5, ValueOfBits
  <1> QED
    BY <1>0, <1>6 DEF Plus

----------------------------------------------------------------------------
(* The inductive invariant. *)

\* The mask has the lowest k bits; all of them (capacity 0) for a request of 0.
MaskInv == \E k \in 0 .. WordBits : mask_ = 2 ^ k - 1

Used == Minus(write_, read_)

\* What each thread saw of the other's counter is old but safe: the producer
\* sees at least what is there, the consumer at most, and a call that is past
\* its check fits what was seen.
CountInv ==
    /\ capacity = 0 => read_ = 0 /\ write_ = 0
    /\ Used <= Minus(write_, producer.rd) /\ Minus(write_, producer.rd) <= capacity
    /\ Minus(consumer.wr, read_) <= Used
    /\ producer.pc \in {"copy1", "copy2", "store"} \/ (producer.pc = "push" /\ producer.checked) =>
          producer.n <= RoomSeen(producer.rd)
    /\ consumer.pc # "idle" => consumer.n <= Minus(consumer.wr, read_)

Cell(from, d) == And(Plus(from, d), mask_)

\* Samples from .. from+n-1 are in their cells.
Holds(from, n) == \A d \in 0 .. (n - 1) : buffer_[Cell(from, d)] = Plus(from, d)

Samples(from, n) == [i \in 1 .. n |-> Plus(from, i - 1)]

\* What is between the counters, what a push in progress has copied in and what
\* a pop in progress has copied out are the samples with the right numbers.
DataInv ==
    /\ Holds(read_, Used)
    /\ producer.pc = "copy2" => Holds(write_, First(write_, producer.n))
    /\ producer.pc = "store" => Holds(write_, producer.n)
    /\ consumer.pc = "copy2" => consumer.dst = Samples(read_, First(read_, consumer.n))
    /\ consumer.pc = "store" => consumer.dst = Samples(read_, consumer.n)

RingInv == TypeOK /\ MaskInv /\ CountInv /\ DataInv

----------------------------------------------------------------------------
(* Counters and cells. *)

LEMMA PlusValue ==
    ASSUME NEW a \in Counters, NEW b \in Counters
    PROVE  /\ Plus(a, b) \in Counters
           /\ Plus(a, b) = IF a + b < Word THEN a + b ELSE a + b - Word
  BY WordType DEF Plus

LEMMA MinusValue ==
    ASSUME NEW a \in Counters, NEW b \in Counters
    PROVE  /\ Minus(a, b) \in Counters
           /\ Minus(a, b) = IF b <= a THEN a - b ELSE Word + a - b
  BY WordType DEF Minus

\* A capacity is zero or a power of two that divides the range of the counters,
\* and masking is the remainder.
LEMMA Geometry ==
    ASSUME MaskInv
    PROVE  /\ mask_ \in Counters
           /\ capacity \in 0 .. (Word \div 2)
           /\ capacity = 0 => \A x \in Counters : And(x, mask_) = x
           /\ capacity # 0 => /\ \A x \in Counters : And(x, mask_) = x % capacity
                              /\ \E m \in Nat : Word = capacity * m
  <1>1. PICK k \in 0 .. WordBits : mask_ = 2 ^ k - 1
    BY DEF MaskInv
  <1>2. WordBits \in 1 .. 64 /\ Word \in Nat \ {0} /\ 2 ^ k \in Nat \ {0} /\ 2 ^ k <= Word
    <2>1. WordBits \in 1 .. 64 /\ WordBits \in 0 .. WordBits /\ k <= WordBits
      BY RingAssumption
    <2> QED
      BY <2>1, WordType, Powers, PowersGrow DEF Word
  <1>3. \A x \in Counters : And(x, mask_) = x % 2 ^ k
    BY <1>1, AndMask
  <1>4. mask_ \in Counters
    BY <1>1, <1>2, WordType
  <1>5. CASE k = WordBits
    <2>1. 2 ^ k = Word
      BY <1>5 DEF Word
    <2>2. capacity = 0
      BY <1>1, <1>2, <2>1 DEF capacity, Plus
    <2>3. \A x \in Counters : x % Word = x
      BY <1>2, WordType
    <2> QED
      BY <1>2, <1>3, <1>4, <2>1, <2>2, <2>3, HalfWord
  <1>6. CASE k < WordBits
    <2>1. 2 ^ k <= 2 ^ (WordBits - 1)
      BY <1>2, <1>6, PowersGrow
    <2>2. capacity = 2 ^ k
      <3>1. (2 ^ k - 1) + 1 = 2 ^ k /\ 2 ^ k < Word
        BY <1>2, <2>1, HalfWord
      <3> QED
        BY <1>1, <1>2, <3>1 DEF capacity, Plus
    <2>3. WordBits - k \in Nat /\ k + (WordBits - k) = WordBits
      BY <1>2, <1>6
    <2>4. Word = 2 ^ k * 2 ^ (WordBits - k)
      BY <2>3, <1>2, PowerSum DEF Word
    <2>5. 2 ^ (WordBits - k) \in Nat
      BY <2>3, <1>2, Powers
    <2> QED
      BY <1>2, <1>3, <1>4, <2>1, <2>2, <2>4, <2>5, HalfWord
  <1> QED
    BY <1>2, <1>5, <1>6

LEMMA CapacityType ==
    ASSUME MaskInv
    PROVE  capacity \in Nat /\ capacity < Word /\ Word \in Nat \ {0}
  BY Geometry, HalfWord

\* Cells are numbered on from the first one, around the end of the buffer.
LEMMA CellRemainder ==
    ASSUME MaskInv, capacity # 0, NEW from \in Counters, NEW d \in Counters
    PROVE  Cell(from, d) = (from + d) % capacity
  <1>0. capacity \in Nat \ {0} /\ Word \in Nat /\ from \in Nat /\ d \in Nat
    BY Geometry, WordType, HalfWord
  <1>1. Plus(from, d) \in Counters /\ Plus(from, d) = IF from + d < Word THEN from + d
                                                      ELSE from + d - Word
    BY PlusValue
  <1>2. Cell(from, d) = Plus(from, d) % capacity
    BY <1>1, Geometry DEF Cell
  <1>3. CASE from + d < Word
    BY <1>1, <1>2, <1>3
  <1>4. CASE ~(from + d < Word)
    <2>1. PICK m \in Nat : Word = capacity * m
      BY Geometry
    <2> DEFINE y == from + d - Word
               x == from + d
    <2>2. y \in Nat /\ x \in Nat /\ x = y + (capacity * m)
      BY <1>0, <1>4, <2>1
    <2> HIDE DEF y, x
    <2>3. x % capacity = y % capacity
      <3> DEFINE c == capacity
      <3>1. c \in Nat \ {0} /\ x = y + (c * m)
        BY <1>0, <2>2
      <3> HIDE DEF c
      <3>2. (y + (c * m)) % c = y % c
        BY <2>2, <3>1, RemainderShift, Zenon
      <3> QED
        BY <3>1, <3>2 DEF c
    <2> QED
      BY <1>1, <1>2, <1>4, <2>3 DEF y, x
  <1> QED
    BY <1>3, <1>4

LEMMA CellType ==
    ASSUME MaskInv, capacity # 0, NEW from \in Counters, NEW d \in Counters
    PROVE  Cell(from, d) \in 0 .. (capacity - 1)
  <1>1. capacity \in Nat \ {0} /\ from + d \in Nat
    BY Geometry, WordType, HalfWord
  <1> QED
    BY <1>1, CellRemainder, Division

\* Samples less than a capacity apart have different cells.
LEMMA CellsDiffer ==
    ASSUME MaskInv, capacity # 0, NEW from \in Counters,
           NEW d \in 0 .. (capacity - 1), NEW e \in 0 .. (capacity - 1),
           Cell(from, d) = Cell(from, e)
    PROVE  d = e
  <1>0. capacity \in Nat \ {0} /\ from \in Nat /\ capacity <= Word /\ Word \in Nat
    <2>1. Word \in Nat /\ from \in Nat /\ Word \div 2 \in Nat /\ Word = 2 * (Word \div 2)
      BY WordType, HalfWord
    <2>2. capacity \in 0 .. (Word \div 2)
      BY Geometry
    <2> QED
      BY <2>1, <2>2
  <1>1. d \in Counters /\ e \in Counters
    BY <1>0, WordType
  <1> DEFINE x == from + d
             y == from + e
  <1>2. x % capacity = y % capacity /\ x \in Nat /\ y \in Nat /\ x - y = d - e /\ y - x = e - d
    BY <1>0, <1>1, CellRemainder
  <1>3. x - y < capacity /\ y - x < capacity
    BY <1>0, <1>2
  <1> HIDE DEF x, y
  <1>4. x = y
    BY <1>0, <1>2, <1>3, RemainderDiffers
  <1> QED
    BY <1>0, <1>4 DEF x, y

\* The two memcpys of n samples from counter value from on cover their cells.
LEMMA CellSplit ==
    ASSUME MaskInv, NEW from \in Counters, NEW n \in 0 .. capacity, capacity = 0 => from = 0
    PROVE  LET place == And(from, mask_)
               f   == First(from, n)
           IN  /\ place \in Nat /\ f \in 0 .. n /\ place + f <= capacity
               /\ \A d \in 0 .. (f - 1) : Cell(from, d) = place + d
               /\ \A d \in f .. (n - 1) : Cell(from, d) = d - f
  <1> DEFINE place == And(from, mask_)
             f   == First(from, n)
             c   == capacity
  <1>0. c \in Nat /\ c <= Word /\ from \in Nat /\ n \in 0 .. c /\ Word \in Nat
    BY Geometry, WordType, HalfWord
  <1>1. CASE c = 0
    <2>1. place = 0 /\ n = 0
      BY <1>0, <1>1, Geometry
    <2>2. f = 0
      BY <1>1, <2>1 DEF First
    <2> QED
      BY <1>1, <2>1, <2>2
  <1>2. CASE c # 0
    <2>1. place = from % c
      BY <1>2, Geometry
    <2>2. PICK q \in Nat : place \in 0 .. (c - 1) /\ from = (c * q) + place
      BY <1>0, <1>2, <2>1, Division
    <2>3. f = IF n <= c - place THEN n ELSE c - place
      BY DEF First
    <2>4. \A d \in 0 .. (n - 1) : Cell(from, d) = (from + d) % c
      BY <1>0, <1>2, CellRemainder, WordType
    <2> HIDE DEF place, f, c
    <2>5. f \in 0 .. n /\ place + f <= c
      BY <1>0, <2>2, <2>3
    <2>6. ASSUME NEW d \in 0 .. (f - 1) PROVE (from + d) % c = place + d
      <3> DEFINE x == from + d
                 r == place + d
      <3>1. x \in Int /\ r \in 0 .. (c - 1) /\ x = (c * q) + r
        BY <1>0, <2>2, <2>5
      <3> HIDE DEF x, r
      <3>2. x % c = r
        BY <1>0, <1>2, <3>1, DivisionUnique
      <3> QED
        BY <3>2 DEF x, r
    <2>7. ASSUME NEW d \in f .. (n - 1) PROVE (from + d) % c = d - f
      <3> DEFINE x == from + d
                 r == d - f
                 u == q + 1
      <3>1. f = c - place
        BY <1>0, <2>2, <2>3, <2>5
      <3>2. c * u = (c * q) + c
        BY <1>0
      <3>3. u \in Nat /\ x \in Int /\ r \in 0 .. (c - 1) /\ x = (c * u) + r
        BY <1>0, <2>2, <2>5, <3>1, <3>2
      <3> HIDE DEF x, r, u
      <3>4. x % c = r
        BY <1>0, <1>2, <3>3, DivisionUnique
      <3> QED
        BY <3>4 DEF x, r
    <2>8. (\A d \in 0 .. (f - 1) : Cell(from, d) = place + d)
          /\ (\A d \in f .. (n - 1) : Cell(from, d) = d - f)
      <3>1. \A d \in 0 .. (f - 1) : d \in 0 .. (n - 1)
        BY <1>0, <2>5
      <3>2. \A d \in f .. (n - 1) : d \in 0 .. (n - 1)
        BY <1>0, <2>5
      <3> QED
        BY <2>4, <2>6, <2>7, <3>1, <3>2
    <2> QED
      BY <2>2, <2>5, <2>8 DEF place, f, c
  <1> QED
    BY <1>1, <1>2

LEMMA Fields ==
    ASSUME TypeOK
    PROVE  /\ producer.n \in Counters /\ producer.rd \in Counters
           /\ consumer.n \in Counters /\ consumer.wr \in Counters
           /\ read_ \in Counters /\ write_ \in Counters
           /\ Used \in Counters /\ write_ = Plus(read_, Used)
  <1>1. producer.n \in Counters /\ producer.rd \in Counters
        /\ consumer.n \in Counters /\ consumer.wr \in Counters
        /\ read_ \in Counters /\ write_ \in Counters
    BY DEF TypeOK
  <1>2. Used \in Counters /\ Used = IF read_ <= write_ THEN write_ - read_ ELSE Word + write_ - read_
    BY <1>1, MinusValue DEF Used
  <1>3. write_ = Plus(read_, Used)
    <2>1. Plus(read_, Used) = IF read_ + Used < Word THEN read_ + Used ELSE read_ + Used - Word
      BY <1>1, <1>2, PlusValue
    <2>2. read_ \in 0 .. (Word - 1) /\ write_ \in 0 .. (Word - 1) /\ Word \in Nat
      BY <1>1, WordType
    <2> QED
      BY <1>2, <2>1, <2>2
  <1> QED
    BY <1>1, <1>2, <1>3

LEMMA Numbers ==
    ASSUME TypeOK, MaskInv
    PROVE  /\ capacity \in Nat /\ Used \in Nat /\ producer.n \in Nat /\ consumer.n \in Nat
           /\ \A rd \in Counters : Minus(write_, rd) \in Nat
           /\ \A wr \in Counters : Minus(wr, read_) \in Nat
  <1>1. Counters \subseteq Nat
    BY WordType
  <1>2. capacity \in Nat /\ Used \in Nat /\ producer.n \in Nat /\ consumer.n \in Nat
    BY <1>1, Fields, CapacityType
  <1>3. read_ \in Counters /\ write_ \in Counters
    BY Fields
  <1>4. \A rd \in Counters : Minus(write_, rd) \in Counters /\ Minus(rd, read_) \in Counters
    BY <1>3, MinusValue
  <1> QED
    BY <1>1, <1>2, <1>4

\* What is to be written is not what is to be read.
LEMMA CellsApart ==
    ASSUME TypeOK, MaskInv, NEW n \in Nat, Used + n <= capacity,
           NEW d \in 0 .. (Used - 1), NEW e \in 0 .. (n - 1)
    PROVE  Cell(read_, d) # Cell(write_, e)
  <1>0. /\ capacity \in Nat \ {0} /\ capacity <= Word /\ Word \in Nat \ {0} /\ Used \in Nat
        /\ read_ \in Counters /\ write_ \in Counters
    <2>1. Used \in Nat /\ read_ \in Counters /\ write_ \in Counters
      BY Fields, WordType
    <2> QED
      BY <2>1, CapacityType
  <1>1. e \in Counters /\ Used + e \in Counters /\ Used \in Counters
    BY <1>0, WordType
  <1>2. Plus(write_, e) = Plus(read_, Used + e)
    <2>1. write_ = IF read_ + Used < Word THEN read_ + Used ELSE read_ + Used - Word
      BY <1>0, <1>1, Fields, PlusValue
    <2>2. Plus(write_, e) = IF write_ + e < Word THEN write_ + e ELSE write_ + e - Word
      BY <1>0, <1>1, PlusValue
    <2>3. Plus(read_, Used + e) = IF read_ + (Used + e) < Word THEN read_ + (Used + e)
                                  ELSE read_ + (Used + e) - Word
      BY <1>0, <1>1, PlusValue
    <2>4. read_ \in 0 .. (Word - 1) /\ write_ \in 0 .. (Word - 1) /\ e \in 0 .. (Word - 1)
          /\ Used + e <= Word - 1
      BY <1>0, <1>1, WordType
    <2> QED
      BY <1>0, <2>1, <2>2, <2>3, <2>4
  <1>3. Cell(write_, e) = Cell(read_, Used + e)
    BY <1>2 DEF Cell
  <1>4. d \in 0 .. (capacity - 1) /\ Used + e \in 0 .. (capacity - 1) /\ d # Used + e
    BY <1>0
  <1> QED
    BY <1>0, <1>3, <1>4, CellsDiffer

\* A memcpy of the producer fills its cells and leaves the others alone.
LEMMA CopiedSegment ==
    ASSUME TypeOK, MaskInv, NEW place \in Nat, NEW lo \in Nat, NEW hi \in Nat,
           lo <= hi, hi <= capacity, place + (hi - lo) <= capacity,
           \A d \in lo .. (hi - 1) : Cell(write_, d) = place + (d - lo)
    PROVE  /\ Copied(place, lo, hi) \in [0 .. (capacity - 1) -> Counters]
           /\ \A d \in lo .. (hi - 1) : Copied(place, lo, hi)[Cell(write_, d)] = Plus(write_, d)
           /\ \A i \in 0 .. (capacity - 1) :
                 (\A d \in lo .. (hi - 1) : i # Cell(write_, d)) =>
                    Copied(place, lo, hi)[i] = buffer_[i]
  <1>0. /\ capacity \in Nat /\ capacity <= Word /\ Word \in Nat \ {0}
        /\ write_ \in Counters /\ buffer_ \in [0 .. (capacity - 1) -> Counters]
    BY CapacityType DEF TypeOK
  <1>1. DOMAIN buffer_ = 0 .. (capacity - 1)
    BY <1>0
  <1> DEFINE c == capacity
             new == Copied(place, lo, hi)
  <1>2. new = [i \in 0 .. (c - 1) |-> IF place <= i /\ i < place + hi - lo
                                      THEN Plus(write_, lo + i - place) ELSE buffer_[i]]
    BY <1>1 DEF Copied
  <1>3. \A d \in lo .. (hi - 1) : d \in Counters
    BY <1>0, WordType
  <1>4. c \in Nat /\ hi <= c /\ place + (hi - lo) <= c /\ buffer_ \in [0 .. (c - 1) -> Counters]
    BY <1>0
  <1> HIDE DEF c, new
  <1>5. ASSUME NEW i \in 0 .. (c - 1) PROVE new[i] \in Counters
    <2>1. CASE place <= i /\ i < place + hi - lo
      <3>1. lo + i - place \in lo .. (hi - 1)
        BY <2>1, <1>4
      <3> QED
        BY <1>0, <1>2, <1>3, <2>1, <3>1, PlusValue
    <2>2. CASE ~(place <= i /\ i < place + hi - lo)
      BY <1>2, <1>4, <2>2
    <2> QED
      BY <2>1, <2>2
  <1>6. new \in [0 .. (c - 1) -> Counters]
    BY <1>2, <1>5
  <1>7. ASSUME NEW d \in lo .. (hi - 1) PROVE new[Cell(write_, d)] = Plus(write_, d)
    <2>1. Cell(write_, d) = place + (d - lo)
      OBVIOUS
    <2>2. place + (d - lo) \in 0 .. (c - 1) /\ place <= place + (d - lo)
          /\ place + (d - lo) < place + hi - lo /\ lo + (place + (d - lo)) - place = d
      BY <1>4
    <2> QED
      BY <1>2, <2>1, <2>2
  <1>8. ASSUME NEW i \in 0 .. (c - 1), \A d \in lo .. (hi - 1) : i # Cell(write_, d)
        PROVE  new[i] = buffer_[i]
    <2>1. ~(place <= i /\ i < place + hi - lo)
      <3>1. SUFFICES ASSUME place <= i, i < place + hi - lo PROVE FALSE
        OBVIOUS
      <3> DEFINE d == lo + (i - place)
      <3>2. d \in lo .. (hi - 1) /\ place + (d - lo) = i
        BY <1>4, <3>1
      <3> HIDE DEF d
      <3> QED
        BY <3>2, <1>8
    <2> QED
      BY <1>2, <2>1
  <1> QED
    BY <1>6, <1>7, <1>8 DEF c, new

----------------------------------------------------------------------------
(* Every step keeps the invariant. *)

LEMMA RingInit == Init => RingInv
  <1> SUFFICES ASSUME Init PROVE RingInv
    OBVIOUS
  <1>0. Word \in Nat \ {0} /\ WordBits \in 1 .. 64
    BY WordType, RingAssumption
  <1>1. MaskInv
    <2>1. PICK r \in Requests : mask_ = Minus(nextPow2(r), 1)
      BY DEF Init
    <2>2. CASE r = 0
      <3>1. mask_ = Word - 1
        BY <1>0, <2>1, <2>2, NextPow2OfZero DEF Minus
      <3> QED
        BY <1>0, <3>1 DEF MaskInv, Word
    <2>3. CASE r # 0
      <3>1. r \in 1 .. (Word \div 2)
        BY <2>3, RingAssumption, HalfWord
      <3>2. PICK k \in 0 .. (WordBits - 1) : nextPow2(r) = 2 ^ k
        BY <3>1, NextPow2Least
      <3>3. k \in 0 .. WordBits /\ 2 ^ k \in Nat \ {0} /\ 2 ^ k <= 2 ^ (WordBits - 1)
        BY <1>0, Powers, PowersGrow, HalfWord
      <3>4. 2 ^ k < Word
        BY <3>3, HalfWord
      <3>5. mask_ = 2 ^ k - 1
        BY <1>0, <2>1, <3>2, <3>3, <3>4 DEF Minus
      <3> QED
        BY <3>3, <3>5 DEF MaskInv
    <2> QED
      BY <2>2, <2>3
  <1>2. mask_ \in Counters /\ capacity \in Nat /\ 0 \in Counters /\ <<>> \in Seq(Counters)
    BY <1>0, <1>1, Geometry, CapacityType, WordType
  <1>3. TypeOK
    BY <1>2 DEF Init, TypeOK
  <1>4. Minus(0, 0) = 0
    BY <1>0 DEF Minus
  <1>5. CountInv
    BY <1>2, <1>4 DEF Init, CountInv, Used
  <1>6. DataInv
    BY <1>4 DEF Init, DataInv, Used, Holds
  <1> QED
    BY <1>1, <1>3, <1>5, <1>6 DEF RingInv

\* Where the counters and the buffer stay, so does what they hold.
LEMMA Frame ==
    ASSUME UNCHANGED <<mask_, buffer_, read_, write_>>
    PROVE  /\ MaskInv' = MaskInv /\ capacity' = capacity /\ Used' = Used
           /\ Holds(read_, Used)' = Holds(read_, Used)
    BY DEF MaskInv, capacity, Used, Holds, Cell

LEMMA AvailableWriteStep ==
    ASSUME RingInv, NEW n \in PushSizes, NEW rd \in Counters, AvailableWrite(n, rd)
    PROVE  RingInv'
  <1> USE DEF RingInv
  <1>0. UNCHANGED <<mask_, buffer_, read_, write_, consumer, got>> /\ n \in Counters
        /\ producer.pc = "idle" /\ capacity' = capacity /\ Used' = Used /\ MaskInv'
    BY RingAssumption, WordType, Frame DEF AvailableWrite
  <1>1. TypeOK'
    BY <1>0 DEF AvailableWrite, TypeOK
  <1>2. Minus(write_, rd) >= Used /\ Minus(write_, rd) <= capacity
    <2>1. rd = producer.rd \/ rd = read_
      BY DEF AvailableWrite
    <2>2. Used \in Nat /\ Minus(write_, producer.rd) \in Nat /\ capacity \in Nat
      BY Fields, Numbers
    <2> QED
      BY <2>1, <2>2 DEF CountInv, Used
  <1>3. producer'.rd = rd /\ (producer'.pc = "idle" \/ (producer'.pc = "push" /\ producer'.n <= RoomSeen(rd)))
    BY <1>0 DEF AvailableWrite, TypeOK
  <1>4. CountInv'
    BY <1>0, <1>2, <1>3 DEF CountInv, RoomSeen
  <1>5. DataInv'
    BY <1>0, <1>3, Frame DEF DataInv, First
  <1> QED
    BY <1>0, <1>1, <1>4, <1>5

LEMMA PushUnaskedStep ==
    ASSUME RingInv, NEW n \in PushSizes, PushUnasked(n)
    PROVE  RingInv'
  <1> USE DEF RingInv
  <1>0. UNCHANGED <<mask_, buffer_, read_, write_, consumer, got>> /\ n \in Counters
        /\ capacity' = capacity /\ Used' = Used /\ MaskInv'
    BY RingAssumption, WordType, Frame DEF PushUnasked
  <1>1. TypeOK'
    BY <1>0 DEF PushUnasked, TypeOK
  <1>2. producer'.rd = producer.rd /\ producer'.pc = "push" /\ ~producer'.checked
    BY DEF PushUnasked, TypeOK
  <1>3. CountInv'
    BY <1>0, <1>2 DEF CountInv, RoomSeen
  <1>4. DataInv'
    BY <1>0, <1>2, Frame DEF DataInv, First
  <1> QED
    BY <1>0, <1>1, <1>3, <1>4

LEMMA TryPushStep ==
    ASSUME RingInv, NEW rd \in Counters, TryPush(rd)
    PROVE  RingInv'
  <1> USE DEF RingInv
  <1>0. UNCHANGED <<mask_, buffer_, read_, write_, consumer, got>>
        /\ capacity' = capacity /\ Used' = Used /\ MaskInv'
    BY Frame DEF TryPush
  <1>1. TypeOK'
    BY <1>0 DEF TryPush, TypeOK
  <1>2. Minus(write_, rd) >= Used /\ Minus(write_, rd) <= capacity
    <2>1. rd = producer.rd \/ rd = read_
      BY DEF TryPush
    <2>2. Used \in Nat /\ Minus(write_, producer.rd) \in Nat /\ capacity \in Nat
      BY Fields, Numbers
    <2> QED
      BY <2>1, <2>2 DEF CountInv, Used
  <1>3. /\ producer'.rd = rd /\ producer'.n = producer.n
        /\ producer'.pc = "idle" \/ (producer'.pc = "copy1" /\ ~(producer.n > RoomSeen(rd)))
    BY DEF TryPush, TypeOK
  <1>4. ~(producer.n > RoomSeen(rd)) => producer.n <= RoomSeen(rd)
    <2>1. producer.n \in Nat /\ capacity \in Nat /\ Minus(write_, rd) \in Nat
      BY Fields, Numbers
    <2> QED
      BY <2>1 DEF RoomSeen
  <1>5. CountInv'
    BY <1>0, <1>2, <1>3, <1>4 DEF CountInv, RoomSeen
  <1>6. DataInv'
    BY <1>0, <1>3, Frame DEF DataInv, First
  <1> QED
    BY <1>0, <1>1, <1>5, <1>6

\* A push past its check fits between what is there and the capacity.
LEMMA PushFits ==
    ASSUME RingInv, producer.pc \in {"copy1", "copy2", "store"}
    PROVE  /\ producer.n \in 0 .. capacity /\ Used + producer.n <= capacity
           /\ Minus(write_, producer.rd) + producer.n <= capacity
           /\ capacity = 0 => write_ = 0
  <1>1. /\ producer.n <= capacity - Minus(write_, producer.rd)
        /\ Used <= Minus(write_, producer.rd)
        /\ capacity = 0 => write_ = 0
    BY DEF RingInv, CountInv, RoomSeen
  <1>2. capacity \in Nat /\ Used \in Nat /\ producer.n \in Nat /\ Minus(write_, producer.rd) \in Nat
    BY Fields, Numbers DEF RingInv
  <1> QED
    BY <1>1, <1>2

\* Copying to cells of the chunk leaves what is to be read alone.
LEMMA CopyKeepsQueue ==
    ASSUME RingInv, producer.pc \in {"copy1", "copy2", "store"},
           NEW b, NEW lo \in Nat, NEW hi \in Nat, hi <= producer.n,
           \A i \in 0 .. (capacity - 1) :
              (\A d \in lo .. (hi - 1) : i # Cell(write_, d)) => b[i] = buffer_[i]
    PROVE  \A d \in 0 .. (Used - 1) : b[Cell(read_, d)] = Plus(read_, d)
  <1> TAKE d \in 0 .. (Used - 1)
  <1>1. TypeOK /\ MaskInv /\ Holds(read_, Used)
    BY DEF RingInv, DataInv
  <1>2. capacity \in Nat /\ Used \in Nat /\ producer.n \in Nat /\ Used + producer.n <= capacity
    BY <1>1, Numbers, PushFits
  <1>3. capacity # 0 /\ d \in Counters /\ read_ \in Counters
    <2>1. capacity < Word /\ Word \in Nat
      BY <1>1, CapacityType
    <2> QED
      BY <1>1, <1>2, <2>1, WordType, Fields
  <1>4. \A e \in lo .. (hi - 1) : Cell(read_, d) # Cell(write_, e)
    <2> TAKE e \in lo .. (hi - 1)
    <2>1. e \in 0 .. (producer.n - 1)
      BY <1>2
    <2> QED
      BY <1>1, <1>2, <2>1, CellsApart
  <1>5. Cell(read_, d) \in 0 .. (capacity - 1)
    BY <1>1, <1>3, CellType
  <1>6. b[Cell(read_, d)] = buffer_[Cell(read_, d)]
    BY <1>4, <1>5
  <1> QED
    BY <1>1, <1>6 DEF Holds

LEMMA PushFirstStep ==
    ASSUME RingInv, PushFirst
    PROVE  RingInv'
  <1> USE DEF RingInv
  <1> DEFINE n == producer.n
             f == First(write_, n)
             place == And(write_, mask_)
             b == Copied(place, 0, f)
  <1>0. /\ UNCHANGED <<mask_, read_, write_, consumer, got>> /\ buffer_' = b
        /\ producer.pc = "copy1" /\ producer' = [producer EXCEPT !.pc = "copy2"]
        /\ write_ \in Counters
    BY Fields DEF PushFirst
  <1>1. capacity' = capacity /\ Used' = Used /\ MaskInv'
    BY <1>0 DEF capacity, Used, MaskInv
  <1>2. /\ n \in 0 .. capacity /\ capacity \in Nat /\ place \in Nat /\ f \in 0 .. n /\ place + f <= capacity
        /\ \A d \in 0 .. (f - 1) : Cell(write_, d) = place + d
    BY <1>0, PushFits, CellSplit, CapacityType
  <1>3. /\ b \in [0 .. (capacity - 1) -> Counters]
        /\ \A d \in 0 .. (f - 1) : b[Cell(write_, d)] = Plus(write_, d)
        /\ \A i \in 0 .. (capacity - 1) :
              (\A d \in 0 .. (f - 1) : i # Cell(write_, d)) => b[i] = buffer_[i]
    <2>1. f \in Nat /\ 0 \in Nat /\ 0 <= f /\ f <= capacity /\ place + (f - 0) <= capacity
      BY <1>2
    <2>2. \A d \in 0 .. (f - 1) : Cell(write_, d) = place + (d - 0)
      BY <1>2
    <2> HIDE DEF f, place
    <2> QED
      BY <1>2, <2>1, <2>2, CopiedSegment
  <1> HIDE DEF b
  <1>4. TypeOK'
    BY <1>0, <1>1, <1>3 DEF TypeOK
  <1>5. producer'.pc = "copy2" /\ producer'.n = n /\ producer'.rd = producer.rd
    BY <1>0 DEF TypeOK
  <1>6. CountInv'
    BY <1>0, <1>1, <1>5 DEF CountInv, RoomSeen
  <1>7. Holds(read_, Used)'
    <2>1. \A d \in 0 .. (Used - 1) : b[Cell(read_, d)] = Plus(read_, d)
      <3>1. f \in Nat /\ f <= producer.n
        BY <1>2
      <3> HIDE DEF f
      <3> QED
        BY <1>0, <1>3, <3>1, CopyKeepsQueue
    <2> QED
      BY <1>0, <1>1, <2>1 DEF Holds, Cell
  <1>8. Holds(write_, First(write_, producer.n))'
    <2>1. First(write_, producer.n)' = f /\ \A d : Cell(write_, d)' = Cell(write_, d)
      BY <1>0, <1>1, <1>5 DEF First, Cell
    <2> HIDE DEF f
    <2> QED
      BY <1>0, <1>3, <2>1 DEF Holds
  <1>9. DataInv'
    BY <1>0, <1>1, <1>5, <1>7, <1>8 DEF DataInv, First
  <1> QED
    BY <1>1, <1>4, <1>6, <1>9

LEMMA PushSecondStep ==
    ASSUME RingInv, PushSecond
    PROVE  RingInv'
  <1> USE DEF RingInv
  <1> DEFINE n == producer.n
             f == First(write_, n)
             b == Copied(0, f, n)
  <1>0. /\ UNCHANGED <<mask_, read_, write_, consumer, got>> /\ buffer_' = b
        /\ producer.pc = "copy2" /\ producer' = [producer EXCEPT !.pc = "store"]
        /\ write_ \in Counters
    BY Fields DEF PushSecond
  <1>1. capacity' = capacity /\ Used' = Used /\ MaskInv'
    BY <1>0 DEF capacity, Used, MaskInv
  <1>2. /\ n \in 0 .. capacity /\ capacity \in Nat /\ f \in 0 .. n
        /\ \A d \in f .. (n - 1) : Cell(write_, d) = d - f
    BY <1>0, PushFits, CellSplit, CapacityType
  <1> HIDE DEF f
  <1>3. /\ b \in [0 .. (capacity - 1) -> Counters]
        /\ \A d \in f .. (n - 1) : b[Cell(write_, d)] = Plus(write_, d)
        /\ \A i \in 0 .. (capacity - 1) :
              (\A d \in f .. (n - 1) : i # Cell(write_, d)) => b[i] = buffer_[i]
    <2>1. f \in Nat /\ n \in Nat /\ 0 \in Nat /\ f <= n /\ n <= capacity /\ 0 + (n - f) <= capacity
      BY <1>2
    <2>2. \A d \in f .. (n - 1) : Cell(write_, d) = 0 + (d - f)
      BY <1>2
    <2> QED
      BY <2>1, <2>2, CopiedSegment
  <1> HIDE DEF b
  <1>4. TypeOK'
    BY <1>0, <1>1, <1>3 DEF TypeOK
  <1>5. producer'.pc = "store" /\ producer'.n = n /\ producer'.rd = producer.rd
    BY <1>0 DEF TypeOK
  <1>6. CountInv'
    BY <1>0, <1>1, <1>5 DEF CountInv, RoomSeen
  <1>7. Holds(read_, Used)'
    <2>1. \A d \in 0 .. (Used - 1) : b[Cell(read_, d)] = Plus(read_, d)
      <3>1. f \in Nat /\ n \in Nat /\ n <= producer.n
        BY <1>2
      <3> QED
        BY <1>0, <1>3, <3>1, CopyKeepsQueue
    <2> QED
      BY <1>0, <1>1, <2>1 DEF Holds, Cell
  <1>8. \A d \in 0 .. (n - 1) : b[Cell(write_, d)] = Plus(write_, d)
    <2> TAKE d \in 0 .. (n - 1)
    <2>1. CASE d \in f .. (n - 1)
      BY <1>3, <2>1
    <2>2. CASE d \in 0 .. (f - 1)
      <3>1. buffer_[Cell(write_, d)] = Plus(write_, d)
        BY <1>0, <2>2 DEF DataInv, Holds, f
      <3>2. capacity # 0 /\ d \in 0 .. (capacity - 1) /\ d \in Counters
        <4>1. capacity < Word /\ Word \in Nat
          BY CapacityType
        <4> QED
          BY <1>2, <4>1, WordType
      <3>3. \A e \in f .. (n - 1) : Cell(write_, d) # Cell(write_, e)
        <4> TAKE e \in f .. (n - 1)
        <4>1. e \in 0 .. (capacity - 1) /\ d # e
          BY <1>2, <2>2
        <4> QED
          BY <1>0, <3>2, <4>1, CellsDiffer
      <3>4. Cell(write_, d) \in 0 .. (capacity - 1)
        BY <1>0, <3>2, CellType
      <3> QED
        BY <1>3, <3>1, <3>3, <3>4
    <2> QED
      BY <1>2, <2>1, <2>2
  <1>9. Holds(write_, producer.n)'
    BY <1>0, <1>1, <1>5, <1>8 DEF Holds, Cell
  <1>10. DataInv'
    BY <1>0, <1>1, <1>5, <1>7, <1>9 DEF DataInv, First
  <1> QED
    BY <1>1, <1>4, <1>6, <1>10

\* Counting on from a counter that is itself counted on.
LEMMA PlusPlus ==
    ASSUME NEW a \in Counters, NEW d \in Nat, NEW e \in Nat, d + e < Word
    PROVE  Plus(Plus(a, d), e) = Plus(a, d + e)
  <1>1. d \in Counters /\ e \in Counters /\ d + e \in Counters /\ a \in 0 .. (Word - 1) /\ Word \in Nat
    BY WordType
  <1> DEFINE p == Plus(a, d)
  <1>2. p \in Counters /\ p = IF a + d < Word THEN a + d ELSE a + d - Word
    BY <1>1, PlusValue
  <1> HIDE DEF p
  <1>3. Plus(p, e) = IF p + e < Word THEN p + e ELSE p + e - Word
    BY <1>1, <1>2, PlusValue
  <1>4. Plus(a, d + e) = IF a + (d + e) < Word THEN a + (d + e) ELSE a + (d + e) - Word
    BY <1>1, PlusValue
  <1>5. Plus(p, e) = Plus(a, d + e)
    BY <1>1, <1>2, <1>3, <1>4
  <1> QED
    BY <1>5 DEF p

\* A push counts the write counter up, a pop the read counter.
LEMMA MinusUp ==
    ASSUME NEW a \in Counters, NEW b \in Counters, NEW n \in Nat
    PROVE  /\ Minus(a, b) + n < Word => Minus(Plus(a, n), b) = Minus(a, b) + n
           /\ n <= Minus(a, b) => Minus(a, Plus(b, n)) = Minus(a, b) - n
  <1>0. a \in 0 .. (Word - 1) /\ b \in 0 .. (Word - 1) /\ Word \in Nat \ {0}
    BY WordType
  <1>1. Minus(a, b) \in 0 .. (Word - 1) /\ Minus(a, b) = IF b <= a THEN a - b ELSE Word + a - b
    BY MinusValue, WordType
  <1>2. ASSUME n < Word
        PROVE  /\ Plus(a, n) \in 0 .. (Word - 1)
               /\ Plus(a, n) = IF a + n < Word THEN a + n ELSE a + n - Word
               /\ Plus(b, n) \in 0 .. (Word - 1)
               /\ Plus(b, n) = IF b + n < Word THEN b + n ELSE b + n - Word
    <2>1. n \in Counters
      BY <1>0, <1>2, WordType
    <2> QED
      BY <2>1, PlusValue, WordType
  <1>3. ASSUME Minus(a, b) + n < Word PROVE Minus(Plus(a, n), b) = Minus(a, b) + n
    <2>1. n < Word
      BY <1>0, <1>1, <1>3
    <2>2. Minus(Plus(a, n), b) = IF b <= Plus(a, n) THEN Plus(a, n) - b ELSE Word + Plus(a, n) - b
      BY <1>2, <2>1, MinusValue, WordType
    <2> QED
      BY <1>0, <1>1, <1>2, <1>3, <2>1, <2>2
  <1>4. ASSUME n <= Minus(a, b) PROVE Minus(a, Plus(b, n)) = Minus(a, b) - n
    <2>1. n < Word
      BY <1>0, <1>1, <1>4
    <2>2. Minus(a, Plus(b, n)) = IF Plus(b, n) <= a THEN a - Plus(b, n) ELSE Word + a - Plus(b, n)
      BY <1>2, <2>1, MinusValue, WordType
    <2> QED
      BY <1>0, <1>1, <1>2, <1>4, <2>1, <2>2
  <1> QED
    BY <1>3, <1>4

LEMMA PushStoreStep ==
    ASSUME RingInv, PushStore
    PROVE  RingInv' /\ Used' = Used + producer.n
  <1> USE DEF RingInv
  <1> DEFINE n == producer.n
  <1>0. /\ UNCHANGED <<mask_, buffer_, read_, consumer, got>> /\ write_' = Plus(write_, n)
        /\ producer.pc = "store" /\ producer' = [producer EXCEPT !.pc = "idle"]
        /\ write_ \in Counters /\ read_ \in Counters /\ n \in Counters
        /\ producer.rd \in Counters
    BY Fields DEF PushStore
  <1>1. capacity' = capacity /\ MaskInv'
    BY <1>0 DEF capacity, MaskInv
  <1>2. /\ n \in Nat /\ Used \in Nat /\ capacity \in Nat /\ capacity < Word /\ Word \in Nat
        /\ Used + n <= capacity /\ Minus(write_, producer.rd) + n <= capacity
        /\ Minus(write_, producer.rd) \in Nat /\ Minus(consumer.wr, read_) \in Nat
    BY <1>0, PushFits, Numbers, CapacityType, Fields
  <1>3. write_' \in Counters
    BY <1>0, PlusValue
  <1>4. producer'.pc = "idle" /\ producer'.n = n /\ producer'.rd = producer.rd
    BY <1>0 DEF TypeOK
  <1>5. Used' = Used + n /\ Minus(write_, producer.rd)' = Minus(write_, producer.rd) + n
    <2>1. Used + n < Word /\ Minus(write_, producer.rd) + n < Word
      BY <1>2
    <2>2. Minus(Plus(write_, n), read_) = Minus(write_, read_) + n
      BY <1>0, <1>2, <2>1, MinusUp DEF Used
    <2>3. Minus(Plus(write_, n), producer.rd) = Minus(write_, producer.rd) + n
      BY <1>0, <1>2, <2>1, MinusUp
    <2> QED
      BY <1>0, <1>4, <2>2, <2>3 DEF Used
  <1>6. TypeOK'
    BY <1>0, <1>1, <1>3 DEF TypeOK
  <1>7. CountInv'
    <2>1. capacity' = 0 => read_' = 0 /\ write_' = 0
      <3>1. ASSUME capacity = 0 PROVE read_ = 0 /\ write_ = 0 /\ n = 0
        BY <1>2, <3>1 DEF CountInv
      <3>2. Plus(0, 0) = 0
        BY <1>2 DEF Plus
      <3> QED
        BY <1>0, <1>1, <3>1, <3>2
    <2>2. (Used <= Minus(write_, producer.rd) /\ Minus(write_, producer.rd) <= capacity)'
      BY <1>1, <1>2, <1>5 DEF CountInv
    <2>3. (Minus(consumer.wr, read_) <= Used)'
      BY <1>0, <1>2, <1>5 DEF CountInv
    <2> QED
      BY <1>0, <1>4, <2>1, <2>2, <2>3 DEF CountInv
  <1>8. \A d \in 0 .. (Used + n - 1) : buffer_[Cell(read_, d)] = Plus(read_, d)
    <2> TAKE d \in 0 .. (Used + n - 1)
    <2>1. CASE d < Used
      <3>1. d \in 0 .. (Used - 1)
        BY <1>2, <2>1
      <3> QED
        BY <3>1 DEF DataInv, Holds
    <2>2. CASE d >= Used
      <3> DEFINE e == d - Used
      <3>1. e \in 0 .. (n - 1) /\ Used + e = d /\ Used + e < Word /\ e \in Nat
        BY <1>2, <2>2
      <3> HIDE DEF e
      <3>2. Plus(write_, e) = Plus(read_, d)
        BY <1>0, <1>2, <3>1, Fields, PlusPlus
      <3>3. buffer_[Cell(write_, e)] = Plus(write_, e)
        BY <1>0, <3>1 DEF DataInv, Holds
      <3> QED
        BY <3>2, <3>3 DEF Cell
    <2> QED
      BY <1>2, <2>1, <2>2
  <1>9. Holds(read_, Used)'
    <2> DEFINE u == Used + n
    <2>1. Used' = u
      BY <1>5
    <2>2. \A d \in 0 .. (u - 1) : buffer_[Cell(read_, d)] = Plus(read_, d)
      BY <1>2, <1>8
    <2> HIDE DEF u
    <2> QED
      BY <1>0, <2>1, <2>2 DEF Holds, Cell
  <1>10. DataInv'
    BY <1>0, <1>1, <1>4, <1>9 DEF DataInv, First
  <1> QED
    BY <1>1, <1>5, <1>6, <1>7, <1>10

LEMMA AvailableReadStep ==
    ASSUME RingInv, NEW want \in Wants, NEW wr \in Counters, AvailableRead(want, wr)
    PROVE  RingInv'
  <1> USE DEF RingInv
  <1> DEFINE m == Minus(wr, read_)
             avail == m \div Channels
             take == IF avail <= want THEN avail ELSE want
  <1>0. /\ UNCHANGED <<mask_, buffer_, read_, write_, producer, got>>
        /\ consumer.pc = "idle"
        /\ consumer' = IF take > 0
                       THEN [pc |-> "pop", n |-> take * Channels, wr |-> wr, dst |-> <<>>]
                       ELSE [consumer EXCEPT !.wr = wr]
    BY DEF AvailableRead
  <1>1. capacity' = capacity /\ Used' = Used /\ MaskInv' /\ Holds(read_, Used)'
    BY <1>0, Frame DEF DataInv
  <1>2. m \in Nat /\ m \in Counters /\ m <= Used
    <2>1. wr = consumer.wr \/ wr = write_
      BY DEF AvailableRead
    <2>2. Used \in Nat /\ m \in Nat /\ read_ \in Counters
      BY Numbers, Fields
    <2>3. m <= Used
      BY <2>1, <2>2 DEF CountInv, Used
    <2> QED
      BY <2>2, <2>3, MinusValue
  <1> HIDE DEF m
  <1>3. take \in Nat /\ take * Channels \in Nat /\ take * Channels <= m
    <2>1. Channels \in Nat \ {0} /\ want \in Nat
      BY RingAssumption
    <2>2. avail \in Nat /\ Channels * avail <= m
      <3>1. avail \in Nat /\ m % Channels \in 0 .. (Channels - 1)
            /\ m = (Channels * avail) + (m % Channels)
        BY <1>2, <2>1, Division
      <3> HIDE DEF avail
      <3>2. Channels * avail \in Nat
        BY <2>1, <3>1
      <3> QED
        BY <2>1, <3>1, <3>2
    <2> HIDE DEF avail
    <2>3. take \in Nat /\ take <= avail
      BY <2>1, <2>2
    <2> HIDE DEF take
    <2>4. take * Channels <= Channels * avail /\ take * Channels \in Nat
      BY <2>1, <2>2, <2>3
    <2>5. Channels * avail \in Nat
      BY <2>1, <2>2
    <2> QED
      BY <1>2, <2>2, <2>3, <2>4, <2>5
  <1>4. take * Channels \in Counters
    BY <1>2, <1>3, WordType
  <1> HIDE DEF take
  <1>5. /\ consumer'.wr = wr
        /\ consumer'.pc = "idle" \/ (consumer'.pc = "pop" /\ consumer'.n <= m)
    BY <1>0, <1>3 DEF TypeOK
  <1>6. TypeOK'
    <2>1. consumer' \in [pc : {"idle", "pop", "copy1", "copy2", "store"}, n : Counters,
                         wr : Counters, dst : Seq(Counters)]
      BY <1>0, <1>4 DEF TypeOK
    <2> QED
      BY <1>0, <1>1, <2>1 DEF TypeOK
  <1>7. CountInv'
    BY <1>0, <1>1, <1>2, <1>5 DEF CountInv, RoomSeen, m
  <1>8. DataInv'
    <2>1. (producer.pc = "copy2" => Holds(write_, First(write_, producer.n)))'
          /\ (producer.pc = "store" => Holds(write_, producer.n))'
      BY <1>0 DEF DataInv, Holds, Cell, First, capacity
    <2> QED
      BY <1>1, <1>5, <2>1 DEF DataInv
  <1> QED
    BY <1>1, <1>6, <1>7, <1>8

LEMMA TryPopStep ==
    ASSUME RingInv, NEW wr \in Counters, TryPop(wr)
    PROVE  RingInv'
  <1> USE DEF RingInv
  <1>0. /\ UNCHANGED <<mask_, buffer_, read_, write_, producer, got>> /\ consumer.pc = "pop"
        /\ consumer' = [consumer EXCEPT !.wr = wr,
                           !.pc = IF consumer.n > Minus(wr, read_) THEN "idle" ELSE "copy1"]
    BY DEF TryPop
  <1>1. capacity' = capacity /\ Used' = Used /\ MaskInv' /\ Holds(read_, Used)'
    BY <1>0, Frame DEF DataInv
  <1>2. Minus(wr, read_) <= Used
    <2>1. wr = consumer.wr \/ wr = write_
      BY DEF TryPop
    <2>2. Used \in Nat
      BY Numbers
    <2> QED
      BY <2>1, <2>2 DEF CountInv, Used
  <1>3. /\ consumer'.wr = wr /\ consumer'.n = consumer.n
        /\ consumer'.pc = "idle" \/ (consumer'.pc = "copy1" /\ ~(consumer.n > Minus(wr, read_)))
    BY <1>0 DEF TypeOK
  <1>4. consumer.n \in Nat /\ Minus(wr, read_) \in Nat
    BY Numbers
  <1>5. TypeOK'
    BY <1>0, <1>1 DEF TypeOK
  <1>6. CountInv'
    BY <1>0, <1>1, <1>2, <1>3, <1>4 DEF CountInv, RoomSeen
  <1>7. DataInv'
    <2>1. (producer.pc = "copy2" => Holds(write_, First(write_, producer.n)))'
          /\ (producer.pc = "store" => Holds(write_, producer.n))'
      BY <1>0 DEF DataInv, Holds, Cell, First, capacity
    <2> QED
      BY <1>1, <1>3, <2>1 DEF DataInv
  <1> QED
    BY <1>1, <1>5, <1>6, <1>7

\* A pop past its check takes no more than is there.
LEMMA PopFits ==
    ASSUME RingInv, consumer.pc # "idle"
    PROVE  /\ consumer.n \in 0 .. capacity /\ consumer.n <= Used /\ Used <= capacity
           /\ consumer.n <= Minus(consumer.wr, read_)
           /\ capacity = 0 => read_ = 0
  <1>1. /\ consumer.n <= Minus(consumer.wr, read_) /\ Minus(consumer.wr, read_) <= Used
        /\ Used <= Minus(write_, producer.rd) /\ Minus(write_, producer.rd) <= capacity
        /\ capacity = 0 => read_ = 0
    BY DEF RingInv, CountInv
  <1>2. capacity \in Nat /\ Used \in Nat /\ consumer.n \in Nat /\ Minus(consumer.wr, read_) \in Nat
        /\ Minus(write_, producer.rd) \in Nat
    BY Fields, Numbers DEF RingInv
  <1> QED
    BY <1>1, <1>2

LEMMA SamplesType ==
    ASSUME NEW from \in Counters, NEW n \in 0 .. Word
    PROVE  Samples(from, n) \in Seq(Counters) /\ Len(Samples(from, n)) = n
  <1>1. n \in Nat /\ \A i \in 1 .. n : i - 1 \in Counters
    BY WordType
  <1>2. \A i \in 1 .. n : Plus(from, i - 1) \in Counters
    BY <1>1, PlusValue
  <1> QED
    BY <1>1, <1>2 DEF Samples

LEMMA PopFirstStep ==
    ASSUME RingInv, PopFirst
    PROVE  RingInv'
  <1> USE DEF RingInv
  <1> DEFINE n == consumer.n
             f == First(read_, n)
             place == And(read_, mask_)
             dst == [i \in 1 .. f |-> buffer_[place + i - 1]]
  <1>0. /\ UNCHANGED <<mask_, buffer_, read_, write_, producer, got>> /\ consumer.pc = "copy1"
        /\ consumer' = [consumer EXCEPT !.pc = "copy2", !.dst = dst]
        /\ read_ \in Counters
    BY Fields DEF PopFirst
  <1>1. capacity' = capacity /\ Used' = Used /\ MaskInv' /\ Holds(read_, Used)'
    BY <1>0, Frame DEF DataInv
  <1>2. /\ n \in 0 .. capacity /\ capacity \in Nat /\ place \in Nat /\ f \in 0 .. n
        /\ n <= Used /\ Used \in Nat /\ capacity < Word /\ Word \in Nat
        /\ \A d \in 0 .. (f - 1) : Cell(read_, d) = place + d
    BY <1>0, PopFits, CellSplit, CapacityType, Numbers
  <1> HIDE DEF f, place
  <1>3. dst = Samples(read_, f)
    <2>1. ASSUME NEW i \in 1 .. f PROVE buffer_[place + i - 1] = Plus(read_, i - 1)
      <3> DEFINE d == i - 1
      <3>1. d \in 0 .. (f - 1) /\ d \in 0 .. (Used - 1) /\ place + i - 1 = place + d
        BY <1>2
      <3> HIDE DEF d
      <3>2. buffer_[Cell(read_, d)] = Plus(read_, d)
        BY <3>1 DEF DataInv, Holds
      <3> QED
        BY <1>2, <3>1, <3>2 DEF d
    <2> QED
      BY <2>1 DEF Samples
  <1>4. dst \in Seq(Counters)
    <2>1. f \in 0 .. Word
      BY <1>2
    <2> QED
      BY <1>0, <1>3, <2>1, SamplesType
  <1> HIDE DEF dst
  <1>5. consumer'.pc = "copy2" /\ consumer'.n = n /\ consumer'.wr = consumer.wr
        /\ consumer'.dst = dst
    BY <1>0 DEF TypeOK
  <1>6. TypeOK'
    BY <1>0, <1>1, <1>4 DEF TypeOK
  <1>7. CountInv'
    BY <1>0, <1>1, <1>5 DEF CountInv, RoomSeen
  <1>8. DataInv'
    <2>1. (producer.pc = "copy2" => Holds(write_, First(write_, producer.n)))'
          /\ (producer.pc = "store" => Holds(write_, producer.n))'
      BY <1>0 DEF DataInv, Holds, Cell, First, capacity
    <2>2. (consumer.dst = Samples(read_, First(read_, consumer.n)))'
      BY <1>0, <1>1, <1>3, <1>5 DEF Samples, First, f
    <2> QED
      BY <1>1, <1>5, <2>1, <2>2 DEF DataInv
  <1> QED
    BY <1>1, <1>6, <1>7, <1>8

LEMMA PopSecondStep ==
    ASSUME RingInv, PopSecond
    PROVE  RingInv'
  <1> USE DEF RingInv
  <1> DEFINE n == consumer.n
             f == First(read_, n)
             old == consumer.dst
             rest == [i \in 1 .. (n - Len(old)) |-> buffer_[i - 1]]
             dst == old \o rest
  <1>0. /\ UNCHANGED <<mask_, buffer_, read_, write_, producer, got>> /\ consumer.pc = "copy2"
        /\ consumer' = [consumer EXCEPT !.pc = "store", !.dst = dst]
        /\ read_ \in Counters
    BY Fields DEF PopSecond
  <1>1. capacity' = capacity /\ Used' = Used /\ MaskInv' /\ Holds(read_, Used)'
    BY <1>0, Frame DEF DataInv
  <1>2. /\ n \in 0 .. capacity /\ capacity \in Nat /\ f \in 0 .. n
        /\ n <= Used /\ Used \in Nat /\ capacity < Word /\ Word \in Nat
        /\ \A d \in f .. (n - 1) : Cell(read_, d) = d - f
    BY <1>0, PopFits, CellSplit, CapacityType, Numbers
  <1>3. old = Samples(read_, f)
    BY <1>0 DEF DataInv
  <1> HIDE DEF f, old
  <1>4. old \in Seq(Counters) /\ Len(old) = f
    <2>1. f \in 0 .. Word
      BY <1>2
    <2> QED
      BY <1>0, <1>3, <2>1, SamplesType
  <1>5. rest = [i \in 1 .. (n - f) |-> Plus(read_, (f + i) - 1)]
    <2>1. ASSUME NEW i \in 1 .. (n - f) PROVE buffer_[i - 1] = Plus(read_, (f + i) - 1)
      <3> DEFINE d == (f + i) - 1
      <3>1. d \in f .. (n - 1) /\ d \in 0 .. (Used - 1) /\ d - f = i - 1
        BY <1>2
      <3> HIDE DEF d
      <3>2. buffer_[Cell(read_, d)] = Plus(read_, d)
        BY <3>1 DEF DataInv, Holds
      <3> QED
        BY <1>2, <3>1, <3>2 DEF d
    <2> QED
      BY <1>4, <2>1
  <1>6. rest \in Seq(Counters) /\ Len(rest) = n - f
    <2>1. n - f \in Nat /\ \A i \in 1 .. (n - f) : (f + i) - 1 \in Counters
      BY <1>2, WordType
    <2>2. \A i \in 1 .. (n - f) : Plus(read_, (f + i) - 1) \in Counters
      BY <1>0, <2>1, PlusValue
    <2> QED
      <3> DEFINE l == n - f
      <3>1. l \in Nat /\ rest = [i \in 1 .. l |-> Plus(read_, (f + i) - 1)]
            /\ \A i \in 1 .. l : Plus(read_, (f + i) - 1) \in Counters
        BY <1>5, <2>1, <2>2
      <3> HIDE DEF l, rest
      <3>2. rest \in Seq(Counters) /\ Len(rest) = l
        BY <3>1
      <3> QED
        BY <3>2 DEF l
  <1> HIDE DEF rest
  <1>7. dst \in Seq(Counters) /\ Len(dst) = n
    <2>1. dst \in Seq(Counters) /\ Len(dst) = Len(old) + Len(rest)
      BY <1>4, <1>6
    <2>2. f + (n - f) = n
      BY <1>2
    <2> QED
      BY <1>4, <1>6, <2>1, <2>2
  <1>8. ASSUME NEW i \in 1 .. n PROVE dst[i] = Plus(read_, i - 1)
    <2>1. CASE i <= f
      <3>1. dst[i] = old[i]
        BY <1>2, <1>4, <1>6, <2>1
      <3> QED
        BY <1>2, <1>3, <2>1, <3>1 DEF Samples
    <2>2. CASE i > f
      <3> DEFINE j == i - f
      <3>1. j \in 1 .. (n - f) /\ (f + j) - 1 = i - 1
        BY <1>2, <2>2
      <3>2. dst[i] = rest[j]
        <4>1. i \in 1 .. (Len(old) + Len(rest)) /\ ~(i <= Len(old))
          BY <1>2, <1>4, <1>6, <2>2
        <4>2. dst[i] = rest[i - Len(old)]
          BY <1>4, <1>6, <4>1
        <4> QED
          BY <1>4, <4>2
      <3> HIDE DEF j, dst
      <3>3. rest[j] = Plus(read_, (f + j) - 1)
        BY <1>5, <3>1
      <3>4. Plus(read_, (f + j) - 1) = Plus(read_, i - 1)
        BY <3>1
      <3> QED
        BY <3>2, <3>3, <3>4
    <2>3. i <= f \/ i > f
      BY <1>2
    <2> HIDE DEF dst
    <2> QED
      BY <2>1, <2>2, <2>3
  <1> HIDE DEF dst
  <1>9. dst = Samples(read_, n)
    <2>1. dst = [i \in 1 .. n |-> dst[i]]
      BY <1>2, <1>7
    <2> QED
      BY <1>8, <2>1 DEF Samples
  <1>10. consumer'.pc = "store" /\ consumer'.n = n /\ consumer'.wr = consumer.wr
         /\ consumer'.dst = dst
    BY <1>0 DEF TypeOK
  <1>11. TypeOK'
    BY <1>0, <1>1, <1>7 DEF TypeOK
  <1>12. CountInv'
    BY <1>0, <1>1, <1>10 DEF CountInv, RoomSeen
  <1>13. DataInv'
    <2>1. (producer.pc = "copy2" => Holds(write_, First(write_, producer.n)))'
          /\ (producer.pc = "store" => Holds(write_, producer.n))'
      BY <1>0 DEF DataInv, Holds, Cell, First, capacity
    <2>2. (consumer.dst = Samples(read_, consumer.n))'
      BY <1>0, <1>9, <1>10 DEF Samples
    <2> QED
      BY <1>1, <1>10, <2>1, <2>2 DEF DataInv
  <1> QED
    BY <1>1, <1>11, <1>12, <1>13

LEMMA PopStoreStep ==
    ASSUME RingInv, PopStore
    PROVE  RingInv' /\ Used' = Used - consumer.n
  <1> USE DEF RingInv
  <1> DEFINE n == consumer.n
  <1>0. /\ UNCHANGED <<mask_, buffer_, write_, producer>> /\ read_' = Plus(read_, n)
        /\ got' = consumer.dst /\ consumer.pc = "store"
        /\ consumer' = [consumer EXCEPT !.pc = "idle", !.dst = <<>>]
        /\ write_ \in Counters /\ read_ \in Counters /\ n \in Counters /\ consumer.wr \in Counters
    BY Fields DEF PopStore
  <1>1. capacity' = capacity /\ MaskInv'
    BY <1>0 DEF capacity, MaskInv
  <1>2. /\ n \in Nat /\ Used \in Nat /\ capacity \in Nat /\ capacity < Word /\ Word \in Nat
        /\ n <= Used /\ Used <= capacity /\ n <= Minus(consumer.wr, read_)
        /\ Minus(consumer.wr, read_) \in Nat /\ Minus(write_, producer.rd) \in Nat
    BY <1>0, PopFits, Numbers, CapacityType, Fields
  <1>3. read_' \in Counters
    BY <1>0, PlusValue
  <1>4. consumer'.pc = "idle" /\ consumer'.wr = consumer.wr
    BY <1>0 DEF TypeOK
  <1>5. Used' = Used - n /\ Minus(consumer.wr, read_)' = Minus(consumer.wr, read_) - n
    <2>1. Minus(write_, Plus(read_, n)) = Minus(write_, read_) - n
      BY <1>0, <1>2, MinusUp DEF Used
    <2>2. Minus(consumer.wr, Plus(read_, n)) = Minus(consumer.wr, read_) - n
      BY <1>0, <1>2, MinusUp
    <2> QED
      BY <1>0, <1>4, <2>1, <2>2 DEF Used
  <1>6. TypeOK'
    <2>1. consumer' \in [pc : {"idle", "pop", "copy1", "copy2", "store"}, n : Counters,
                         wr : Counters, dst : Seq(Counters)]
      <3>1. <<>> \in Seq(Counters) /\ consumer \in [pc : {"idle", "pop", "copy1", "copy2", "store"},
                n : Counters, wr : Counters, dst : Seq(Counters)]
        BY DEF TypeOK
      <3> QED
        BY <1>0, <3>1
    <2>2. got' \in Seq(Counters)
      BY <1>0 DEF TypeOK
    <2> QED
      BY <1>0, <1>1, <1>3, <2>1, <2>2 DEF TypeOK
  <1>7. CountInv'
    <2>1. capacity' = 0 => read_' = 0 /\ write_' = 0
      <3>1. ASSUME capacity = 0 PROVE read_ = 0 /\ write_ = 0 /\ n = 0
        BY <1>2, <3>1 DEF CountInv
      <3>2. Plus(0, 0) = 0
        BY <1>2 DEF Plus
      <3> QED
        BY <1>0, <1>1, <3>1, <3>2
    <2>2. (Used <= Minus(write_, producer.rd) /\ Minus(write_, producer.rd) <= capacity)'
      BY <1>0, <1>1, <1>2, <1>5 DEF CountInv
    <2>3. (Minus(consumer.wr, read_) <= Used)'
      BY <1>0, <1>2, <1>5 DEF CountInv
    <2> QED
      BY <1>0, <1>1, <1>4, <2>1, <2>2, <2>3 DEF CountInv, RoomSeen
  <1>8. Holds(read_, Used)'
    <2>1. ASSUME NEW d \in 0 .. (Used' - 1)
          PROVE  buffer_[Cell(Plus(read_, n), d)] = Plus(Plus(read_, n), d)
      <3> DEFINE e == n + d
      <3>1. d \in Nat /\ e \in 0 .. (Used - 1) /\ n + d < Word
        BY <1>2, <1>5
      <3>2. Plus(Plus(read_, n), d) = Plus(read_, e)
        BY <1>0, <1>2, <3>1, PlusPlus
      <3> HIDE DEF e
      <3>3. buffer_[Cell(read_, e)] = Plus(read_, e)
        BY <3>1 DEF DataInv, Holds
      <3> QED
        BY <3>2, <3>3 DEF Cell
    <2> QED
      BY <1>0, <2>1 DEF Holds, Cell
  <1>9. DataInv'
    <2>1. (producer.pc = "copy2" => Holds(write_, First(write_, producer.n)))'
          /\ (producer.pc = "store" => Holds(write_, producer.n))'
      BY <1>0 DEF DataInv, Holds, Cell, First, capacity
    <2> QED
      BY <1>4, <1>8, <2>1 DEF DataInv
  <1> QED
    BY <1>1, <1>5, <1>6, <1>7, <1>9

LEMMA ResetStep ==
    ASSUME RingInv, Reset
    PROVE  RingInv' /\ Used' = 0
  <1> USE DEF RingInv
  <1>0. /\ UNCHANGED <<mask_, buffer_, got>> /\ read_' = 0 /\ write_' = 0
        /\ producer' = [producer EXCEPT !.rd = 0] /\ consumer' = [consumer EXCEPT !.wr = 0]
        /\ producer.pc = "idle" /\ consumer.pc = "idle"
    BY DEF Reset
  <1>1. capacity' = capacity /\ MaskInv'
    BY <1>0 DEF capacity, MaskInv
  <1>2. capacity \in Nat /\ Word \in Nat \ {0} /\ 0 \in Counters
    BY CapacityType, WordType
  <1>3. Minus(0, 0) = 0
    BY <1>2 DEF Minus
  <1>4. TypeOK'
    BY <1>0, <1>1, <1>2 DEF TypeOK
  <1>5. producer'.rd = 0 /\ producer'.pc = "idle" /\ consumer'.wr = 0 /\ consumer'.pc = "idle"
    BY <1>0 DEF TypeOK
  <1>6. Used' = 0
    BY <1>0, <1>3 DEF Used
  <1>7. CountInv'
    BY <1>0, <1>1, <1>2, <1>3, <1>5, <1>6 DEF CountInv
  <1>8. DataInv'
    BY <1>5, <1>6 DEF DataInv, Holds
  <1> QED
    BY <1>1, <1>4, <1>6, <1>7, <1>8

LEMMA RingStep == RingInv /\ [Next]_vars => RingInv'
  <1> SUFFICES ASSUME RingInv, [Next]_vars PROVE RingInv'
    OBVIOUS
  <1>1. CASE Producer
    BY <1>1, AvailableWriteStep, PushUnaskedStep, TryPushStep, PushFirstStep, PushSecondStep,
       PushStoreStep DEF Producer
  <1>2. CASE Consumer
    BY <1>2, AvailableReadStep, TryPopStep, PopFirstStep, PopSecondStep, PopStoreStep DEF Consumer
  <1>3. CASE Reset
    BY <1>3, ResetStep
  <1>4. CASE UNCHANGED vars
    <2>1. UNCHANGED <<mask_, buffer_, read_, write_, producer, consumer, got>>
      BY <1>4 DEF vars
    <2> QED
      BY <2>1, Frame DEF RingInv, TypeOK, CountInv, DataInv, capacity, Used, RoomSeen,
         Holds, Cell, Samples, First
  <1> QED
    BY <1>1, <1>2, <1>3, <1>4 DEF Next

LEMMA RingCorrect == Spec => []RingInv
  BY RingInit, RingStep, PTL DEF Spec

----------------------------------------------------------------------------
(* The theorems. *)

\* The ring's type invariant (RingBuffer's members and the two callers' locals).
THEOREM RingTypeCorrect == Spec => []TypeOK
  <1>1. RingInv => TypeOK
    BY DEF RingInv
  <1> QED
    BY <1>1, RingCorrect, PTL

\* tryPush and tryPop never copy to and from the same cell at the same time.
THEOREM RingNoRace == Spec => []NoRace
  <1>1. RingInv => NoRace
    <2> SUFFICES ASSUME RingInv, producer.pc \in Copying, consumer.pc \in Copying,
                        NEW i \in 0 .. (producer.n - 1), NEW j \in 0 .. (consumer.n - 1)
                 PROVE  And(Plus(write_, i), mask_) # And(Plus(read_, j), mask_)
      BY DEF NoRace, Cells
    <2>1. producer.pc \in {"copy1", "copy2", "store"} /\ consumer.pc # "idle"
      BY DEF Copying
    <2>2. TypeOK /\ MaskInv
      BY DEF RingInv
    <2>3. Used + producer.n <= capacity /\ consumer.n <= Used
      BY <2>1, PushFits, PopFits
    <2>4. producer.n \in Nat /\ consumer.n \in Nat /\ Used \in Nat
      BY <2>2, Numbers
    <2>5. j \in 0 .. (Used - 1)
      BY <2>3, <2>4
    <2>6. Cell(read_, j) # Cell(write_, i)
      BY <2>2, <2>3, <2>4, <2>5, CellsApart
    <2> QED
      BY <2>6 DEF Cell
  <1> QED
    BY <1>1, RingCorrect, PTL

\* After availableWrite() or availableRead() promised it, the call succeeds: the
\* results of tryPush and tryPop that the callers ignore are always true.
THEOREM RingCheckedCalls == Spec => []CheckedCallsSucceed
  <1>1. RingInv => CheckedCallsSucceed
    <2> SUFFICES ASSUME RingInv PROVE CheckedCallsSucceed
      OBVIOUS
    <2>1. capacity \in Nat /\ Used \in Nat /\ producer.n \in Nat /\ consumer.n \in Nat
          /\ Minus(write_, producer.rd) \in Nat /\ Minus(consumer.wr, read_) \in Nat
      BY Numbers, Fields DEF RingInv
    <2>2. ASSUME producer.pc = "push", producer.checked
          PROVE  producer.n <= RoomSeen(producer.rd) /\ producer.n <= RoomSeen(read_)
      BY <2>1, <2>2 DEF RingInv, CountInv, RoomSeen, Used
    <2>3. ASSUME consumer.pc = "pop"
          PROVE  consumer.n <= Minus(consumer.wr, read_) /\ consumer.n <= Minus(write_, read_)
      BY <2>1, <2>3 DEF RingInv, CountInv, Used
    <2> QED
      BY <2>2, <2>3 DEF CheckedCallsSucceed
  <1> QED
    BY <1>1, RingCorrect, PTL

----------------------------------------------------------------------------
(* The ring is a FIFO. *)

Queue == [i \in 1 .. Minus(write_, read_) |-> buffer_[And(Plus(read_, i - 1), mask_)]]

QueueInOrder == Queue = Samples(read_, Used) /\ Queue \in Seq(Counters) /\ Len(Queue) = Used

LEMMA QueueSamples == RingInv => QueueInOrder
  <1> SUFFICES ASSUME RingInv PROVE QueueInOrder
    OBVIOUS
  <1>1. TypeOK /\ MaskInv /\ Holds(read_, Used)
    BY DEF RingInv, DataInv
  <1>2. Used \in Nat /\ Used \in 0 .. Word /\ read_ \in Counters
    BY <1>1, Fields, WordType
  <1>3. ASSUME NEW i \in 1 .. Used PROVE buffer_[And(Plus(read_, i - 1), mask_)] = Plus(read_, i - 1)
    <2> DEFINE d == i - 1
    <2>1. d \in 0 .. (Used - 1)
      BY <1>2
    <2> HIDE DEF d
    <2>2. buffer_[Cell(read_, d)] = Plus(read_, d)
      BY <1>1, <2>1 DEF Holds
    <2> QED
      BY <2>2 DEF Cell, d
  <1>4. Queue = Samples(read_, Used)
    BY <1>3 DEF Queue, Samples, Used
  <1> QED
    BY <1>2, <1>4, SamplesType DEF QueueInOrder

LEMMA QueueKept ==
    ASSUME RingInv, RingInv', UNCHANGED <<mask_, read_, write_, got>>
    PROVE  UNCHANGED <<capacity, Queue, write_, got>>
  <1>1. QueueInOrder /\ QueueInOrder'
    BY QueueSamples, PTL
  <1>2. Queue = Samples(read_, Used) /\ Queue' = Samples(read_, Used)'
    BY <1>1 DEF QueueInOrder
  <1>3. Samples(read_, Used)' = Samples(read_, Used)
    BY DEF Samples, Used
  <1> QED
    BY <1>2, <1>3 DEF capacity

\* A store of the write counter puts the chunk behind what is there.
LEMMA PushStorePuts ==
    ASSUME RingInv, RingInv', PushStore
    PROVE  /\ Len(Queue) + producer.n <= capacity
           /\ Queue' = Queue \o [i \in 1 .. producer.n |-> (write_ + i - 1) % Word]
  <1> DEFINE n == producer.n
             chunk == [i \in 1 .. n |-> (write_ + i - 1) % Word]
  <1>0. TypeOK /\ MaskInv /\ producer.pc = "store" /\ read_' = read_ /\ Used' = Used + n
    BY PushStoreStep DEF RingInv, PushStore
  <1>1. /\ Queue = Samples(read_, Used) /\ Len(Queue) = Used /\ Queue \in Seq(Counters)
        /\ Used \in Nat /\ n \in Nat /\ Used + n <= capacity /\ capacity < Word /\ Word \in Nat \ {0}
        /\ read_ \in Counters /\ write_ \in Counters /\ write_ = Plus(read_, Used)
        /\ capacity \in Nat
    BY <1>0, QueueSamples, PushFits, Numbers, CapacityType, Fields DEF QueueInOrder
  <1>2. write_ \in Nat
    BY <1>1, WordType
  <1>3. Queue' = Samples(read_, Used + n)
    <2>1. QueueInOrder'
      BY QueueSamples, PTL
    <2> QED
      BY <1>0, <2>1 DEF Samples, QueueInOrder
  <1>4. chunk \in Seq(Counters) /\ Len(chunk) = n
    <2>1. \A i \in 1 .. n : (write_ + i - 1) % Word \in Counters
      BY <1>1, <1>2, WordType
    <2> HIDE DEF n
    <2> QED
      BY <1>1, <2>1
  <1>5. ASSUME NEW i \in 1 .. n PROVE chunk[i] = Plus(read_, (Used + i) - 1)
    <2> DEFINE e == i - 1
    <2>1. e \in Nat /\ Used + e < Word /\ Used + e = (Used + i) - 1 /\ write_ + i - 1 = write_ + e
      BY <1>1, <1>2
    <2>2. chunk[i] = Plus(write_, e)
      BY <2>1 DEF Plus
    <2> HIDE DEF e, chunk
    <2>3. Plus(write_, e) = Plus(read_, Used + e)
      BY <1>1, <2>1, PlusPlus
    <2> QED
      BY <2>1, <2>2, <2>3
  <1> HIDE DEF chunk
  <1> DEFINE q == Queue
             all == q \o chunk
             m == Used + n
  <1>6. q \in Seq(Counters) /\ Len(q) = Used /\ \A i \in 1 .. Used : q[i] = Plus(read_, i - 1)
    BY <1>1 DEF Samples
  <1> HIDE DEF q
  <1>7. all \in Seq(Counters) /\ Len(all) = m /\ m \in Nat
    <2>1. q \in Seq(Counters) /\ chunk \in Seq(Counters)
      BY <1>4, <1>6
    <2>2. all \in Seq(Counters) /\ Len(all) = Len(q) + Len(chunk)
      BY <2>1
    <2> QED
      BY <1>1, <1>4, <1>6, <2>2
  <1>8. ASSUME NEW i \in 1 .. m PROVE all[i] = Plus(read_, i - 1)
    <2>1. CASE i <= Used
      <3>1. i \in 1 .. Used /\ i \in 1 .. (Len(q) + Len(chunk)) /\ i <= Len(q)
        BY <1>1, <1>4, <1>6, <2>1
      <3>2. all[i] = q[i]
        BY <1>4, <1>6, <3>1
      <3> HIDE DEF all
      <3> QED
        BY <1>6, <3>1, <3>2
    <2>2. CASE i > Used
      <3> DEFINE j == i - Used
      <3>1. j \in 1 .. n /\ (Used + j) - 1 = i - 1 /\ i \in 1 .. (Len(q) + Len(chunk)) /\ ~(i <= Len(q))
        BY <1>1, <1>4, <1>6, <2>2
      <3>2. all[i] = chunk[i - Len(q)]
        BY <1>4, <1>6, <3>1
      <3>3. all[i] = chunk[j]
        BY <3>2, <1>6
      <3> HIDE DEF j, all
      <3>4. chunk[j] = Plus(read_, (Used + j) - 1)
        BY <1>5, <3>1
      <3>5. Plus(read_, (Used + j) - 1) = Plus(read_, i - 1)
        BY <3>1
      <3> QED
        BY <3>3, <3>4, <3>5
    <2>3. i <= Used \/ i > Used
      BY <1>1
    <2> HIDE DEF all
    <2> QED
      BY <2>1, <2>2, <2>3
  <1> HIDE DEF all, m
  <1>9. all = Samples(read_, m)
    <2>1. all = [i \in 1 .. m |-> all[i]]
      BY <1>7
    <2> QED
      BY <1>8, <2>1 DEF Samples
  <1> QED
    BY <1>1, <1>3, <1>9 DEF all, q, m, chunk

\* A store of the read counter takes the chunk off the front.
LEMMA PopStoreTakes ==
    ASSUME RingInv, RingInv', PopStore
    PROVE  /\ consumer.n <= Len(Queue)
           /\ got' = SubSeq(Queue, 1, consumer.n)
           /\ Queue' = SubSeq(Queue, consumer.n + 1, Len(Queue))
  <1> DEFINE n == consumer.n
             q == Queue
  <1>0. /\ TypeOK /\ MaskInv /\ consumer.pc = "store" /\ read_' = Plus(read_, n) /\ Used' = Used - n
        /\ got' = Samples(read_, n)
    BY PopStoreStep DEF RingInv, PopStore, DataInv
  <1>1. /\ q = Samples(read_, Used) /\ Len(q) = Used /\ q \in Seq(Counters)
        /\ Used \in Nat /\ n \in Nat /\ n <= Used /\ Used < Word /\ Word \in Nat \ {0}
        /\ read_ \in Counters
    <2>1. Used <= capacity /\ capacity < Word /\ capacity \in Nat /\ Word \in Nat \ {0}
      BY <1>0, PopFits, CapacityType
    <2> QED
      BY <1>0, <2>1, QueueSamples, PopFits, Numbers, Fields DEF QueueInOrder
  <1>2. \A i \in 1 .. Used : q[i] = Plus(read_, i - 1)
    BY <1>1 DEF Samples
  <1>3. Queue' = Samples(Plus(read_, n), Used - n)
    <2>1. QueueInOrder'
      BY QueueSamples, PTL
    <2> QED
      BY <1>0, <2>1 DEF Samples, QueueInOrder
  <1> HIDE DEF q, n
  <1>4. SubSeq(q, 1, n) = Samples(read_, n)
    <2>1. SubSeq(q, 1, n) = [i \in 1 .. n |-> q[i]]
      BY <1>1
    <2>2. \A i \in 1 .. n : q[i] = Plus(read_, i - 1)
      BY <1>1, <1>2
    <2> QED
      BY <2>1, <2>2 DEF Samples
  <1>5. SubSeq(q, n + 1, Used) = Samples(Plus(read_, n), Used - n)
    <2>1. SubSeq(q, n + 1, Used) = [i \in 1 .. (Used - n) |-> q[n + i]]
      BY <1>1
    <2>2. ASSUME NEW i \in 1 .. (Used - n) PROVE q[n + i] = Plus(Plus(read_, n), i - 1)
      <3> DEFINE j == n + i
                 e == i - 1
      <3>1. j \in 1 .. Used /\ e \in Nat /\ n + e < Word /\ j - 1 = n + e
        BY <1>1
      <3>2. q[j] = Plus(read_, j - 1)
        BY <1>2, <3>1
      <3> HIDE DEF e
      <3>3. Plus(Plus(read_, n), e) = Plus(read_, n + e)
        BY <1>1, <3>1, PlusPlus
      <3> QED
        BY <3>1, <3>2, <3>3 DEF e
    <2> QED
      BY <2>1, <2>2 DEF Samples
  <1> QED
    BY <1>0, <1>1, <1>3, <1>4, <1>5 DEF q, n

\* The lock-free ring implements the FIFO of whole chunks that its users see.
THEOREM RingImplementsFifo == Spec => ImplementsFifo
  <1>1. Init => Fifo!Init
    <2> SUFFICES ASSUME Init PROVE Fifo!Init
      OBVIOUS
    <2>1. RingInv
      BY RingInit
    <2>2. capacity \in 0 .. (Word \div 2)
      BY <2>1, Geometry DEF RingInv
    <2>3. Queue = <<>>
      <3>1. Minus(0, 0) = 0
        BY WordType DEF Minus
      <3> QED
        BY <3>1 DEF Queue, Init
    <2> QED
      BY <2>2, <2>3 DEF Fifo!Init, Init, Queue
  <1>2. RingInv /\ RingInv' /\ [Next]_vars => [Fifo!Next]_Fifo!vars
    <2> SUFFICES ASSUME RingInv, RingInv', [Next]_vars PROVE [Fifo!Next]_Fifo!vars
      OBVIOUS
    <2>1. ASSUME UNCHANGED <<mask_, read_, write_, got>> PROVE UNCHANGED Fifo!vars
      BY <2>1, QueueKept DEF Fifo!vars, Queue
    <2>2. CASE PushStore
      <3>1. producer.n \in 0 .. (Word - 1)
        BY Fields, WordType DEF RingInv
      <3>2. Fifo!Put(producer.n)
        <4>1. capacity' = capacity /\ got' = got /\ write_' = (write_ + producer.n) % Word
          BY <2>2 DEF PushStore, capacity, Plus
        <4> QED
          BY <2>2, <4>1, PushStorePuts DEF Fifo!Put, Fifo!Numbered, Queue
      <3> QED
        BY <3>1, <3>2 DEF Fifo!Next
    <2>3. CASE PopStore
      <3>1. consumer.n \in 0 .. (Word - 1)
        BY Fields, WordType DEF RingInv
      <3>2. Fifo!Take(consumer.n)
        <4>1. capacity' = capacity /\ write_' = write_
          BY <2>3 DEF PopStore, capacity
        <4> QED
          BY <2>3, <4>1, PopStoreTakes DEF Fifo!Take, Queue
      <3> QED
        BY <3>1, <3>2 DEF Fifo!Next
    <2>4. CASE Reset
      <3>1. Queue' = <<>>
        <4>1. Used' = 0
          BY <2>4, ResetStep
        <4> QED
          BY <4>1 DEF Queue, Used
      <3>2. capacity' = capacity /\ got' = got /\ write_' = 0
        BY <2>4 DEF Reset, capacity
      <3> QED
        BY <3>1, <3>2 DEF Fifo!Next, Fifo!Clear, Queue
    <2>5. CASE UNCHANGED vars
      BY <2>1, <2>5 DEF vars
    <2>6. CASE Producer /\ ~PushStore
      <3>1. UNCHANGED <<mask_, read_, write_, got>>
        BY <2>6 DEF Producer, PushUnasked, AvailableWrite, TryPush, PushFirst, PushSecond
      <3> QED
        BY <2>1, <3>1
    <2>7. CASE Consumer /\ ~PopStore
      <3>1. UNCHANGED <<mask_, read_, write_, got>>
        BY <2>7 DEF Consumer, TryPop, AvailableRead, PopFirst, PopSecond
      <3> QED
        BY <2>1, <3>1
    <2> QED
      BY <2>2, <2>3, <2>4, <2>5, <2>6, <2>7 DEF Next
  <1> QED
    BY <1>1, <1>2, RingCorrect, PTL DEF Spec, ImplementsFifo, Fifo!Spec

----------------------------------------------------------------------------
(* The flags and the two threads. *)

Flags ==
    /\ prod \in {"look", "push", "gone"}
    /\ main \in {"start", "check", "pump", "prompt", "stop", "flag", "join", "gone"}
    /\ session \in {"starting", "up", "stopped", "ended"}
    /\ done \in BOOLEAN /\ g_interrupted \in BOOLEAN /\ exitCode \in {0, 1}
    /\ exitCode = 1 <=> session = "ended"
    /\ main = "gone" => prod = "gone"

\* Both threads are about to run.
LEMMA FlagsInit ==
    ASSUME Program!Init
    PROVE  Flags
<1>1. /\ prod = "look" /\ main = "start" /\ session = "starting"
      /\ done = FALSE /\ g_interrupted = FALSE /\ exitCode = 0
  BY DEF Program!Init
<1>2. ~(exitCode = 1) /\ exitCode \in {0, 1}
  BY <1>1
<1> QED
  BY <1>1, <1>2 DEF Flags

\* Every step of either thread, of the user and of a signal keeps them.
LEMMA FlagsStep ==
    ASSUME Flags, [Program!Next]_(Program!vars)
    PROVE  Flags'
<1>1. CASE UNCHANGED Program!vars
  BY <1>1 DEF Flags, Program!vars
<1>2. CASE Program!Producer
  BY <1>2 DEF Flags, Program!Producer, Program!ProducerEnds, Program!ProducerFinds,
              Program!ProducerSleeps, Program!ProducerPushes, Program!vars
<1>3. CASE Program!Main
  BY <1>3 DEF Flags, Program!Main, Program!Start, Program!Check, Program!PumpQuietly,
              Program!Launched, Program!Closed, Program!LaunchFails, Program!PinRequired,
              Program!Stop, Program!Flag, Program!Join
<1>4. CASE Program!PinTyped
  BY <1>4 DEF Flags, Program!PinTyped
<1>5. CASE Program!Signal
  BY <1>5 DEF Flags, Program!Signal
<1> QED
  BY <1>1, <1>2, <1>3, <1>4, <1>5 DEF Program!Next

\* Whatever comes first, a signal, a failed launch, the receiver's close or an answer
\* to the prompt: the exit code tells how the session ended, and main() does not
\* return before the producer (airplay_send.cpp, main).
THEOREM ShutdownInOrder == Program!Spec => [](Program!ExitCodeTells /\ Program!RingOutlivesProducer)
<1>1. Program!Init => Flags
  BY FlagsInit
<1>2. Flags /\ [Program!Next]_(Program!vars) => Flags'
  BY FlagsStep
<1>3. Flags => Program!ExitCodeTells /\ Program!RingOutlivesProducer
  BY DEF Flags, Program!ExitCodeTells, Program!RingOutlivesProducer
<1>4. Program!Spec => Program!Init /\ [][Program!Next]_(Program!vars)
  BY PTL DEF Program!Spec
<1> QED
  BY <1>1, <1>2, <1>3, <1>4, PTL

----------------------------------------------------------------------------
(* The samples. *)

\* n frames, interleaved.
Audio(n) == [k \in 1 .. 2 * n |-> Program!Sample((k - 1) \div 2, (k - 1) % 2)]

\* Left before right, and both of one frame.
Paired(r) ==
    \A k \in 1 .. Len(r) :
        /\ r[k].channel = (k - 1) % 2
        /\ k % 2 = 0 => r[k].frame = r[k - 1].frame

\* loadWav yields whole frames of every file.
LEMMA WholeAudio ==
    ASSUME Program!WholeFrames, NEW f \in Files
    PROVE  \E n \in Nat \ {0} : Program!loadWav(f) = Audio(n)
<1>1. f.channels \in {1, 2} /\ f.count \in Nat \ {0} /\ (f.channels = 2 => f.count % 2 = 0)
  BY DEF Program!WholeFrames
<1>2. CASE f.channels = 1
  BY <1>1, <1>2 DEF Program!loadWav, Audio
<1>3. CASE f.channels = 2
  <2> DEFINE n == f.count \div 2
  <2>1. n \in Nat /\ f.count = (2 * n) + (f.count % 2)
    BY <1>1
  <2>2. f.count % 2 = 0
    BY <1>1, <1>3
  <2> HIDE DEF n
  <2>3. n \in Nat \ {0} /\ 2 * n = f.count
    BY <1>1, <2>1, <2>2
  <2>4. Program!loadWav(f) = Audio(n)
    BY <1>3, <2>3 DEF Program!loadWav, Audio
  <2> QED
    BY <2>3, <2>4
<1> QED
  BY <1>1, <1>2, <1>3

\* Its length, and what is where.
LEMMA AudioSamples ==
    ASSUME NEW n \in Nat \ {0}
    PROVE  /\ Len(Audio(n)) = 2 * n /\ Audio(n) \in Seq(Program!Range(Audio(n)))
           /\ \A k \in 1 .. 2 * n : /\ Audio(n)[k] \in Program!Range(Audio(n))
                                    /\ Audio(n)[k].channel = (k - 1) % 2
                                    /\ Audio(n)[k].frame = (k - 1) \div 2
<1> DEFINE a == Audio(n)
           m == 2 * n
<1>1. m \in Nat
  OBVIOUS
<1>2. DOMAIN a = 1 .. m /\ a = [k \in 1 .. m |-> a[k]]
  BY DEF Audio
<1>3. \A k \in 1 .. m : a[k].channel = (k - 1) % 2 /\ a[k].frame = (k - 1) \div 2
  BY DEF Audio, Program!Sample
<1> HIDE DEF a, m
<1>4. \A k \in 1 .. m : a[k] \in Program!Range(a)
  BY <1>2 DEF Program!Range
<1>5. a \in Seq(Program!Range(a)) /\ Len(a) = m
  BY <1>1, <1>2, <1>4, IsASeq
<1> QED
  BY <1>3, <1>4, <1>5 DEF a, m

\* A remainder by an even number is as even as what it is of.
LEMMA Parity ==
    ASSUME NEW n \in Nat \ {0}, NEW v \in Nat, NEW d, d = 2 * n
    PROVE  (v % d) % 2 = v % 2
<1> DEFINE c == 2
<1>1. c \in Nat \ {0} /\ d \in Nat \ {0} /\ d = c * n
  OBVIOUS
<1> HIDE DEF c
<1>2. (v % d) % c = v % c
  BY <1>1, RemainderTwice
<1> QED
  BY <1>2 DEF c

\* An even position, and the one after it.
LEMMA EvenPosition ==
    ASSUME NEW n \in Nat \ {0}, NEW v \in Nat, v % 2 = 0
    PROVE  /\ v % (2 * n) \in 0 .. (2 * n) - 2 /\ (v % (2 * n)) % 2 = 0
           /\ (v + 1) % (2 * n) = (v % (2 * n)) + 1
           /\ ((v % (2 * n)) + 1) \div 2 = (v % (2 * n)) \div 2
           /\ ((v % (2 * n)) + 1) % 2 = 1
<1> DEFINE d == 2 * n
           r == v % d
           q == v \div d
<1>1. d \in Nat \ {0} /\ d = 2 * n
  OBVIOUS
<1> HIDE DEF d
<1>2. q \in Nat /\ r \in 0 .. (d - 1) /\ v = (d * q) + r
  BY <1>1, Division
<1>3. r % 2 = 0
  BY <1>1, Parity
<1> HIDE DEF q, r
<1> DEFINE h == r \div 2
<1>4. h \in Nat /\ r = (2 * h) + (r % 2)
  BY <1>2, Division
<1> HIDE DEF h
<1>5. r = 2 * h /\ r + 1 = (2 * h) + 1
  BY <1>3, <1>4
<1>6. h < n
  BY <1>1, <1>2, <1>4, <1>5
<1>7. r \in 0 .. (d - 2) /\ r + 1 \in 0 .. (d - 1)
  BY <1>1, <1>2, <1>4, <1>5, <1>6
<1>8. v + 1 = (d * q) + (r + 1) /\ v + 1 \in Int
  <2> DEFINE e == d * q
  <2>1. e \in Int
    BY <1>1, <1>2
  <2>2. v = e + r /\ r \in Int
    BY <1>2
  <2> HIDE DEF e
  <2>3. v + 1 = e + (r + 1) /\ v + 1 \in Int
    BY <2>1, <2>2
  <2> QED
    BY <2>3 DEF e
<1>9. (v + 1) % d = r + 1
  <2> DEFINE x == v + 1
             s == r + 1
  <2>1. x \in Int /\ s \in 0 .. (d - 1) /\ x = (d * q) + s
    BY <1>7, <1>8
  <2>2. q \in Nat /\ d \in Nat \ {0}
    BY <1>1, <1>2
  <2> HIDE DEF x, s
  <2>3. x \div d = q /\ x % d = s
    BY <2>1, <2>2, DivisionUnique
  <2> QED
    BY <2>3 DEF x, s
<1>10. r \div 2 = h /\ (r + 1) \div 2 = h /\ (r + 1) % 2 = 1
  BY <1>4, <1>5
<1> QED
  BY <1>3, <1>7, <1>9, <1>10 DEF r, d, h

\* The producer's chunk, taken from an even position on, wherever the audio starts
\* over inside it.
LEMMA FilledPaired ==
    ASSUME Chunk \in Nat \ {0}, NEW n \in Nat \ {0}, Program!samples = Audio(n),
           NEW p \in Nat, p % 2 = 0
    PROVE  /\ Program!Filled(p) \in Seq(Program!Range(Program!samples))
           /\ Len(Program!Filled(p)) = Chunk /\ Paired(Program!Filled(p))
<1> DEFINE b == Program!Filled(p)
           d == 2 * n
           At(k) == ((p + k) - 1) % d
<1>1. /\ Len(Program!samples) = d /\ d \in Nat \ {0}
      /\ \A k \in 1 .. d : /\ Program!samples[k] \in Program!Range(Program!samples)
                           /\ Program!samples[k].channel = (k - 1) % 2
                           /\ Program!samples[k].frame = (k - 1) \div 2
  <2>0. PICK a : a = Audio(n)
    OBVIOUS
  <2>1. /\ Len(a) = 2 * n
        /\ \A k \in 1 .. 2 * n : /\ a[k] \in Program!Range(a) /\ a[k].channel = (k - 1) % 2
                                 /\ a[k].frame = (k - 1) \div 2
    BY <2>0, AudioSamples
  <2>2. Program!samples = a
    BY <2>0
  <2>3. d \in Nat \ {0}
    OBVIOUS
  <2> QED
    BY <2>1, <2>2, <2>3, Zenon
<1>2. /\ DOMAIN b = 1 .. Chunk /\ b = [k \in 1 .. Chunk |-> b[k]]
      /\ \A k \in 1 .. Chunk : b[k] = Program!samples[At(k) + 1]
  BY <1>1 DEF Program!Filled
<1> HIDE DEF b
<1>3. ASSUME NEW k \in 1 .. Chunk
      PROVE  At(k) \in 0 .. (d - 1)
  <2>1. (p + k) - 1 \in Nat
    OBVIOUS
  <2> QED
    BY <1>1, <2>1, Division
<1>4. ASSUME NEW k \in 1 .. Chunk
      PROVE  b[k] \in Program!Range(Program!samples) /\ b[k].channel = At(k) % 2 /\ b[k].frame = At(k) \div 2
  <2> DEFINE m == At(k) + 1
  <2>1. m \in 1 .. d /\ m - 1 = At(k)
    BY <1>1, <1>3
  <2>2. b[k] = Program!samples[m]
    BY <1>2
  <2> HIDE DEF m, At, d
  <2> QED
    BY <1>1, <2>1, <2>2
<1>5. ASSUME NEW k \in 1 .. Chunk PROVE At(k) % 2 = (k - 1) % 2
  <2> DEFINE y == k - 1
             h == p \div 2
  <2>1. y \in Nat /\ (p + k) - 1 = p + y
    OBVIOUS
  <2>2. h \in Nat /\ p = (2 * h) + (p % 2)
    BY Division
  <2> HIDE DEF y, h
  <2>3. p + y = y + (2 * h) /\ p + y \in Nat
    BY <2>1, <2>2
  <2>4. (y + (2 * h)) % 2 = y % 2
    BY <2>1, <2>2, RemainderShift
  <2>5. ((p + y) % d) % 2 = (p + y) % 2
    BY <2>3, Parity
  <2> QED
    BY <2>1, <2>3, <2>4, <2>5 DEF y
<1>6. ASSUME NEW k \in 1 .. Chunk, k % 2 = 0
      PROVE  k - 1 \in 1 .. Chunk /\ At(k) \div 2 = At(k - 1) \div 2
  <2> DEFINE v == p + (k - 2)
             h == p \div 2
             g == k \div 2
  <2>1. /\ h \in Nat /\ p = (2 * h) + (p % 2)
        /\ g \in Nat /\ k = (2 * g) + (k % 2)
    BY Division
  <2> HIDE DEF h, g
  <2>2. p = 2 * h /\ k = 2 * g /\ g >= 1
    BY <1>6, <2>1
  <2>3. v \in Nat /\ v = 2 * ((h + g) - 1) /\ (h + g) - 1 \in Nat
    BY <2>1, <2>2
  <2>4. v % 2 = 0
    BY <2>3
  <2>5. (p + k) - 1 = v + 1 /\ (p + (k - 1)) - 1 = v /\ k - 1 \in 1 .. Chunk
    BY <2>1, <2>2
  <2> HIDE DEF v
  <2>6. (v + 1) % d = (v % d) + 1 /\ ((v % d) + 1) \div 2 = (v % d) \div 2
    BY <2>3, <2>4, EvenPosition
  <2> QED
    BY <2>5, <2>6
<1>7. b \in Seq(Program!Range(Program!samples)) /\ Len(b) = Chunk
  <2> DEFINE S == Program!Range(Program!samples)
  <2>1. \A k \in 1 .. Chunk : b[k] \in S
    BY <1>4
  <2>2. Chunk \in Nat
    OBVIOUS
  <2> HIDE DEF S, At, d
  <2>3. b \in Seq(S) /\ Len(b) = Chunk
    BY <1>2, <2>1, <2>2, IsASeq
  <2> QED
    BY <2>3 DEF S
<1> HIDE DEF At
<1>8. Paired(b)
  BY <1>4, <1>5, <1>6, <1>7 DEF Paired
<1> QED
  BY <1>7, <1>8 DEF b

\* A chunk behind whole frames.
LEMMA JoinPaired ==
    ASSUME NEW S, NEW a \in Seq(S), NEW b \in Seq(S), Paired(a), Paired(b), Len(a) % 2 = 0
    PROVE  a \o b \in Seq(S) /\ Len(a \o b) = Len(a) + Len(b) /\ Paired(a \o b)
<1> DEFINE w == a \o b
           x == Len(a)
           y == Len(b)
           h == x \div 2
<1>1. /\ w \in Seq(S) /\ Len(w) = x + y
      /\ \A i \in 1 .. x + y : w[i] = IF i <= x THEN a[i] ELSE b[i - x]
  BY ConcatProperties
<1>2. x \in Nat /\ y \in Nat
  OBVIOUS
<1>3. /\ \A k \in 1 .. x : a[k].channel = (k - 1) % 2 /\ (k % 2 = 0 => a[k].frame = a[k - 1].frame)
      /\ \A k \in 1 .. y : b[k].channel = (k - 1) % 2 /\ (k % 2 = 0 => b[k].frame = b[k - 1].frame)
  BY DEF Paired
<1>4. x % 2 = 0
  OBVIOUS
<1> HIDE DEF w, x, y
<1>5. h \in Nat /\ x = 2 * h
  BY <1>2, <1>4
<1> HIDE DEF h
<1>6. ASSUME NEW k \in 1 .. x + y
      PROVE  w[k].channel = (k - 1) % 2 /\ (k % 2 = 0 => w[k].frame = w[k - 1].frame)
  <2>1. CASE k <= x
    <3>1. k \in 1 .. x /\ w[k] = a[k]
      BY <1>1, <1>2, <2>1
    <3>2. ASSUME k % 2 = 0 PROVE w[k - 1] = a[k - 1]
      <4>1. k # 1
        BY <3>2
      <4>2. k - 1 \in 1 .. x + y /\ k - 1 <= x
        BY <1>2, <2>1, <4>1
      <4> QED
        BY <1>1, <4>2
    <3> QED
      BY <1>3, <3>1, <3>2
  <2>2. CASE ~(k <= x)
    <3> DEFINE m == k - x
    <3>1. m \in 1 .. y /\ m \in Int /\ k = x + m /\ w[k] = b[m]
      BY <1>1, <1>2, <2>2
    <3> HIDE DEF m
    <3>2. k = m + (2 * h) /\ k - 1 = (m - 1) + (2 * h)
      BY <1>2, <1>5, <3>1
    <3>3. (k - 1) % 2 = (m - 1) % 2 /\ k % 2 = m % 2
      BY <1>5, <3>1, <3>2
    <3>4. ASSUME m % 2 = 0 PROVE w[k - 1] = b[m - 1]
      <4>1. m # 1
        BY <3>4
      <4>2. m - 1 \in 1 .. y /\ k - 1 \in 1 .. x + y /\ ~(k - 1 <= x) /\ (k - 1) - x = m - 1
        BY <1>2, <3>1, <4>1
      <4> QED
        BY <1>1, <4>2
    <3> QED
      BY <1>3, <3>1, <3>3, <3>4
  <2> QED
    BY <2>1, <2>2
<1>7. Paired(w)
  BY <1>1, <1>6 DEF Paired
<1> QED
  BY <1>1, <1>7 DEF w, x, y

\* One frame is taken from the front.
LEMMA TakePaired ==
    ASSUME NEW S, NEW a \in Seq(S), Paired(a), Len(a) % 2 = 0, Len(a) >= 2,
           NEW w, w = SubSeq(a, 3, Len(a))
    PROVE  /\ w \in Seq(S) /\ Len(w) = Len(a) - 2 /\ Paired(w)
           /\ Len(w) % 2 = 0
<1> DEFINE x == Len(a)
<1>1. x \in Nat /\ x >= 2 /\ x % 2 = 0
  OBVIOUS
<1>2. \A k \in 1 .. x : a[k] \in S
  OBVIOUS
<1>3. w = SubSeq(a, 3, x)
  OBVIOUS
<1>4. \A k \in 1 .. x : a[k].channel = (k - 1) % 2 /\ (k % 2 = 0 => a[k].frame = a[k - 1].frame)
  BY DEF Paired
<1> HIDE DEF x
<1>5. /\ w \in Seq(S) /\ Len(w) = (IF 3 <= x THEN (x - 3) + 1 ELSE 0)
      /\ \A m \in 1 .. ((x - 3) + 1) : w[m] = a[(3 + m) - 1]
  <2>1. \A k \in 3 .. x : a[k] \in S
    BY <1>1, <1>2
  <2>2. 3 \in Int /\ x \in Int
    BY <1>1
  <2> QED
    BY <1>3, <2>1, <2>2, SubSeqProperties
<1>6. Len(w) = x - 2 /\ \A m \in 1 .. (x - 2) : w[m] = a[m + 2]
  <2>1. \A m \in 1 .. (x - 2) : m \in 1 .. ((x - 3) + 1) /\ (3 + m) - 1 = m + 2
    BY <1>1
  <2>2. (IF 3 <= x THEN (x - 3) + 1 ELSE 0) = x - 2
    BY <1>1
  <2> QED
    BY <1>5, <2>1, <2>2
<1>7. ASSUME NEW k \in 1 .. (x - 2)
      PROVE  w[k].channel = (k - 1) % 2 /\ (k % 2 = 0 => w[k].frame = w[k - 1].frame)
  <2>1. k + 2 \in 1 .. x /\ ((k + 2) - 1) % 2 = (k - 1) % 2 /\ (k + 2) % 2 = k % 2
    BY <1>1
  <2>2. ASSUME k % 2 = 0 PROVE w[k - 1] = a[(k + 2) - 1]
    <3>1. k # 1
      BY <2>2
    <3>2. k - 1 \in 1 .. (x - 2) /\ (k - 1) + 2 = (k + 2) - 1
      BY <1>1, <3>1
    <3> QED
      BY <1>6, <3>2
  <2>3. w[k] = a[k + 2]
    BY <1>6
  <2> QED
    BY <1>4, <2>1, <2>2, <2>3
<1>8. (x - 2) % 2 = 0
  BY <1>1
<1> QED
  BY <1>5, <1>6, <1>7, <1>8 DEF Paired, x

----------------------------------------------------------------------------
(* The ring. *)

\* Positions, chunks and what is in the ring are whole frames.
Whole ==
    /\ file \in Files /\ pos \in 0 .. Len(Program!samples) - 1 /\ pos % 2 = 0
    /\ ring \in Seq(Program!Range(Program!samples)) /\ Len(ring) <= Capacity /\ Len(ring) % 2 = 0
    /\ Paired(ring)
    /\ prod = "push" => Capacity - Len(ring) >= Chunk

\* Nothing in the ring at first.
LEMMA WholeInit ==
    ASSUME Program!SizesAssumption, Program!WholeFrames, Program!Init
    PROVE  Whole
<1>1. file \in Files /\ pos = 0 /\ ring = <<>> /\ prod = "look"
  BY DEF Program!Init
<1>2. PICK n \in Nat \ {0} : Program!samples = Audio(n)
  BY <1>1, WholeAudio DEF Program!samples
<1>3. Len(Program!samples) = 2 * n
  BY <1>2, AudioSamples
<1>4. Len(<<>>) = 0 /\ ring \in Seq(Program!Range(Program!samples))
  BY <1>1
<1>5. pos \in 0 .. Len(Program!samples) - 1 /\ pos % 2 = 0 /\ 0 % 2 = 0
  BY <1>1, <1>3
<1> QED
  BY <1>1, <1>4, <1>5 DEF Whole, Paired, Program!SizesAssumption

\* The producer pushes a chunk.
LEMMA WholePush ==
    ASSUME Program!SizesAssumption, Program!WholeFrames, Whole, Program!ProducerPushes
    PROVE  Whole'
<1>1. /\ prod = "push" /\ ring' = ring \o Program!Filled(pos) /\ pos' = Program!NextPos(pos)
      /\ prod' = "look" /\ file' = file /\ Program!samples' = Program!samples
  BY DEF Program!ProducerPushes, Program!samples
<1>2. PICK n \in Nat \ {0} : Program!samples = Audio(n)
  BY WholeAudio DEF Whole, Program!samples
<1>3. Len(Program!samples) = 2 * n
  BY <1>2, AudioSamples
<1>4. PICK p : p = pos
  OBVIOUS
<1>5. p \in Nat /\ p % 2 = 0 /\ Chunk \in Nat \ {0} /\ Chunk % 2 = 0 /\ Capacity \in Nat
  BY <1>3, <1>4 DEF Whole, Program!SizesAssumption, Program!WholeFrames
<1> DEFINE b == Program!Filled(p)
           S == Program!Range(Program!samples)
<1>6. b \in Seq(S) /\ Len(b) = Chunk /\ Paired(b)
  BY <1>2, <1>5, FilledPaired
<1>7. ring \in Seq(S) /\ Paired(ring) /\ Len(ring) % 2 = 0 /\ Len(ring) \in Nat
  BY DEF Whole
<1>8. ring' = ring \o b
  BY <1>1, <1>4
<1>8a. PICK a : a = ring
  OBVIOUS
<1> HIDE DEF b, S
<1>9. a \o b \in Seq(S) /\ Len(a \o b) = Len(a) + Len(b) /\ Paired(a \o b)
  BY <1>6, <1>7, <1>8a, JoinPaired
<1>10. ring' \in Seq(S) /\ Len(ring') = Len(ring) + Chunk /\ Paired(ring')
  BY <1>6, <1>8, <1>8a, <1>9
<1>11. Len(ring') % 2 = 0 /\ Len(ring') <= Capacity
  <2>1. Capacity - Len(ring) >= Chunk
    BY <1>1 DEF Whole
  <2> DEFINE l == Len(ring)
  <2>2. l \in Nat /\ l % 2 = 0 /\ Capacity - l >= Chunk /\ Len(ring') = l + Chunk
    BY <1>7, <1>10, <2>1
  <2> HIDE DEF l
  <2>3. (l + Chunk) % 2 = 0 /\ l + Chunk <= Capacity
    BY <1>5, <2>2
  <2> QED
    BY <2>2, <2>3
<1>12. pos' \in 0 .. Len(Program!samples) - 1 /\ pos' % 2 = 0
  <2> DEFINE v == p + Chunk
             d == 2 * n
  <2>1. v \in Nat /\ v % 2 = 0
    BY <1>5
  <2>2. pos' = v % d /\ d = Len(Program!samples) /\ d \in Nat \ {0}
    BY <1>1, <1>3, <1>4 DEF Program!NextPos
  <2> HIDE DEF v
  <2>3. v % d \in 0 .. d - 2 /\ (v % d) % 2 = 0
    BY <2>1, EvenPosition
  <2> HIDE DEF d
  <2> QED
    BY <2>2, <2>3
<1> QED
  BY <1>1, <1>10, <1>11, <1>12 DEF Whole, S

\* The sender takes a frame, or finds none and plays silence.
LEMMA WholePump ==
    ASSUME Program!SizesAssumption, Whole, Program!PumpQuietly
    PROVE  Whole'
<1>1. /\ ring' \in {ring} \cup (IF session = "up" /\ Len(ring) >= 2
                                THEN {SubSeq(ring, 3, Len(ring))} ELSE {})
      /\ file' = file /\ pos' = pos /\ prod' = prod /\ Program!samples' = Program!samples
  BY DEF Program!PumpQuietly, Program!samples
<1>2. CASE ring' = ring
  BY <1>1, <1>2 DEF Whole
<1>3. CASE Len(ring) >= 2 /\ ring' = SubSeq(ring, 3, Len(ring))
  <2>1. PICK a : a = ring
    OBVIOUS
  <2>2. PICK w : w = SubSeq(a, 3, Len(a))
    OBVIOUS
  <2> DEFINE S == Program!Range(Program!samples)
  <2>3. a \in Seq(S) /\ Paired(a) /\ Len(a) % 2 = 0 /\ Len(a) >= 2 /\ Len(a) \in Nat
    BY <1>3, <2>1 DEF Whole
  <2> HIDE DEF S
  <2>4. w \in Seq(S) /\ Len(w) = Len(a) - 2 /\ Paired(w) /\ Len(w) % 2 = 0
    BY <2>2, <2>3, TakePaired
  <2>5. ring' = w
    BY <1>3, <2>1, <2>2
  <2>6. Len(w) <= Capacity /\ (prod = "push" => Capacity - Len(w) >= Chunk)
    <3>1. Len(a) <= Capacity /\ (prod = "push" => Capacity - Len(a) >= Chunk)
      BY <2>1 DEF Whole
    <3> DEFINE l == Len(a)
               m == Len(w)
    <3>2. l \in Nat /\ m = l - 2 /\ l <= Capacity /\ (prod = "push" => Capacity - l >= Chunk)
      BY <2>3, <2>4, <3>1
    <3> HIDE DEF l, m
    <3>3. m <= Capacity /\ (prod = "push" => Capacity - m >= Chunk)
      BY <3>2 DEF Program!SizesAssumption
    <3> QED
      BY <3>3 DEF m
  <2> QED
    BY <1>1, <2>4, <2>5, <2>6 DEF Whole, S
<1> QED
  BY <1>1, <1>2, <1>3

\* Every step keeps them.
LEMMA WholeStep ==
    ASSUME Program!SizesAssumption, Program!WholeFrames, Whole, [Program!Next]_(Program!vars)
    PROVE  Whole'
<1>1. CASE Program!ProducerPushes
  BY <1>1, WholePush
<1>2. CASE Program!PumpQuietly
  BY <1>2, WholePump
<1>3. CASE Program!ProducerFinds
  <2>1. file' = file /\ pos' = pos /\ ring' = ring /\ Program!samples' = Program!samples
    BY <1>3 DEF Program!ProducerFinds, Program!samples
  <2> QED
    BY <1>3, <2>1 DEF Program!ProducerFinds, Whole
<1>4. CASE /\ UNCHANGED <<file, pos, ring>>
           /\ prod' = prod \/ prod' = "gone"
  <2>1. Program!samples' = Program!samples
    BY <1>4 DEF Program!samples
  <2> QED
    BY <1>4, <2>1 DEF Whole
<1> DEFINE Else == UNCHANGED <<file, pos, ring>> /\ (prod' = prod \/ prod' = "gone")
<1>5. Program!Producer => Program!ProducerPushes \/ Program!ProducerFinds \/ Else
  BY DEF Program!Producer, Program!ProducerEnds, Program!ProducerSleeps, Program!vars
<1>6. Program!Main => Program!PumpQuietly \/ Else
  BY DEF Program!Main, Program!Start, Program!Check, Program!Launched, Program!Closed,
         Program!LaunchFails, Program!PinRequired, Program!Stop, Program!Flag, Program!Join
<1>7. Program!PinTyped \/ Program!Signal \/ UNCHANGED Program!vars => Else
  BY DEF Program!PinTyped, Program!Signal, Program!vars
<1> QED
  BY <1>1, <1>2, <1>3, <1>4, <1>5, <1>6, <1>7 DEF Program!Next

\* What the program keeps is what is to hold of it.
LEMMA WholeMeaning ==
    ASSUME Whole, Flags
    PROVE  ProgramSafe
<1>1. Program!TypeOK
  BY DEF Whole, Flags, Program!TypeOK
<1>2. DOMAIN ring = 1 .. Len(ring)
  BY DEF Whole
<1>3. Program!FramesKept
  BY <1>2 DEF Whole, Paired, Program!FramesKept
<1> QED
  BY <1>1, <1>3 DEF Flags, ProgramSafe, Program!ProgramSafe, Program!ExitCodeTells,
                    Program!RingOutlivesProducer

\* Of the steps of both levels, those of the ring leave the program alone.
LEMMA ProgramSteps ==
    ASSUME [ThreadsNext]_<<vars, programVars, level>>
    PROVE  [Program!Next]_(Program!vars)
BY DEF ThreadsNext, Ended, programVars, Program!vars

\* Left and right samples stay apart in the ring over any number of repetitions and
\* wherever in a chunk the audio starts over, for files of whole frames; and the
\* shutdown is in order (loadWav, the producer, main in airplay_send.cpp).
THEOREM ProgramIsSafe == ThreadsSpec => []ProgramSafe
<1>1. ThreadsInit => Whole /\ Flags
  BY WholeInit, FlagsInit, ProgramAssumption DEF ThreadsInit
<1>2. Whole /\ Flags /\ [ThreadsNext]_<<vars, programVars, level>> => (Whole /\ Flags)'
  BY ProgramSteps, WholeStep, FlagsStep, ProgramAssumption
<1>3. Whole /\ Flags => ProgramSafe
  BY WholeMeaning
<1>4. ThreadsSpec => ThreadsInit /\ [][ThreadsNext]_<<vars, programVars, level>>
  BY PTL DEF ThreadsSpec
<1> QED
  BY <1>1, <1>2, <1>3, <1>4, PTL
=============================================================================
