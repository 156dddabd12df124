------------------------------ MODULE CodecProofs ------------------------------
(***************************************************************************)
(* Proofs about the pure code: a binary frame is read as it was written,   *)
(* and a message that was encoded in one of the seven encodings comes back *)
(* from its decoder or, where the encoding spoils it, is lost.             *)
(***************************************************************************)
EXTENDS BinaryFrame, FiniteSetTheorems, SequenceTheorems, TLAPS

-----------------------------------------------------------------------------
(* Numbers.  A set of them has a least one, and one that has 0 and with    *)
(* every number the next has them all: how the proofs here do inductions.  *)

(* The order of the numbers.                                               *)
Below == {p \in Nat \X Nat : p[1] < p[2]}

(* A set of numbers has a least one.                                       *)
LEMMA Least ==
  ASSUME NEW T \in SUBSET Nat, T # {}
  PROVE  \E m \in T : \A k \in T : m <= k
<1>1. OpToRel(<, Nat) = Below
  BY DEF OpToRel, Below
<1>2. IsWellFoundedOn(Below, Nat)
  BY <1>1, NatLessThanWellFounded
<1>3. PICK m \in T : \A k \in T : ~(<<k, m>> \in Below)
  BY <1>2, WFMin
<1>4. \A k \in T : ~(k < m)
  BY <1>3 DEF Below
<1>5. \A k \in T : m <= k
  BY <1>4
<1> QED
  BY <1>5

(* A set that has 0 and with every number the next has them all.           *)
LEMMA Counting ==
  ASSUME NEW T \in SUBSET Nat, 0 \in T, \A n \in T : n + 1 \in T
  PROVE  T = Nat
<1> SUFFICES ASSUME Nat \ T # {} PROVE FALSE
  OBVIOUS
<1>1. PICK m \in Nat \ T : \A k \in Nat \ T : m <= k
  BY Least
<1>2. m # 0 /\ m - 1 \in Nat
  BY <1>1
<1>3. m - 1 \in T
  BY <1>1, <1>2
<1> QED
  BY <1>1, <1>3

-----------------------------------------------------------------------------
(* The number that bits make.                                              *)

(* A number made step by step from what stands at 1, 2, ... exists.        *)
LEMMA StepsExist ==
  ASSUME NEW B, NEW n \in Nat
  PROVE  \E v : v = [i \in 0..n |-> IF i = 0 THEN 0 ELSE 2 * v[i - 1] + B[i]]
<1> DEFINE Made(m) == \E v : v = [i \in 0..m |-> IF i = 0 THEN 0 ELSE 2 * v[i - 1] + B[i]]
           T == {m \in Nat : Made(m)}
<1>1. 0 \in T
  <2> DEFINE v == [i \in 0..0 |-> 0]
  <2>1. v = [i \in 0..0 |-> IF i = 0 THEN 0 ELSE 2 * v[i - 1] + B[i]]
    OBVIOUS
  <2> QED
    BY <2>1
<1>2. ASSUME NEW m \in T
      PROVE  m + 1 \in T
  <2>1. m \in Nat
    BY <1>2
  <2>2. PICK u : u = [i \in 0..m |-> IF i = 0 THEN 0 ELSE 2 * u[i - 1] + B[i]]
    BY <1>2
  <2> DEFINE k == m + 1
             v == [i \in 0..k |-> IF i = 0 THEN 0 ELSE 2 * u[i - 1] + B[i]]
  <2>3. k \in Nat /\ m = k - 1
    BY <2>1
  <2> HIDE DEF k
  <2>4. \A i \in 0..(k - 1) : v[i] = u[i]
    BY <2>2, <2>3
  <2>5. v = [i \in 0..k |-> IF i = 0 THEN 0 ELSE 2 * v[i - 1] + B[i]]
    <3>1. \A i \in 0..k : i # 0 => i - 1 \in 0..(k - 1)
      BY <2>3
    <3>2. \A i \in 0..k : i # 0 => v[i - 1] = u[i - 1]
      BY <2>4, <3>1
    <3>3. v = [i \in 0..k |-> IF i = 0 THEN 0 ELSE 2 * u[i - 1] + B[i]]
      OBVIOUS
    <3> HIDE DEF v
    <3> QED
      BY <3>2, <3>3
  <2>6. Made(k)
    BY <2>5
  <2> QED
    BY <2>3, <2>6 DEF k
<1>3. T = Nat
  <2> HIDE DEF T
  <2>1. T \in SUBSET Nat
    BY DEF T
  <2> QED
    BY <1>1, <1>2, <2>1, Counting
<1> QED
  BY <1>3

(* Value is the last of these steps.                                       *)
LEMMA ValueSteps ==
  ASSUME NEW bits, Len(bits) \in Nat
  PROVE  \E v : /\ v = [i \in 0..Len(bits) |->
                          IF i = 0 THEN 0 ELSE 2 * v[i - 1] + bits[i]]
                /\ Value(bits) = v[Len(bits)]
<1> DEFINE v == CHOOSE u : u = [i \in 0..Len(bits) |->
                                  IF i = 0 THEN 0 ELSE 2 * u[i - 1] + bits[i]]
<1>1. v = [i \in 0..Len(bits) |-> IF i = 0 THEN 0 ELSE 2 * v[i - 1] + bits[i]]
  BY StepsExist
<1>2. Value(bits) = v[Len(bits)]
  BY DEF Value
<1> QED
  BY <1>1, <1>2

(* Whatever the bits, they make a natural number.                          *)
LEMMA ValueType ==
  ASSUME NEW bits \in Seq({0, 1})
  PROVE  Value(bits) \in Nat
<1>1. Len(bits) \in Nat /\ \A i \in 1..Len(bits) : bits[i] \in Nat
  OBVIOUS
<1>2. PICK v : /\ v = [i \in 0..Len(bits) |->
                         IF i = 0 THEN 0 ELSE 2 * v[i - 1] + bits[i]]
               /\ Value(bits) = v[Len(bits)]
  BY <1>1, ValueSteps
<1> DEFINE n == Len(bits)
           T == {i \in Nat : i <= n => v[i] \in Nat}
<1> HIDE DEF n
<1>3. 0 \in T
  BY <1>1, <1>2 DEF n
<1>4. ASSUME NEW i \in T
      PROVE  i + 1 \in T
  <2>1. ASSUME i + 1 <= n
        PROVE  v[i + 1] \in Nat
    <3>1. i \in Nat /\ n \in Nat /\ i + 1 \in 1..n /\ v[i] \in Nat
      BY <1>1, <1>4, <2>1 DEF n
    <3>2. v[i + 1] = 2 * v[i] + bits[i + 1]
      BY <1>2, <3>1 DEF n
    <3> QED
      BY <1>1, <3>1, <3>2 DEF n
  <2> QED
    BY <2>1
<1>5. T = Nat
  <2> HIDE DEF T
  <2>1. T \in SUBSET Nat
    BY DEF T
  <2> QED
    BY <1>3, <1>4, <2>1, Counting
<1>6. n \in T
  BY <1>1, <1>5 DEF n
<1> QED
  BY <1>1, <1>2, <1>6 DEF n

(* One bit, four, five and eight of them.                                  *)
LEMMA ValueOf ==
  ASSUME NEW b \in Seq({0, 1})
  PROVE  /\ Len(b) = 1 => Value(b) = b[1]
         /\ Len(b) = 4 => Value(b) = 8 * b[1] + 4 * b[2] + 2 * b[3] + b[4]
         /\ Len(b) = 5 => Value(b) = 16 * b[1] + 8 * b[2] + 4 * b[3] + 2 * b[4] + b[5]
         /\ Len(b) = 8 => Value(b) = 128 * b[1] + 64 * b[2] + 32 * b[3] + 16 * b[4]
                                       + 8 * b[5] + 4 * b[6] + 2 * b[7] + b[8]
<1> DEFINE n == Len(b)
<1>1. n \in Nat /\ \A i \in 1..n : b[i] \in Int
  OBVIOUS
<1>2. PICK v : /\ v = [i \in 0..n |-> IF i = 0 THEN 0 ELSE 2 * v[i - 1] + b[i]]
               /\ Value(b) = v[n]
  BY <1>1, ValueSteps
<1> HIDE DEF n
<1>3. v[0] = 0
  BY <1>1, <1>2
<1>4. \A i \in 1..n : \A m \in 0..(n - 1) : i = m + 1 => v[i] = 2 * v[m] + b[i]
  BY <1>1, <1>2
<1>5. ASSUME n >= 1
      PROVE  v[1] = b[1] /\ v[1] \in Int
  <2>1. 1 \in 1..n /\ 0 \in 0..(n - 1) /\ 1 = 0 + 1
    BY <1>1, <1>5
  <2>2. v[1] = 2 * v[0] + b[1]
    BY <1>4, <2>1
  <2> QED
    BY <1>1, <1>3, <2>1, <2>2
<1>6. ASSUME NEW m \in Nat, NEW i \in Nat, i = m + 1, n >= i
      PROVE  v[i] = 2 * v[m] + b[i] /\ b[i] \in Int
  <2>1. i \in 1..n /\ m \in 0..(n - 1)
    BY <1>1, <1>6
  <2> QED
    BY <1>1, <1>4, <1>6, <2>1
<1>7. ASSUME n >= 4
      PROVE  v[4] = 8 * b[1] + 4 * b[2] + 2 * b[3] + b[4] /\ v[4] \in Int
  <2> DEFINE p == b[1]  q == b[2]  r == b[3]  s == b[4]
  <2>1. v[2] = 2 * v[1] + q /\ q \in Int
    BY <1>1, <1>6, <1>7
  <2>2. v[3] = 2 * v[2] + r /\ r \in Int
    BY <1>1, <1>6, <1>7
  <2>3. v[4] = 2 * v[3] + s /\ s \in Int
    BY <1>1, <1>6, <1>7
  <2>4. v[1] = p /\ p \in Int
    BY <1>1, <1>5, <1>7
  <2> HIDE DEF p, q, r, s
  <2>5. v[4] = 8 * p + 4 * q + 2 * r + s /\ v[4] \in Int
    BY <2>1, <2>2, <2>3, <2>4
  <2> QED
    BY <2>5 DEF p, q, r, s
<1>8. ASSUME n >= 4
      PROVE  b[1] \in Int /\ b[2] \in Int /\ b[3] \in Int /\ b[4] \in Int
  BY <1>1, <1>8
<1>9. n = 1 => Value(b) = b[1]
  BY <1>2, <1>5
<1>10. n = 4 => Value(b) = 8 * b[1] + 4 * b[2] + 2 * b[3] + b[4]
  BY <1>2, <1>7
<1>11. n = 5 => Value(b) = 16 * b[1] + 8 * b[2] + 4 * b[3] + 2 * b[4] + b[5]
  <2>1. SUFFICES ASSUME n = 5
                 PROVE  v[5] = 16 * b[1] + 8 * b[2] + 4 * b[3] + 2 * b[4] + b[5]
    BY <1>2
  <2>2. v[5] = 2 * v[4] + b[5] /\ b[5] \in Int
    BY <1>1, <1>6, <2>1
  <2> DEFINE p == b[1]  q == b[2]  r == b[3]  s == b[4]  t == b[5]
  <2>3. p \in Int /\ q \in Int /\ r \in Int /\ s \in Int /\ t \in Int
    BY <1>8, <2>1, <2>2
  <2>4. v[5] = 2 * (8 * p + 4 * q + 2 * r + s) + t
    BY <1>7, <2>1, <2>2
  <2> HIDE DEF p, q, r, s, t
  <2>5. v[5] = 16 * p + 8 * q + 4 * r + 2 * s + t
    BY <2>3, <2>4
  <2> QED
    BY <2>5 DEF p, q, r, s, t
<1>12. n = 8 => Value(b) = 128 * b[1] + 64 * b[2] + 32 * b[3] + 16 * b[4] + 8 * b[5]
                             + 4 * b[6] + 2 * b[7] + b[8]
  <2>1. SUFFICES ASSUME n = 8
                 PROVE  v[8] = 128 * b[1] + 64 * b[2] + 32 * b[3] + 16 * b[4] + 8 * b[5]
                                 + 4 * b[6] + 2 * b[7] + b[8]
    BY <1>2
  <2> DEFINE p == b[1]  q == b[2]  r == b[3]  s == b[4]
             t == b[5]  x == b[6]  y == b[7]  z == b[8]
  <2>2. v[5] = 2 * v[4] + t /\ t \in Int
    BY <1>1, <1>6, <2>1
  <2>3. v[6] = 2 * v[5] + x /\ x \in Int
    BY <1>1, <1>6, <2>1
  <2>4. v[7] = 2 * v[6] + y /\ y \in Int
    BY <1>1, <1>6, <2>1
  <2>5. v[8] = 2 * v[7] + z /\ z \in Int
    BY <1>1, <1>6, <2>1
  <2>6. p \in Int /\ q \in Int /\ r \in Int /\ s \in Int
    BY <1>8, <2>1
  <2>7. v[4] = 8 * p + 4 * q + 2 * r + s
    BY <1>7, <2>1
  <2> HIDE DEF p, q, r, s, t, x, y, z
  <2>8. v[6] = 32 * p + 16 * q + 8 * r + 4 * s + 2 * t + x
    BY <2>2, <2>3, <2>6, <2>7
  <2>9. v[8] = 128 * p + 64 * q + 32 * r + 16 * s + 8 * t + 4 * x + 2 * y + z
    BY <2>2, <2>3, <2>4, <2>5, <2>6, <2>8
  <2> QED
    BY <2>9 DEF p, q, r, s, t, x, y, z
<1> QED
  BY <1>9, <1>10, <1>11, <1>12 DEF n

-----------------------------------------------------------------------------
(* Bits and bytes.                                                         *)

(* The eight powers of two that a bit of a byte stands for.                *)
LEMMA Powers ==
  /\ 2^0 = 1 /\ 2^1 = 2 /\ 2^2 = 4 /\ 2^3 = 8
  /\ 2^4 = 16 /\ 2^5 = 32 /\ 2^6 = 64 /\ 2^7 = 128
OBVIOUS

(* Their exponents, as the bits of a byte are counted.                     *)
LEMMA PowerRange ==
  ASSUME NEW j \in 0..7
  PROVE  2^j \in Nat \ {0}
<1>1. CASE j = 0
  BY <1>1
<1>2. CASE j = 1
  BY <1>2
<1>3. CASE j = 2
  BY <1>3
<1>4. CASE j = 3
  BY <1>4
<1>5. CASE j = 4
  BY <1>5
<1>6. CASE j = 5
  BY <1>6
<1>7. CASE j = 6
  BY <1>7
<1>8. CASE j = 7
  BY <1>8
<1> QED
  BY <1>1, <1>2, <1>3, <1>4, <1>5, <1>6, <1>7, <1>8

(* A bit of bytes, spelled out.                                            *)
LEMMA BitIs ==
  ASSUME NEW s, NEW i
  PROVE  Bit(s, i) = IF i < 8 * Len(s)
                     THEN (s[i \div 8 + 1] \div 2^(7 - (i % 8))) % 2 ELSE 0
<1>1. 8 - 1 - (i % 8) = 7 - (i % 8)
  OBVIOUS
<1> QED
  BY <1>1 DEF Bit, BitOf

(* A bit is 0 or 1.                                                        *)
LEMMA BitRange ==
  ASSUME NEW s \in Seq(0..255), NEW i \in Nat
  PROVE  Bit(s, i) \in {0, 1}
<1> DEFINE n == Len(s)
           j == i \div 8 + 1
           e == 7 - (i % 8)
<1>1. CASE i < 8 * n
  <2>1. n \in Nat
    OBVIOUS
  <2>2. \A k \in 1..n : s[k] \in 0..255
    BY ElementOfSeq
  <2> HIDE DEF n
  <2>3. j \in 1..n
    BY <1>1, <2>1
  <2>4. e \in 0..7
    OBVIOUS
  <2> DEFINE x == s[j]
             p == 2^e
  <2> HIDE DEF j, e
  <2>5. x \in 0..255
    BY <2>2, <2>3
  <2>6. p \in Nat \ {0}
    BY <2>4, PowerRange
  <2> HIDE DEF x, p
  <2>7. x \div p \in Int
    BY <2>5, <2>6
  <2>8. (x \div p) % 2 \in {0, 1}
    BY <2>7
  <2> QED
    BY <1>1, <2>8, BitIs DEF x, p, j, e, n
<1>2. CASE ~(i < 8 * n)
  BY <1>2, BitIs
<1> QED
  BY <1>1, <1>2

(* A word is a number.                                                     *)
LEMMA WordType ==
  ASSUME NEW s \in Seq(0..255), NEW k \in Nat, NEW w \in Nat
  PROVE  Word(s, k, w) \in Nat
<1> DEFINE b == [n \in 1..w |-> Bit(s, k + n - 1)]
<1>1. \A n \in 1..w : Bit(s, k + n - 1) \in {0, 1}
  BY BitRange
<1>2. b \in Seq({0, 1})
  BY <1>1
<1> HIDE DEF b
<1>3. Value(b) \in Nat
  BY <1>2, ValueType
<1> QED
  BY <1>3 DEF Word, b

(* What br_read_bits gives is a number.                                    *)
LEMMA ReadType ==
  ASSUME NEW s \in Seq(0..255), NEW k \in Nat, NEW w \in Nat
  PROVE  Read(s, k, w) \in Nat
<1> DEFINE l == 8 * Len(s)
<1>1. l \in Nat
  OBVIOUS
<1> HIDE DEF l
<1>2. CASE k >= l
  BY <1>2 DEF Read, l
<1>3. CASE k < l /\ k + w > l
  <2>1. l - k \in Nat
    BY <1>1, <1>3
  <2>2. Word(s, k, l - k) \in Nat
    BY <2>1, WordType
  <2>3. Read(s, k, w) = Word(s, k, l - k)
    BY <1>1, <1>3 DEF Read, l
  <2> QED
    BY <2>2, <2>3
<1>4. CASE k < l /\ k + w <= l
  <2>1. Word(s, k, w) \in Nat
    BY WordType
  <2>2. Read(s, k, w) = Word(s, k, w)
    BY <1>1, <1>4 DEF Read, l
  <2> QED
    BY <2>1, <2>2
<1> QED
  BY <1>1, <1>2, <1>3, <1>4

-----------------------------------------------------------------------------
(* Numbers of 4, 5 and 8 bits, and bytes of 8 bits.                        *)

(* The byte that eight bits make.                                          *)
Byte(a, b, c, d, e, f, g, h) ==
  128 * a + 64 * b + 32 * c + 16 * d + 8 * e + 4 * f + 2 * g + h

(* It is a byte.                                                           *)
LEMMA ByteOfBits ==
  ASSUME NEW x \in 0..255
  PROVE  Byte((x \div 128) % 2, (x \div 64) % 2, (x \div 32) % 2, (x \div 16) % 2,
              (x \div 8) % 2, (x \div 4) % 2, (x \div 2) % 2, (x \div 1) % 2) = x
BY DEF Byte

(* The eight bits that make a byte are those the byte has.                 *)
LEMMA BitsBack ==
  ASSUME NEW b \in Seq({0, 1}), Len(b) = 8
  PROVE  /\ Value(b) \in 0..255
         /\ \A j \in 1..8 : (Value(b) \div 2^(8 - j)) % 2 = b[j]
<1> DEFINE x == Value(b)
<1>1. x = 128 * b[1] + 64 * b[2] + 32 * b[3] + 16 * b[4] + 8 * b[5] + 4 * b[6]
          + 2 * b[7] + b[8]
  BY ValueOf
<1>2. \A j \in 1..Len(b) : b[j] \in {0, 1}
  BY ElementOfSeq
<1> HIDE DEF x
<1>3. x = Byte(b[1], b[2], b[3], b[4], b[5], b[6], b[7], b[8])
  BY <1>1 DEF Byte
<1>4. /\ b[1] \in {0, 1} /\ b[2] \in {0, 1} /\ b[3] \in {0, 1} /\ b[4] \in {0, 1}
      /\ b[5] \in {0, 1} /\ b[6] \in {0, 1} /\ b[7] \in {0, 1} /\ b[8] \in {0, 1}
  BY <1>2
<1>5. /\ x \in 0..255
      /\ (x \div 128) % 2 = b[1] /\ (x \div 64) % 2 = b[2] /\ (x \div 32) % 2 = b[3]
      /\ (x \div 16) % 2 = b[4] /\ (x \div 8) % 2 = b[5] /\ (x \div 4) % 2 = b[6]
      /\ (x \div 2) % 2 = b[7] /\ (x \div 1) % 2 = b[8]
  <2> DEFINE p == b[1]  q == b[2]  r == b[3]  s == b[4]
             t == b[5]  u == b[6]  v == b[7]  z == b[8]
  <2>1. /\ p \in {0, 1} /\ q \in {0, 1} /\ r \in {0, 1} /\ s \in {0, 1}
        /\ t \in {0, 1} /\ u \in {0, 1} /\ v \in {0, 1} /\ z \in {0, 1}
    BY <1>4
  <2>2. x = Byte(p, q, r, s, t, u, v, z)
    BY <1>3
  <2> HIDE DEF p, q, r, s, t, u, v, z
  <2>3. /\ x \in 0..255
        /\ (x \div 128) % 2 = p /\ (x \div 64) % 2 = q /\ (x \div 32) % 2 = r
        /\ (x \div 16) % 2 = s /\ (x \div 8) % 2 = t /\ (x \div 4) % 2 = u
        /\ (x \div 2) % 2 = v /\ (x \div 1) % 2 = z
    BY <2>1, <2>2 DEF Byte
  <2> QED
    BY <2>3 DEF p, q, r, s, t, u, v, z
<1>6. ASSUME NEW j \in 1..8
      PROVE  (x \div 2^(8 - j)) % 2 = b[j]
  <2>1. CASE j = 1
    BY <1>5, <2>1, Powers
  <2>2. CASE j = 2
    BY <1>5, <2>2, Powers
  <2>3. CASE j = 3
    BY <1>5, <2>3, Powers
  <2>4. CASE j = 4
    BY <1>5, <2>4, Powers
  <2>5. CASE j = 5
    BY <1>5, <2>5, Powers
  <2>6. CASE j = 6
    BY <1>5, <2>6, Powers
  <2>7. CASE j = 7
    BY <1>5, <2>7, Powers
  <2>8. CASE j = 8
    BY <1>5, <2>8, Powers
  <2> QED
    BY <2>1, <2>2, <2>3, <2>4, <2>5, <2>6, <2>7, <2>8
<1> QED
  BY <1>5, <1>6 DEF x

(* A number is written in w bits, each 0 or 1.                             *)
LEMMA BitsOfType ==
  ASSUME NEW x \in Nat, NEW w \in {4, 5, 8}
  PROVE  BitsOf(x, w) \in Seq({0, 1}) /\ Len(BitsOf(x, w)) = w
<1>1. ASSUME NEW i \in 1..w
      PROVE  (x \div 2^(w - i)) % 2 \in {0, 1}
  <2> DEFINE e == w - i
             p == 2^e
  <2>1. e \in 0..7
    OBVIOUS
  <2> HIDE DEF e
  <2>2. p \in Nat \ {0}
    BY <2>1, PowerRange
  <2> HIDE DEF p
  <2>3. x \div p \in Int
    BY <2>2
  <2>4. (x \div p) % 2 \in {0, 1}
    BY <2>3
  <2> QED
    BY <2>4 DEF p, e
<1> QED
  BY <1>1 DEF BitsOf

(* It is read back, for the widths of the frame header.                    *)
LEMMA BitsOfBack ==
  ASSUME NEW x \in Nat
  PROVE  /\ x \in 0..255 => Value(BitsOf(x, 8)) = x
         /\ x \in 0..31 => Value(BitsOf(x, 5)) = x
         /\ x \in 0..15 => Value(BitsOf(x, 4)) = x
<1>1. ASSUME x \in 0..255
      PROVE  Value(BitsOf(x, 8)) = x
  <2> DEFINE b == BitsOf(x, 8)
  <2>1. b \in Seq({0, 1}) /\ Len(b) = 8
    BY BitsOfType
  <2>2. /\ b[1] = (x \div 2^7) % 2 /\ b[2] = (x \div 2^6) % 2
        /\ b[3] = (x \div 2^5) % 2 /\ b[4] = (x \div 2^4) % 2
        /\ b[5] = (x \div 2^3) % 2 /\ b[6] = (x \div 2^2) % 2
        /\ b[7] = (x \div 2^1) % 2 /\ b[8] = (x \div 2^0) % 2
    BY DEF BitsOf
  <2> HIDE DEF b
  <2>3. Value(b) = Byte(b[1], b[2], b[3], b[4], b[5], b[6], b[7], b[8])
    BY <2>1, ValueOf DEF Byte
  <2>4. Value(b) = Byte((x \div 128) % 2, (x \div 64) % 2, (x \div 32) % 2,
                        (x \div 16) % 2, (x \div 8) % 2, (x \div 4) % 2,
                        (x \div 2) % 2, (x \div 1) % 2)
    BY <2>2, <2>3, Powers
  <2> QED
    BY <1>1, <2>4, ByteOfBits DEF b
<1>2. ASSUME x \in 0..31
      PROVE  Value(BitsOf(x, 5)) = x
  <2> DEFINE b == BitsOf(x, 5)
  <2>1. b \in Seq({0, 1}) /\ Len(b) = 5
    BY BitsOfType
  <2>2. /\ b[1] = (x \div 2^4) % 2 /\ b[2] = (x \div 2^3) % 2 /\ b[3] = (x \div 2^2) % 2
        /\ b[4] = (x \div 2^1) % 2 /\ b[5] = (x \div 2^0) % 2
    BY DEF BitsOf
  <2> HIDE DEF b
  <2>3. Value(b) = 16 * b[1] + 8 * b[2] + 4 * b[3] + 2 * b[4] + b[5]
    BY <2>1, ValueOf
  <2>4. Value(b) = 16 * ((x \div 16) % 2) + 8 * ((x \div 8) % 2) + 4 * ((x \div 4) % 2)
                     + 2 * ((x \div 2) % 2) + ((x \div 1) % 2)
    BY <2>2, <2>3, Powers
  <2> HIDE <2>2
  <2> QED
    BY <1>2, <2>4 DEF b
<1>3. ASSUME x \in 0..15
      PROVE  Value(BitsOf(x, 4)) = x
  <2> DEFINE b == BitsOf(x, 4)
  <2>1. b \in Seq({0, 1}) /\ Len(b) = 4
    BY BitsOfType
  <2>2. /\ b[1] = (x \div 2^3) % 2 /\ b[2] = (x \div 2^2) % 2
        /\ b[3] = (x \div 2^1) % 2 /\ b[4] = (x \div 2^0) % 2
    BY DEF BitsOf
  <2> HIDE DEF b
  <2>3. Value(b) = 8 * b[1] + 4 * b[2] + 2 * b[3] + b[4]
    BY <2>1, ValueOf
  <2>4. Value(b) = 8 * ((x \div 8) % 2) + 4 * ((x \div 4) % 2) + 2 * ((x \div 2) % 2)
                     + ((x \div 1) % 2)
    BY <2>2, <2>3, Powers
  <2> QED
    BY <1>3, <2>4 DEF b
<1> QED
  BY <1>1, <1>2, <1>3

(* The bits of a byte make that byte.                                      *)
LEMMA BytesBack ==
  ASSUME NEW s \in Seq(0..255), NEW i \in 1..Len(s), NEW b,
         b = [n \in 1..8 |-> Bit(s, 8 * i - 8 + n - 1)]
  PROVE  Value(b) = s[i]
<1> DEFINE x == s[i]
           m == Len(s)
<1>1. x \in 0..255
  BY ElementOfSeq
<1>2. m \in Nat /\ i \in 1..m
  OBVIOUS
<1>3. ASSUME NEW n \in 1..8
      PROVE  b[n] = (x \div 2^(8 - n)) % 2
  <2> DEFINE k == 8 * i - 8 + n - 1
  <2>1. b[n] = Bit(s, k)
    OBVIOUS
  <2> HIDE DEF m
  <2>2. k < 8 * m /\ k \div 8 + 1 = i /\ 7 - (k % 8) = 8 - n
    BY <1>2
  <2> HIDE DEF k
  <2> QED
    BY <2>1, <2>2, BitIs DEF m
<1>4. b = BitsOf(x, 8)
  <2>1. b = [n \in 1..8 |-> b[n]]
    OBVIOUS
  <2> HIDE DEF x
  <2> QED
    BY <1>3, <2>1 DEF BitsOf
<1> HIDE DEF x
<1>5. x \in Nat
  BY <1>1
<1>6. Value(BitsOf(x, 8)) = x
  BY <1>5, <1>1, BitsOfBack
<1> QED
  BY <1>4, <1>6 DEF x

-----------------------------------------------------------------------------
(* Bits that stand in the data from bit p on.                              *)

(* The bits stand in the data from bit p on.                               *)
At(data, p, bits) == \A i \in 1..Len(bits) : Bit(data, p + i - 1) = bits[i]

(* Of two sequences one behind the other, the second begins where the      *)
(* first ends.                                                             *)
LEMMA AtParts ==
  ASSUME NEW s \in Seq({0, 1}), NEW t \in Seq({0, 1}), NEW data, NEW p \in Nat,
         At(data, p, s \o t)
  PROVE  /\ At(data, p, s)
         /\ At(data, p + Len(s), t)
         /\ s \o t \in Seq({0, 1})
         /\ Len(s \o t) = Len(s) + Len(t)
<1> DEFINE m == Len(s)
           n == Len(t)
           u == s \o t
<1>1. m \in Nat /\ n \in Nat
  OBVIOUS
<1>2. u \in Seq({0, 1}) /\ Len(u) = m + n
  BY ConcatProperties
<1>3. \A i \in 1..m : u[i] = s[i]
  BY ConcatProperties
<1>4. \A i \in 1..n : u[m + i] = t[i]
  <2>1. \A j \in 1..(m + n) : u[j] = IF j <= m THEN s[j] ELSE t[j - m]
    BY ConcatProperties
  <2> HIDE DEF u, m, n
  <2> TAKE i \in 1..n
  <2>2. m + i \in 1..(m + n) /\ ~(m + i <= m) /\ (m + i) - m = i
    BY <1>1
  <2> QED
    BY <2>1, <2>2
<1>5. \A i \in 1..(m + n) : Bit(data, p + i - 1) = u[i]
  BY <1>2 DEF At
<1> HIDE DEF u, m, n
<1>6. \A i \in 1..m : Bit(data, p + i - 1) = s[i]
  BY <1>1, <1>3, <1>5
<1>7. \A i \in 1..n : Bit(data, (p + m) + i - 1) = t[i]
  <2> TAKE i \in 1..n
  <2>1. m + i \in 1..(m + n) /\ (p + m) + i - 1 = p + (m + i) - 1
    BY <1>1
  <2> QED
    BY <1>4, <1>5, <2>1
<1> QED
  BY <1>2, <1>6, <1>7 DEF At, u, m, n

(* They are some, and end inside the data.                                 *)
Within(data, p, bits) == Len(bits) > 0 /\ p + Len(bits) <= 8 * Len(data)

(* br_read_bits reads the number they make.                                *)
LEMMA ReadAt ==
  ASSUME NEW data \in Seq(0..255), NEW p \in Nat, NEW bits \in Seq({0, 1}),
         At(data, p, bits), Within(data, p, bits)
  PROVE  Read(data, p, Len(bits)) = Value(bits)
<1> DEFINE w == Len(bits)
           l == 8 * Len(data)
<1>1. w \in Nat /\ l \in Nat
  OBVIOUS
<1>2. bits = [n \in 1..w |-> Bit(data, p + n - 1)]
  <2>1. bits = [n \in 1..w |-> bits[n]]
    OBVIOUS
  <2> QED
    BY <2>1 DEF At
<1>3. Word(data, p, w) = Value(bits)
  BY <1>2 DEF Word
<1> HIDE DEF w
<1>4. Read(data, p, w) = Word(data, p, w)
  <2>1. w > 0 /\ p + w <= l
    BY DEF Within, w
  <2> HIDE DEF l
  <2>2. ~(p >= l) /\ ~(p + w > l)
    BY <1>1, <2>1
  <2> QED
    BY <2>2 DEF Read, l
<1> QED
  BY <1>3, <1>4 DEF w

(* The bits of bytes are bits, eight for each.                             *)
LEMMA BytesToBitsType ==
  ASSUME NEW s \in Seq(0..255)
  PROVE  /\ BytesToBits(s) \in Seq({0, 1})
         /\ Len(BytesToBits(s)) = 8 * Len(s)
         /\ \A k \in 1..(8 * Len(s)) : BytesToBits(s)[k] = Bit(s, k - 1)
<1>1. 8 * Len(s) \in Nat
  OBVIOUS
<1> DEFINE n == 8 * Len(s)
<1> HIDE DEF n
<1>2. \A k \in 1..n : Bit(s, k - 1) \in {0, 1}
  BY <1>1, BitRange DEF n
<1>3. BytesToBits(s) = [k \in 1..n |-> Bit(s, k - 1)]
  BY DEF BytesToBits, n
<1> QED
  BY <1>1, <1>2, <1>3 DEF n

(* A slice with the bytes of t, one by one, is t.                          *)
LEMMA SliceIs ==
  ASSUME NEW data \in Seq(0..255), NEW t \in Seq(0..255), NEW a \in Nat,
         a + Len(t) <= Len(data), \A i \in 1..Len(t) : data[a + i] = t[i]
  PROVE  Slice(data, a, Len(t)) = t
<1> DEFINE n == Len(t)
           l == Len(data)
           p == a + 1
           q == a + n
           u == SubSeq(data, p, q)
<1>1. n \in Nat /\ l \in Nat /\ a + n <= l
  OBVIOUS
<1>2. t = [i \in 1..n |-> t[i]]
  OBVIOUS
<1>3. \A i \in 1..n : data[a + i] = t[i]
  OBVIOUS
<1> HIDE DEF n, l
<1>4. p \in Int /\ q \in Int /\ n = (IF p <= q THEN q - p + 1 ELSE 0) /\ q - p + 1 = n
  BY <1>1
<1>5. \A i \in 1..n : p + i - 1 = a + i
  BY <1>1
<1>6. \A i \in p..q : i \in 1..l
  BY <1>1
<1>7. \A i \in p..q : data[i] \in 0..255
  BY <1>6, ElementOfSeq DEF l
<1> HIDE DEF p, q
<1>8. u \in Seq(0..255) /\ Len(u) = n /\ \A i \in 1..n : u[i] = data[p + i - 1]
  BY <1>4, <1>7, SubSeqProperties
<1> HIDE DEF u
<1>9. u = [i \in 1..n |-> u[i]]
  BY <1>8
<1>10. u = t
  BY <1>2, <1>3, <1>5, <1>8, <1>9
<1> QED
  BY <1>10 DEF Slice, u, p, q, n

(* Bytes whose bits stand in the data from a byte on are a slice of it.    *)
LEMMA SliceAt ==
  ASSUME NEW data \in Seq(0..255), NEW bytes \in Seq(0..255), NEW a \in Nat,
         At(data, 8 * a, BytesToBits(bytes)), a + Len(bytes) <= Len(data)
  PROVE  Slice(data, a, Len(bytes)) = bytes
<1> DEFINE n == Len(bytes)
           l == Len(data)
<1>1. n \in Nat /\ l \in Nat /\ a + n <= l
  OBVIOUS
<1>2. \A k \in 1..(8 * n) : Bit(data, 8 * a + k - 1) = Bit(bytes, k - 1)
  BY BytesToBitsType DEF At
<1>3. ASSUME NEW i \in 1..n
      PROVE  data[a + i] = bytes[i]
  <2> DEFINE b == [j \in 1..8 |-> Bit(bytes, 8 * i - 8 + j - 1)]
             d == [j \in 1..8 |-> Bit(data, 8 * (a + i) - 8 + j - 1)]
  <2>1. ASSUME NEW j \in 1..8
        PROVE  Bit(data, 8 * (a + i) - 8 + j - 1) = Bit(bytes, 8 * i - 8 + j - 1)
    <3> HIDE DEF n, l
    <3>1. 8 * i - 8 + j \in 1..(8 * n)
      BY <1>1
    <3>2. 8 * a + (8 * i - 8 + j) - 1 = 8 * (a + i) - 8 + j - 1
      BY <1>1
    <3> QED
      BY <1>2, <3>1, <3>2
  <2>2. b = d
    BY <2>1
  <2>3. a + i \in 1..l
    <3> HIDE DEF n, l
    <3> QED
      BY <1>1
  <2> HIDE DEF b, d
  <2>4. Value(b) = bytes[i]
    BY BytesBack DEF b
  <2>5. Value(d) = data[a + i]
    BY <2>3, BytesBack DEF d
  <2> QED
    BY <2>2, <2>4, <2>5
<1> QED
  BY <1>1, <1>3, SliceIs

-----------------------------------------------------------------------------
(* hm_binary_encode and hm_binary_decode.                                  *)

(* Bits packed by eight are the bits of the bytes.                         *)
LEMMA PackedBits ==
  ASSUME NEW bits \in Seq({0, 1}), NEW L \in Nat, Len(bits) = 8 * L, NEW data,
         data = [i \in 1..L |-> Value(SubSeq(bits, 8 * i - 7, 8 * i))]
  PROVE  data \in Seq(0..255) /\ Len(data) = L /\ At(data, 0, bits)
<1>1. ASSUME NEW i \in 1..L
      PROVE  /\ data[i] \in 0..255
             /\ \A j \in 1..8 : (data[i] \div 2^(8 - j)) % 2 = bits[8 * i - 8 + j]
  <2> DEFINE p == 8 * i - 7
             q == 8 * i
             u == SubSeq(bits, p, q)
  <2>1. p \in Int /\ q \in Int /\ p <= q /\ q - p + 1 = 8
    OBVIOUS
  <2>2. \A j \in p..q : bits[j] \in {0, 1}
    <3>1. \A j \in p..q : j \in 1..(8 * L)
      OBVIOUS
    <3> QED
      BY <3>1, ElementOfSeq
  <2>3. \A j \in 1..8 : p + j - 1 = 8 * i - 8 + j
    OBVIOUS
  <2>4. data[i] = Value(u)
    OBVIOUS
  <2> HIDE DEF p, q
  <2>5. u \in Seq({0, 1}) /\ Len(u) = 8 /\ \A j \in 1..8 : u[j] = bits[p + j - 1]
    BY <2>1, <2>2, SubSeqProperties
  <2> HIDE DEF u
  <2>6. /\ Value(u) \in 0..255
        /\ \A j \in 1..8 : (Value(u) \div 2^(8 - j)) % 2 = u[j]
    BY <2>5, BitsBack
  <2> QED
    BY <2>3, <2>4, <2>5, <2>6
<1>2. data \in Seq(0..255) /\ Len(data) = L
  BY <1>1
<1>3. ASSUME NEW k \in 1..(8 * L)
      PROVE  Bit(data, 0 + k - 1) = bits[k]
  <2> DEFINE i == (k - 1) \div 8 + 1
             j == ((k - 1) % 8) + 1
             e == 7 - ((k - 1) % 8)
  <2>1. i \in 1..L /\ j \in 1..8 /\ 8 * i - 8 + j = k /\ 8 - j = e /\ 0 + k - 1 = k - 1
    OBVIOUS
  <2>2. k - 1 < 8 * Len(data)
    BY <1>2
  <2>3. Bit(data, k - 1) = (data[i] \div 2^e) % 2
    BY <2>2, BitIs
  <2> HIDE DEF i, j, e
  <2>4. (data[i] \div 2^(8 - j)) % 2 = bits[8 * i - 8 + j]
    BY <1>1, <2>1
  <2> QED
    BY <2>1, <2>3, <2>4
<1> QED
  BY <1>2, <1>3 DEF At

(* The marker is found where the first 1 stands.                           *)
LEMMA MarkerFound ==
  ASSUME NEW data \in Seq(0..255), NEW p \in Nat, p + 1 < 8 * Len(data),
         Bit(data, p) = 1, \A k \in 0..(p - 1) : Bit(data, k) = 0
  PROVE  DecodeFrame(data) = DecodeAfter(data, p)
<1> DEFINE l == 8 * Len(data)
           ones == {k \in 0..(l - 1) : Word(data, k, 1) = 1}
<1>1. l \in Nat /\ p + 1 < l
  OBVIOUS
<1>2. ASSUME NEW k \in Nat
      PROVE  Word(data, k, 1) = Bit(data, k)
  <2> DEFINE b == [n \in 1..1 |-> Bit(data, k + n - 1)]
  <2>1. Bit(data, k) \in {0, 1}
    BY BitRange
  <2>2. b \in Seq({0, 1}) /\ Len(b) = 1 /\ b[1] = Bit(data, k)
    BY <2>1
  <2> HIDE DEF b
  <2>3. Value(b) = b[1]
    BY <2>2, ValueOf
  <2> QED
    BY <2>2, <2>3 DEF Word, b
<1> HIDE DEF l
<1>3. p \in ones
  BY <1>1, <1>2
<1>4. \A k \in ones : k \in Nat /\ p <= k
  <2> TAKE k \in ones
  <2>1. k \in Nat /\ Bit(data, k) = 1
    BY <1>1, <1>2
  <2>2. ~(k \in 0..(p - 1))
    BY <2>1
  <2> QED
    BY <2>1, <2>2
<1>5. DecodeFrame(data) = IF \A k \in ones : k = l - 1 THEN NoFrame
                          ELSE DecodeAfter(data, CHOOSE k \in ones : \A m \in ones : k <= m)
  BY DEF DecodeFrame, l
<1> HIDE DEF ones
<1>6. ~(\A k \in ones : k = l - 1)
  BY <1>1, <1>3
<1>7. (CHOOSE k \in ones : \A m \in ones : k <= m) = p
  <2> DEFINE c == CHOOSE k \in ones : \A m \in ones : k <= m
  <2>1. c \in ones /\ \A m \in ones : c <= m
    BY <1>3, <1>4
  <2> HIDE DEF c
  <2>2. c = p
    BY <1>3, <1>4, <2>1
  <2> QED
    BY <2>2 DEF c
<1> QED
  BY <1>5, <1>6, <1>7

(* Whatever the bytes, what hm_binary_decode points at lies in them.       *)
LEMMA DecodeInside ==
  ASSUME NEW data \in Seq(0..255), DecodeFrame(data).ok
  PROVE  LET f == DecodeFrame(data) IN
         /\ f.metaLen > 0 => f.metaAt + f.metaLen <= Len(data)
         /\ f.payLen > 0 => f.payAt + f.payLen <= Len(data)
<1> DEFINE l == 8 * Len(data)
           ones == {k \in 0..(l - 1) : Word(data, k, 1) = 1}
           marker == CHOOSE k \in ones : \A m \in ones : k <= m
<1>1. Len(data) \in Nat /\ l \in Nat
  OBVIOUS
<1> HIDE DEF l
<1>2. DecodeFrame(data) = IF \A k \in ones : k = l - 1 THEN NoFrame
                          ELSE DecodeAfter(data, marker)
  BY DEF DecodeFrame, l
<1>3. ones \in SUBSET Nat
  BY <1>1
<1> HIDE DEF ones
<1>4. ~(\A k \in ones : k = l - 1)
  BY <1>2 DEF NoFrame
<1>5. marker \in Nat
  <2>1. ones # {}
    BY <1>4
  <2>2. PICK k \in ones : \A m \in ones : k <= m
    BY <1>3, <2>1, Least
  <2>3. marker \in ones
    BY <2>2
  <2> QED
    BY <1>3, <2>3
<1> HIDE DEF marker
<1> DEFINE versioned == Read(data, marker + 1, 1) = 1
           head      == marker + 1 + HeadBits(versioned)
           type      == Read(data, head, 5)
           metaLen   == Read(data, head + 6, 8)
           metaAt    == head + 14
           binAt     == metaAt + 8 * metaLen
           payAt     == IF type = BINARY THEN binAt + 4 ELSE binAt
           n         == Len(data)
<1>6. DecodeAfter(data, marker) =
        IF \/ metaLen > 0 /\ ~Readable(data, metaAt, metaLen)
           \/ payAt % 8 # 0
        THEN NoFrame
        ELSE [ok |-> TRUE, type |-> type,
              bin |-> IF type = BINARY THEN Read(data, binAt, 4) ELSE 0,
              metaAt |-> metaAt \div 8, metaLen |-> metaLen,
              payAt  |-> payAt \div 8,
              payLen |-> IF payAt \div 8 < n THEN n - payAt \div 8 ELSE 0]
  BY DEF DecodeAfter
<1>7. head \in Nat
  BY <1>5 DEF HeadBits
<1> HIDE DEF head
<1>8. metaLen \in Nat
  <2>1. head + 6 \in Nat
    BY <1>7
  <2> QED
    BY <2>1, ReadType
<1> HIDE DEF metaLen, type
<1>9. metaAt \in Nat /\ payAt \in Nat
  BY <1>7, <1>8
<1> HIDE DEF metaAt, binAt, payAt, n
<1>10. DecodeFrame(data) = DecodeAfter(data, marker)
  BY <1>2, <1>4
<1>11. ~(metaLen > 0 /\ ~Readable(data, metaAt, metaLen)) /\ payAt % 8 = 0
  BY <1>6, <1>10 DEF NoFrame
<1> DEFINE f == DecodeFrame(data)
<1>12. /\ f.metaLen = metaLen /\ f.metaAt = metaAt \div 8 /\ f.payAt = payAt \div 8
       /\ f.payLen = IF payAt \div 8 < n THEN n - payAt \div 8 ELSE 0
  BY <1>6, <1>10, <1>11
<1> HIDE DEF f
<1>13. f.metaLen > 0 => f.metaAt + f.metaLen <= n
  BY <1>11, <1>12 DEF Readable, n
<1>14. f.payLen > 0 => f.payAt + f.payLen <= n
  <2>1. payAt \div 8 \in Int /\ n \in Int
    BY <1>1, <1>9 DEF n
  <2> QED
    BY <1>12, <2>1
<1> QED
  BY <1>13, <1>14 DEF f, n

(* Where the parts of a frame stand: h bits to the type, q of bintype, and *)
(* as many zeros in front.                                                 *)
HeadLen(f) == IF f.versioned THEN 10 ELSE 2
BinLen(f)  == IF f.type = BINARY THEN 4 ELSE 0
MetaLen(f) == Len(f.meta)
PayLen(f)  == Len(f.payload)

(* The data is laid out like the frame f.                                  *)
Laid(f, data, h, q, m, n) ==
  /\ data \in Seq(0..255)
  /\ 8 * Len(data) = q + h + 14 + 8 * m + q + 8 * n
  /\ \A k \in 0..(q - 1) : Bit(data, k) = 0
  /\ Bit(data, q) = 1
  /\ Bit(data, q + 1) = (IF f.versioned THEN 1 ELSE 0)
  /\ At(data, q + h, BitsOf(f.type, 5))
  /\ At(data, q + h + 6, BitsOf(m, 8))
  /\ At(data, q + h + 14, BytesToBits(f.meta))
  /\ f.type = BINARY => At(data, q + h + 14 + 8 * m, BitsOf(f.bin, 4))
  /\ At(data, q + h + 14 + 8 * m + q, BytesToBits(f.payload))

(* hm_binary_encode lays it out so.                                        *)
LEMMA FrameLayout ==
  ASSUME NEW f \in FrameType, NEW data, data = FrameOf(f),
         NEW h \in Nat, h = HeadLen(f), NEW q \in Nat, q = BinLen(f),
         NEW m \in Nat, m = MetaLen(f), NEW n \in Nat, n = PayLen(f)
  PROVE  Laid(f, data, h, q, m, n)
<1> DEFINE one  == <<1>>
           flag == IF f.versioned THEN <<1>> \o BitsOf(1, 8) ELSE <<0>>
           type == BitsOf(f.type, 5)
           no   == <<0>>
           ml   == BitsOf(m, 8)
           meta == BytesToBits(f.meta)
           bin  == IF f.type = BINARY THEN BitsOf(f.bin, 4) ELSE <<>>
           pay  == BytesToBits(f.payload)
           zeros == [i \in 1..Rest(Len(Content(f)), 8) |-> 0]
<1>1. /\ f.type \in 0..13 /\ f.bin \in 0..6 /\ f.versioned \in BOOLEAN
      /\ f.meta \in Seq(0..255) /\ f.payload \in Seq(0..255) /\ m <= 255
  BY DEF FrameType, MsgTypes, BinTypes, MetaLen
<1>2. m \in Nat /\ n \in Nat /\ q \in {0, 4} /\ h \in {2, 10}
  BY <1>1 DEF HeadLen, BinLen
<1>3. one \in Seq({0, 1}) /\ Len(one) = 1 /\ one[1] = 1
  OBVIOUS
<1>4. no \in Seq({0, 1}) /\ Len(no) = 1
  OBVIOUS
<1>5. flag \in Seq({0, 1}) /\ Len(flag) = h - 1 /\ flag[1] = IF f.versioned THEN 1 ELSE 0
  <2>1. CASE f.versioned
    <3> DEFINE v == BitsOf(1, 8)
               w == one \o v
    <3>1. v \in Seq({0, 1}) /\ Len(v) = 8
      BY BitsOfType
    <3> HIDE DEF v, one
    <3>2. w \in Seq({0, 1}) /\ Len(w) = Len(one) + Len(v)
      BY <1>3, <3>1, ConcatProperties
    <3>3. w[1] = one[1]
      <4>1. 1 \in 1..(Len(one) + Len(v)) /\ 1 <= Len(one)
        BY <1>3, <3>1
      <4> QED
        BY <1>3, <3>1, <4>1, ConcatProperties
    <3>4. flag = w
      BY <2>1 DEF one, v
    <3>5. h - 1 = 9
      BY <2>1 DEF HeadLen
    <3> HIDE DEF w, flag
    <3> QED
      BY <1>3, <2>1, <3>1, <3>2, <3>4, <3>5, <3>3
  <2>2. CASE ~f.versioned
    BY <2>2 DEF HeadLen
  <2> QED
    BY <2>1, <2>2
<1>6. type \in Seq({0, 1}) /\ Len(type) = 5
  <2>1. f.type \in Nat
    BY <1>1
  <2> QED
    BY <2>1, BitsOfType
<1>7. ml \in Seq({0, 1}) /\ Len(ml) = 8
  BY <1>2, BitsOfType
<1>8. meta \in Seq({0, 1}) /\ Len(meta) = 8 * m
  BY <1>1, BytesToBitsType DEF MetaLen
<1>9. bin \in Seq({0, 1}) /\ Len(bin) = q
  <2>1. CASE f.type = BINARY
    <3>1. BitsOf(f.bin, 4) \in Seq({0, 1}) /\ Len(BitsOf(f.bin, 4)) = 4
      BY <1>1, BitsOfType
    <3> QED
      BY <2>1, <3>1 DEF BinLen
  <2>2. CASE f.type # BINARY
    BY <2>2 DEF BinLen
  <2> QED
    BY <2>1, <2>2
<1>10. pay \in Seq({0, 1}) /\ Len(pay) = 8 * n
  BY <1>1, BytesToBitsType DEF PayLen
<1>11. Content(f) = one \o flag \o type \o no \o ml \o meta \o bin \o pay
  BY DEF Content, MetaLen
<1> HIDE DEF one, flag, type, no, ml, meta, bin, pay
<1> DEFINE c1 == one \o flag
           c2 == c1 \o type
           c3 == c2 \o no
           c4 == c3 \o ml
           c5 == c4 \o meta
           c6 == c5 \o bin
           c  == c6 \o pay
           l  == h + 14 + 8 * m + q + 8 * n
<1>12. Content(f) = c
  BY <1>11
<1>13. c1 \in Seq({0, 1}) /\ Len(c1) = Len(one) + Len(flag)
  BY <1>3, <1>5, ConcatProperties
<1> HIDE DEF c1
<1>14. c2 \in Seq({0, 1}) /\ Len(c2) = Len(c1) + Len(type)
  BY <1>6, <1>13, ConcatProperties
<1> HIDE DEF c2
<1>15. c3 \in Seq({0, 1}) /\ Len(c3) = Len(c2) + Len(no)
  BY <1>4, <1>14, ConcatProperties
<1> HIDE DEF c3
<1>16. c4 \in Seq({0, 1}) /\ Len(c4) = Len(c3) + Len(ml)
  BY <1>7, <1>15, ConcatProperties
<1> HIDE DEF c4
<1>17. c5 \in Seq({0, 1}) /\ Len(c5) = Len(c4) + Len(meta)
  BY <1>8, <1>16, ConcatProperties
<1> HIDE DEF c5
<1>18. c6 \in Seq({0, 1}) /\ Len(c6) = Len(c5) + Len(bin)
  BY <1>9, <1>17, ConcatProperties
<1> HIDE DEF c6
<1>19. c \in Seq({0, 1}) /\ Len(c) = Len(c6) + Len(pay)
  BY <1>10, <1>18, ConcatProperties
<1> HIDE DEF c
<1>20. /\ Len(c1) = h
      /\ Len(c3) = h + 6
      /\ Len(c4) = h + 14
      /\ Len(c5) = h + 14 + 8 * m
      /\ Len(c6) = h + 14 + 8 * m + q
  <2>1. Len(c1) = h
    BY <1>2, <1>3, <1>5, <1>13
  <2>2. Len(c2) = h + 5
    BY <1>2, <1>6, <1>14, <2>1
  <2>3. Len(c3) = h + 6
    BY <1>2, <1>4, <1>15, <2>2
  <2>4. Len(c4) = h + 14
    BY <1>2, <1>7, <1>16, <2>3
  <2>5. Len(c5) = h + 14 + 8 * m
    BY <1>8, <1>17, <2>4
  <2>6. Len(c6) = h + 14 + 8 * m + q
    BY <1>9, <1>18, <2>5
  <2> QED
    BY <2>1, <2>3, <2>4, <2>5, <2>6
<1>21. c \in Seq({0, 1}) /\ Len(c) = l
  BY <1>10, <1>19, <1>20
<1>22. Rest(l, 8) = q /\ (q + l) \div 8 \in Nat /\ q + l = 8 * ((q + l) \div 8)
  <2>1. PICK k \in Nat : l = 8 * k + q
    <3>1. CASE h = 2
      <4>1. m + n + 2 \in Nat /\ l = 8 * (m + n + 2) + q
        BY <3>1
      <4> QED
        BY <4>1
    <3>2. CASE h = 10
      <4>1. m + n + 3 \in Nat /\ l = 8 * (m + n + 3) + q
        BY <3>2
      <4> QED
        BY <4>1
    <3> QED
      BY <1>2, <3>1, <3>2
  <2> HIDE DEF l
  <2>2. l % 8 = q /\ (q = 0 => q + l = 8 * k) /\ (q = 4 => q + l = 8 * (k + 1))
    BY <1>2, <2>1
  <2>3. Rest(l, 8) = q
    BY <1>2, <2>2 DEF Rest
  <2>4. CASE q = 0
    <3>1. (q + l) \div 8 = k
      BY <2>1, <2>2, <2>4
    <3> QED
      BY <2>2, <2>3, <2>4, <3>1
  <2>5. CASE q = 4
    <3>1. (q + l) \div 8 = k + 1
      BY <2>1, <2>2, <2>5
    <3> QED
      BY <2>2, <2>3, <2>5, <3>1
  <2> QED
    BY <1>2, <2>4, <2>5
<1>23. /\ q + (h + 6) = q + h + 6
      /\ q + (h + 14) = q + h + 14
      /\ q + (h + 14 + 8 * m) = q + h + 14 + 8 * m
      /\ q + (h + 14 + 8 * m + q) = q + h + 14 + 8 * m + q
      /\ q + l = q + h + 14 + 8 * m + q + 8 * n
  OBVIOUS
<1> HIDE DEF l
<1>24. zeros \in Seq({0, 1}) /\ Len(zeros) = q /\ \A i \in 1..q : zeros[i] = 0
  <2>1. zeros = [i \in 1..q |-> 0]
    BY <1>21, <1>12, <1>22
  <2> HIDE DEF zeros
  <2> QED
    BY <1>2, <2>1
<1> DEFINE bits == zeros \o c
           L    == (q + l) \div 8
<1> HIDE DEF zeros
<1>25. bits \in Seq({0, 1}) /\ Len(bits) = q + l
  BY <1>21, <1>24, ConcatProperties
<1>26. data = [i \in 1..(Len(bits) \div 8) |-> Value(SubSeq(bits, 8 * i - 7, 8 * i))]
  BY <1>12 DEF FrameOf, zeros
<1> HIDE DEF bits
<1>27. L \in Nat /\ Len(bits) = 8 * L
  BY <1>22, <1>25
<1>28. data = [i \in 1..L |-> Value(SubSeq(bits, 8 * i - 7, 8 * i))]
  BY <1>25, <1>26
<1> HIDE DEF L
<1>29. data \in Seq(0..255) /\ Len(data) = L /\ At(data, 0, bits)
  BY <1>25, <1>27, <1>28, PackedBits
<1>30. At(data, 0, zeros) /\ At(data, q, c)
  <2>1. At(data, 0, zeros \o c)
    BY <1>29 DEF bits
  <2>2. At(data, 0, zeros) /\ At(data, 0 + Len(zeros), c)
    BY <1>21, <1>24, <2>1, AtParts
  <2>3. 0 + Len(zeros) = q
    BY <1>2, <1>24
  <2> QED
    BY <2>2, <2>3
<1>31. /\ At(data, q, one)
       /\ At(data, q + 1, flag)
       /\ At(data, q + h, type)
       /\ At(data, q + (h + 6), ml)
       /\ At(data, q + (h + 14), meta)
       /\ At(data, q + (h + 14 + 8 * m), bin)
       /\ At(data, q + (h + 14 + 8 * m + q), pay)
  <2>1. q \in Nat /\ At(data, q, c)
    BY <1>2, <1>30
  <2>2. At(data, q, c6) /\ At(data, q + Len(c6), pay)
    BY <1>10, <1>18, <2>1, AtParts DEF c
  <2>3. At(data, q, c5) /\ At(data, q + Len(c5), bin)
    BY <1>9, <1>17, <2>1, <2>2, AtParts DEF c6
  <2>4. At(data, q, c4) /\ At(data, q + Len(c4), meta)
    BY <1>8, <1>16, <2>1, <2>3, AtParts DEF c5
  <2>5. At(data, q, c3) /\ At(data, q + Len(c3), ml)
    BY <1>7, <1>15, <2>1, <2>4, AtParts DEF c4
  <2>6. At(data, q, c2)
    BY <1>4, <1>14, <2>1, <2>5, AtParts DEF c3
  <2>7. At(data, q, c1) /\ At(data, q + Len(c1), type)
    BY <1>6, <1>13, <2>1, <2>6, AtParts DEF c2
  <2>8. At(data, q, one) /\ At(data, q + Len(one), flag)
    BY <1>3, <1>5, <2>1, <2>7, AtParts DEF c1
  <2>9. /\ q + Len(c1) = q + h
        /\ q + Len(c3) = q + (h + 6)
        /\ q + Len(c4) = q + (h + 14)
        /\ q + Len(c5) = q + (h + 14 + 8 * m)
        /\ q + Len(c6) = q + (h + 14 + 8 * m + q)
    BY <1>20
  <2> QED
    BY <1>3, <2>2, <2>3, <2>4, <2>5, <2>7, <2>8, <2>9
<1>32. \A k \in 0..(q - 1) : Bit(data, k) = 0
  <2> TAKE k \in 0..(q - 1)
  <2>1. k + 1 \in 1..q /\ 0 + (k + 1) - 1 = k
    BY <1>2
  <2>2. \A i \in 1..q : Bit(data, 0 + i - 1) = 0
    BY <1>24, <1>30 DEF At
  <2> QED
    BY <2>1, <2>2
<1>33. Bit(data, q) = 1
  <2>1. 1 \in 1..Len(one) /\ q + 1 - 1 = q
    BY <1>2, <1>3
  <2> QED
    BY <1>3, <1>31, <2>1 DEF At
<1>34. Bit(data, q + 1) = IF f.versioned THEN 1 ELSE 0
  <2>1. 1 \in 1..Len(flag) /\ (q + 1) + 1 - 1 = q + 1
    BY <1>2, <1>5
  <2> QED
    BY <1>5, <1>31, <2>1 DEF At
<1>35. /\ At(data, q + h, type)
       /\ At(data, q + h + 6, ml)
       /\ At(data, q + h + 14, meta)
       /\ At(data, q + h + 14 + 8 * m, bin)
       /\ At(data, q + h + 14 + 8 * m + q, pay)
  BY <1>31, <1>23
<1>36. 8 * Len(data) = q + h + 14 + 8 * m + q + 8 * n
  BY <1>25, <1>27, <1>29, <1>23
<1> QED
  BY <1>29, <1>32, <1>33, <1>34, <1>35, <1>36 DEF Laid, type, ml, meta, bin, pay

(* What hm_binary_decode reads where the parts stand.                      *)
LEMMA FrameRead ==
  ASSUME NEW f \in FrameType, NEW data, data = FrameOf(f),
         NEW h \in Nat, h = HeadLen(f), NEW q \in Nat, q = BinLen(f),
         NEW m \in Nat, m = MetaLen(f), NEW n \in Nat, n = PayLen(f)
  PROVE  /\ DecodeFrame(data) = DecodeAfter(data, q)
         /\ (Read(data, q + 1, 1) = 1) = f.versioned
         /\ Read(data, q + h, 5) = f.type
         /\ Read(data, q + h + 6, 8) = m
         /\ f.type = BINARY => Read(data, q + h + 14 + 8 * m, 4) = f.bin
<1>1. /\ f.type \in 0..13 /\ f.bin \in 0..6 /\ f.versioned \in BOOLEAN /\ m \in 0..255
  <2>1. /\ f.type \in 0..13 /\ f.bin \in 0..6 /\ f.versioned \in BOOLEAN
        /\ Len(f.meta) <= 255
    BY DEF FrameType, MsgTypes, BinTypes
  <2>2. m <= 255
    BY <2>1 DEF MetaLen
  <2>3. m \in 0..255
    BY <2>2
  <2> QED
    BY <2>1, <2>3
<1>2. h \in {2, 10} /\ q \in {0, 4} /\ (f.type = BINARY => q = 4)
  BY <1>1 DEF HeadLen, BinLen
<1>3. /\ data \in Seq(0..255)
      /\ 8 * Len(data) = q + h + 14 + 8 * m + q + 8 * n
      /\ \A k \in 0..(q - 1) : Bit(data, k) = 0
      /\ Bit(data, q) = 1
      /\ Bit(data, q + 1) = (IF f.versioned THEN 1 ELSE 0)
      /\ At(data, q + h, BitsOf(f.type, 5))
      /\ At(data, q + h + 6, BitsOf(m, 8))
      /\ f.type = BINARY => At(data, q + h + 14 + 8 * m, BitsOf(f.bin, 4))
  <2>1. Laid(f, data, h, q, m, n)
    BY FrameLayout
  <2> QED
    BY <2>1 DEF Laid
<1>4. data \in Seq(0..255)
  BY <1>3
<1> DEFINE total == 8 * Len(data)
<1>5. total \in Nat /\ total = q + h + 14 + 8 * m + q + 8 * n
  <2>1. q + h + 14 + 8 * m + q + 8 * n \in Nat
    OBVIOUS
  <2> QED
    BY <1>3, <2>1
<1> HIDE DEF total
<1>6. /\ q + 1 < total /\ q + 1 + 1 <= total /\ q + h + 5 <= total /\ q + h + 6 + 8 <= total
      /\ q = 4 => q + h + 14 + 8 * m + 4 <= total
  BY <1>2, <1>5
<1>7. DecodeFrame(data) = DecodeAfter(data, q)
  BY <1>3, <1>6, MarkerFound DEF total
<1>8. (Read(data, q + 1, 1) = 1) = f.versioned
  <2> DEFINE b == IF f.versioned THEN 1 ELSE 0
             s == <<b>>
  <2>1. b \in {0, 1} /\ (b = 1) = f.versioned
    BY <1>1
  <2>2. Bit(data, q + 1) = b
    BY <1>3
  <2> HIDE DEF b
  <2>3. s \in Seq({0, 1}) /\ Len(s) = 1 /\ s[1] = b
    BY <2>1
  <2>4. q + 1 \in Nat /\ (q + 1) + 1 - 1 = q + 1
    OBVIOUS
  <2> HIDE DEF s
  <2>5. At(data, q + 1, s)
    BY <2>2, <2>3, <2>4 DEF At
  <2>6. Within(data, q + 1, s)
    BY <1>6, <2>3 DEF Within, total
  <2>7. Read(data, q + 1, 1) = Value(s)
    <3>1. Read(data, q + 1, Len(s)) = Value(s)
      BY <1>4, <2>3, <2>4, <2>5, <2>6, ReadAt
    <3> QED
      BY <2>3, <3>1
  <2>8. Value(s) = b
    BY <2>3, ValueOf
  <2> QED
    BY <2>1, <2>7, <2>8
<1>9. Read(data, q + h, 5) = f.type
  <2> DEFINE s == BitsOf(f.type, 5)
  <2>1. f.type \in Nat /\ f.type \in 0..31
    BY <1>1
  <2>2. s \in Seq({0, 1}) /\ Len(s) = 5 /\ Value(s) = f.type
    BY <2>1, BitsOfType, BitsOfBack
  <2>3. q + h \in Nat
    OBVIOUS
  <2>4. At(data, q + h, s)
    BY <1>3
  <2> HIDE DEF s
  <2>5. Within(data, q + h, s)
    BY <1>6, <2>2 DEF Within, total
  <2>6. Read(data, q + h, 5) = Value(s)
    <3>1. Read(data, q + h, Len(s)) = Value(s)
      BY <1>4, <2>2, <2>3, <2>4, <2>5, ReadAt
    <3> QED
      BY <2>2, <3>1
  <2> QED
    BY <2>2, <2>6
<1>10. Read(data, q + h + 6, 8) = m
  <2> DEFINE s == BitsOf(m, 8)
  <2>1. s \in Seq({0, 1}) /\ Len(s) = 8 /\ Value(s) = m
    <3>1. BitsOf(m, 8) \in Seq({0, 1}) /\ Len(BitsOf(m, 8)) = 8
      BY BitsOfType
    <3>2. Value(BitsOf(m, 8)) = m
      BY <1>1, BitsOfBack
    <3> QED
      BY <3>1, <3>2
  <2>2. q + h + 6 \in Nat
    OBVIOUS
  <2>3. At(data, q + h + 6, s)
    BY <1>3
  <2> HIDE DEF s
  <2>4. Within(data, q + h + 6, s)
    BY <1>6, <2>1 DEF Within, total
  <2>5. Read(data, q + h + 6, 8) = Value(s)
    <3>1. Read(data, q + h + 6, Len(s)) = Value(s)
      BY <1>4, <2>1, <2>2, <2>3, <2>4, ReadAt
    <3> QED
      BY <2>1, <3>1
  <2> QED
    BY <2>1, <2>5
<1>11. ASSUME f.type = BINARY
       PROVE  Read(data, q + h + 14 + 8 * m, 4) = f.bin
  <2> DEFINE s == BitsOf(f.bin, 4)
             p == q + h + 14 + 8 * m
  <2>1. f.bin \in Nat /\ f.bin \in 0..15
    BY <1>1
  <2>2. s \in Seq({0, 1}) /\ Len(s) = 4 /\ Value(s) = f.bin
    BY <2>1, BitsOfType, BitsOfBack
  <2>3. p \in Nat /\ p + 4 <= total
    BY <1>2, <1>6, <1>11
  <2>4. At(data, p, s)
    BY <1>3, <1>11
  <2> HIDE DEF s, p
  <2>5. Within(data, p, s)
    BY <2>2, <2>3 DEF Within, total
  <2>6. Read(data, p, 4) = Value(s)
    <3>1. Read(data, p, Len(s)) = Value(s)
      BY <1>4, <2>2, <2>3, <2>4, <2>5, ReadAt
    <3> QED
      BY <2>2, <3>1
  <2> QED
    BY <2>2, <2>6 DEF p
<1> QED
  BY <1>7, <1>8, <1>9, <1>10, <1>11

(* A frame comes back as it was written, but for one of type BINARY with   *)
(* metadata, which is not on a byte and is refused.                        *)
LEMMA FrameBack ==
  ASSUME NEW f \in FrameType, NEW data, data = FrameOf(f)
  PROVE  LET d == DecodeFrame(data) IN
         IF f.type = BINARY /\ f.meta # <<>> THEN d = NoFrame
         ELSE /\ d.ok = TRUE
              /\ d.type = f.type
              /\ d.metaLen = Len(f.meta)
              /\ f.meta # <<>> => Slice(data, d.metaAt, d.metaLen) = f.meta
              /\ f.type = BINARY => /\ d.bin = f.bin
                                    /\ Slice(data, d.payAt, d.payLen) = f.payload
<1> DEFINE h == HeadLen(f)
           q == BinLen(f)
           m == MetaLen(f)
           n == PayLen(f)
           l == Len(data)
<1>1. /\ f.type \in 0..13 /\ f.versioned \in BOOLEAN
      /\ f.meta \in Seq(0..255) /\ f.payload \in Seq(0..255)
  BY DEF FrameType, MsgTypes
<1>2. /\ h \in {2, 10} /\ q \in {0, 4} /\ (f.type = BINARY <=> q = 4)
      /\ 1 + HeadBits(f.versioned) = h
  BY <1>1 DEF HeadLen, BinLen, HeadBits
<1>3. m \in Nat /\ n \in Nat /\ (f.meta # <<>> <=> m > 0)
  BY <1>1 DEF MetaLen, PayLen
<1>4. h \in Nat /\ q \in Nat
  BY <1>2
<1> HIDE DEF h, q, m, n
<1>5. /\ data \in Seq(0..255)
      /\ 8 * l = q + h + 14 + 8 * m + q + 8 * n
      /\ At(data, q + h + 14, BytesToBits(f.meta))
      /\ At(data, q + h + 14 + 8 * m + q, BytesToBits(f.payload))
  <2>1. Laid(f, data, h, q, m, n)
    BY <1>3, <1>4, FrameLayout DEF h, q, m, n
  <2> QED
    BY <2>1 DEF Laid
<1>6. /\ DecodeFrame(data) = DecodeAfter(data, q)
      /\ (Read(data, q + 1, 1) = 1) = f.versioned
      /\ Read(data, q + h, 5) = f.type
      /\ Read(data, q + h + 6, 8) = m
      /\ f.type = BINARY => Read(data, q + h + 14 + 8 * m, 4) = f.bin
  BY <1>3, <1>4, FrameRead DEF h, q, m, n
<1>7. l \in Nat
  BY <1>5
<1> DEFINE at  == q + h + 14
           bat == at + 8 * m
           pat == IF f.type = BINARY THEN bat + 4 ELSE bat
<1>8. q + 1 + HeadBits(f.versioned) = q + h
  BY <1>2, <1>4 DEF HeadBits
<1>9. DecodeFrame(data) =
        IF \/ m > 0 /\ ~Readable(data, at, m)
           \/ pat % 8 # 0
        THEN NoFrame
        ELSE [ok |-> TRUE, type |-> f.type,
              bin |-> IF f.type = BINARY THEN Read(data, bat, 4) ELSE 0,
              metaAt |-> at \div 8, metaLen |-> m,
              payAt  |-> pat \div 8,
              payLen |-> IF pat \div 8 < l THEN l - pat \div 8 ELSE 0]
  BY <1>6, <1>8 DEF DecodeAfter
<1>10. /\ at \in Nat /\ bat \in Nat /\ pat \in Nat /\ pat = at + 8 * m + q
       /\ 8 * l = pat + 8 * n
  <2>1. at \in Nat /\ bat \in Nat
    BY <1>3, <1>4
  <2>2. pat = bat + q
    BY <1>2, <2>1
  <2>3. bat = at + 8 * m
    OBVIOUS
  <2>4. 8 * l = at + 8 * m + q + 8 * n
    BY <1>5
  <2> HIDE DEF at, bat, pat, l
  <2>5. pat = at + 8 * m + q /\ pat \in Nat
    BY <1>3, <1>4, <2>1, <2>2, <2>3
  <2> QED
    BY <2>1, <2>4, <2>5
<1>11. at = 16 \/ at = 24 \/ at = 20 \/ at = 28
  BY <1>2
<1>12. q = 0 => at \in {16, 24}
  BY <1>2
<1>13. q = 4 => at \in {20, 28}
  BY <1>2
<1>14. /\ At(data, at, BytesToBits(f.meta))
       /\ At(data, pat, BytesToBits(f.payload))
  BY <1>5, <1>10
<1> HIDE DEF at, bat, pat, l
<1>15. CASE f.type = BINARY /\ f.meta # <<>>
  <2>1. m > 0 /\ at \in {20, 28}
    BY <1>2, <1>3, <1>13, <1>15
  <2>2. ~Readable(data, at, m)
    BY <2>1 DEF Readable
  <2> QED
    BY <1>9, <1>15, <2>1, <2>2
<1>16. CASE f.type = BINARY /\ f.meta = <<>>
  <2>1. m = 0 /\ q = 4 /\ pat \in {24, 32}
    BY <1>2, <1>3, <1>10, <1>13, <1>16
  <2>2. pat % 8 = 0 /\ pat \div 8 \in Nat /\ 8 * (pat \div 8) = pat /\ pat \div 8 + n = l
    BY <1>3, <1>7, <1>10, <2>1
  <2>3. (IF pat \div 8 < l THEN l - pat \div 8 ELSE 0) = n
    BY <1>3, <1>7, <2>2
  <2>4. Slice(data, pat \div 8, n) = f.payload
    <3> DEFINE a == pat \div 8
    <3>1. a \in Nat /\ At(data, 8 * a, BytesToBits(f.payload)) /\ a + n <= l
      BY <1>3, <1>7, <1>14, <2>2
    <3> HIDE DEF a
    <3>2. Slice(data, a, n) = f.payload
      BY <1>1, <1>5, <3>1, SliceAt DEF n, PayLen, l
    <3> QED
      BY <3>2 DEF a
  <2>5. Read(data, bat, 4) = f.bin
    BY <1>6, <1>16 DEF bat, at
  <2>6. Len(f.meta) = m
    BY DEF m, MetaLen
  <2> QED
    BY <1>9, <1>16, <2>1, <2>2, <2>3, <2>4, <2>5, <2>6
<1>17. CASE f.type # BINARY
  <2>1. q = 0 /\ at \in {16, 24} /\ pat = at + 8 * m
    <3>1. q = 0
      BY <1>2, <1>17
    <3> QED
      BY <1>3, <1>10, <1>12, <3>1
  <2>2. pat % 8 = 0 /\ at % 8 = 0 /\ 8 * (at \div 8) = at /\ at \div 8 \in Nat
    BY <1>3, <2>1
  <2>3. at \div 8 + m <= l
    BY <1>3, <1>7, <1>10, <2>1
  <2>4. Readable(data, at, m)
    BY <2>2, <2>3 DEF Readable, l
  <2>5. Slice(data, at \div 8, m) = f.meta
    <3> DEFINE a == at \div 8
    <3>1. a \in Nat /\ At(data, 8 * a, BytesToBits(f.meta)) /\ a + m <= l
      BY <1>14, <2>2, <2>3
    <3> HIDE DEF a
    <3>2. Slice(data, a, m) = f.meta
      BY <1>1, <1>5, <3>1, SliceAt DEF m, MetaLen, l
    <3> QED
      BY <3>2 DEF a
  <2>6. Len(f.meta) = m
    BY DEF m, MetaLen
  <2> QED
    BY <1>9, <1>17, <2>2, <2>4, <2>5, <2>6
<1> QED
  BY <1>15, <1>16, <1>17

-----------------------------------------------------------------------------
(* Words of at most 14 bits.                                               *)

(* The powers a bit of such a word stands for.                             *)
LEMMA MorePowers ==
  /\ 2^8 = 256 /\ 2^9 = 512 /\ 2^10 = 1024 /\ 2^11 = 2048
  /\ 2^12 = 4096 /\ 2^13 = 8192 /\ 2^14 = 16384
OBVIOUS

(* Each is a number, and dropping one bit more is halving.                 *)
LEMMA PowerType ==
  ASSUME NEW d \in 0..14
  PROVE  2^d \in Nat \ {0}
<1>1. CASE d \in 0..7
  BY <1>1, PowerRange
<1>2. CASE d = 8
  BY <1>2
<1>3. CASE d = 9
  BY <1>3
<1>4. CASE d = 10
  BY <1>4
<1>5. CASE d = 11
  BY <1>5
<1>6. CASE d = 12
  BY <1>6
<1>7. CASE d = 13
  BY <1>7
<1>8. CASE d = 14
  BY <1>8
<1> QED
  BY <1>1, <1>2, <1>3, <1>4, <1>5, <1>6, <1>7, <1>8

(* Dropping one bit more is halving.                                       *)
LEMMA Halving ==
  ASSUME NEW x \in Nat, NEW d \in 0..13
  PROVE  x \div 2^(d + 1) = (x \div 2^d) \div 2
<1>1. CASE d = 0
  BY <1>1, Powers
<1>2. CASE d = 1
  BY <1>2, Powers
<1>3. CASE d = 2
  BY <1>3, Powers
<1>4. CASE d = 3
  BY <1>4, Powers
<1>5. CASE d = 4
  BY <1>5, Powers
<1>6. CASE d = 5
  BY <1>6, Powers
<1>7. CASE d = 6
  BY <1>7, Powers
<1>8. CASE d = 7
  BY <1>8, Powers, MorePowers
<1>9. CASE d = 8
  BY <1>9, MorePowers
<1>10. CASE d = 9
  BY <1>10, MorePowers
<1>11. CASE d = 10
  BY <1>11, MorePowers
<1>12. CASE d = 11
  BY <1>12, MorePowers
<1>13. CASE d = 12
  BY <1>13, MorePowers
<1>14. CASE d = 13
  BY <1>14, MorePowers
<1> QED
  BY <1>1, <1>2, <1>3, <1>4, <1>5, <1>6, <1>7, <1>8, <1>9, <1>10, <1>11, <1>12, <1>13, <1>14

(* What is left of a number when its lowest d bits are dropped, d at most  *)
(* 14, is a number.                                                        *)
LEMMA ShiftType ==
  ASSUME NEW x \in Nat, NEW d \in 0..14
  PROVE  x \div 2^d \in Nat /\ (x \div 2^d) % 2 \in {0, 1}
<1> DEFINE p == 2^d
<1>1. p \in Nat \ {0}
  BY PowerType
<1> HIDE DEF p
<1>2. x \div p \in Nat
  BY <1>1
<1> DEFINE y == x \div p
<1> HIDE DEF y
<1>3. y % 2 \in {0, 1}
  BY <1>2 DEF y
<1> QED
  BY <1>2, <1>3 DEF p, y

(* What holds of 0, and of every number to n if it holds of the one        *)
(* before, holds of all of them.                                           *)
LEMMA UpTo ==
  ASSUME NEW n \in Nat, NEW T, 0 \in T, \A i \in 0..(n - 1) : i \in T => i + 1 \in T
  PROVE  \A i \in 0..n : i \in T
<1> DEFINE U == {i \in Nat : i <= n => i \in T}
<1>1. 0 \in U
  OBVIOUS
<1>2. ASSUME NEW i \in U PROVE i + 1 \in U
  <2>1. i \in Nat /\ (i <= n => i \in T)
    BY <1>2
  <2>2. i + 1 <= n => i \in 0..(n - 1) /\ i <= n
    BY <2>1
  <2> QED
    BY <2>1, <2>2
<1>3. U = Nat
  <2> HIDE DEF U
  <2>1. U \in SUBSET Nat
    BY DEF U
  <2> QED
    BY <1>1, <1>2, <2>1, Counting
<1>4. ASSUME NEW i \in 0..n PROVE i \in T
  <2>1. i \in U /\ i <= n
    BY <1>3
  <2> HIDE <1>3
  <2> QED
    BY <2>1
<1> QED
  BY <1>4

(* The numbers v that the first bits of b make.                            *)
Steps(b, v) == v = [i \in 0..Len(b) |-> IF i = 0 THEN 0 ELSE 2 * v[i - 1] + b[i]]

(* Each is a number, and comes from the one before.                        *)
LEMMA StepsAre ==
  ASSUME NEW b \in Seq({0, 1}), NEW v, Steps(b, v), NEW n \in Nat, n = Len(b)
  PROVE  /\ v[0] = 0
         /\ \A i \in 1..n : b[i] \in {0, 1} /\ v[i] = 2 * v[i - 1] + b[i]
         /\ \A i \in 0..n : v[i] \in Nat
<1>1. \A i \in 1..n : b[i] \in {0, 1}
  BY ElementOfSeq
<1>2. v[0] = 0 /\ \A i \in 1..n : v[i] = 2 * v[i - 1] + b[i]
  BY DEF Steps
<1> DEFINE T == {i \in 0..n : v[i] \in Nat}
<1>3. 0 \in T
  BY <1>2
<1>4. ASSUME NEW i \in 0..(n - 1), i \in T PROVE i + 1 \in T
  <2> DEFINE k == i + 1
  <2>1. k \in 1..n /\ k - 1 = i /\ v[i] \in Nat
    BY <1>4
  <2> HIDE DEF k
  <2>2. v[k] = 2 * v[i] + b[k] /\ b[k] \in {0, 1}
    BY <1>1, <1>2, <2>1
  <2>3. v[k] \in Nat
    BY <2>1, <2>2
  <2>4. k \in 0..n
    BY <2>1
  <2> QED
    BY <2>3, <2>4 DEF k
<1>5. \A i \in 0..n : i \in T
  <2> HIDE DEF T
  <2> QED
    BY <1>3, <1>4, UpTo
<1> QED
  BY <1>1, <1>2, <1>5

(* Value is the last of them.                                              *)
LEMMA ValueIsStep ==
  ASSUME NEW b \in Seq({0, 1})
  PROVE  \E v : Steps(b, v) /\ Value(b) = v[Len(b)]
<1>1. Len(b) \in Nat
  OBVIOUS
<1> QED
  BY <1>1, ValueSteps DEF Steps

(* The first bits of a word make what is left of it when the others are    *)
(* dropped.                                                                *)
LEMMA FirstBits ==
  ASSUME NEW b \in Seq({0, 1}), NEW v, Steps(b, v), NEW n \in 0..14, n = Len(b)
  PROVE  \A d \in 0..n : v[n] \div 2^d = v[n - d]
<1>1. /\ v[0] = 0
      /\ \A i \in 1..n : b[i] \in {0, 1} /\ v[i] = 2 * v[i - 1] + b[i]
      /\ \A i \in 0..n : v[i] \in Nat
  BY StepsAre
<1> DEFINE x == v[n]
           T == {d \in 0..n : x \div 2^d = v[n - d]}
<1>2. x \in Nat
  BY <1>1
<1>3. 0 \in T
  <2>1. x \div 2^0 = x /\ n - 0 = n
    BY <1>2, Powers
  <2> QED
    BY <2>1
<1> HIDE DEF x
<1>4. ASSUME NEW d \in 0..(n - 1), d \in T PROVE d + 1 \in T
  <2>1. x \div 2^d = v[n - d]
    BY <1>4
  <2> HIDE DEF T
  <2>2. d \in 0..13 /\ d + 1 \in 0..n
    OBVIOUS
  <2>3. x \div 2^(d + 1) = (x \div 2^d) \div 2
    BY <1>2, <2>2, Halving
  <2> DEFINE m == n - (d + 1)
             k == n - d
  <2>4. m \in 0..n /\ k \in 1..n /\ k - 1 = m
    OBVIOUS
  <2> HIDE DEF m, k
  <2>5. v[k] = 2 * v[m] + b[k] /\ v[m] \in Nat /\ b[k] \in {0, 1}
    BY <1>1, <2>4
  <2>6. v[k] \div 2 = v[m]
    <3> DEFINE y == v[k]  z == v[m]  c == b[k]
    <3>1. y = 2 * z + c /\ z \in Nat /\ c \in {0, 1}
      BY <2>5
    <3> HIDE DEF y, z, c
    <3>2. y \div 2 = z
      BY <3>1
    <3> QED
      BY <3>2 DEF y, z
  <2>7. x \div 2^(d + 1) = v[n - (d + 1)]
    BY <2>1, <2>3, <2>6 DEF m, k
  <2> QED
    BY <2>2, <2>7 DEF T
<1>5. \A d \in 0..n : d \in T
  <2> HIDE DEF T
  <2> QED
    BY <1>3, <1>4, UpTo
<1> QED
  BY <1>5 DEF x

(* The bits that make a word are those it has, and it has no others.       *)
LEMMA WordBits ==
  ASSUME NEW b \in Seq({0, 1}), NEW n \in 0..14, n = Len(b)
  PROVE  /\ Value(b) \in Nat
         /\ Value(b) < 2^n
         /\ \A j \in 1..n : (Value(b) \div 2^(n - j)) % 2 = b[j]
<1>1. PICK v : Steps(b, v) /\ Value(b) = v[n]
  BY ValueIsStep
<1>2. /\ v[0] = 0
      /\ \A i \in 1..n : b[i] \in {0, 1} /\ v[i] = 2 * v[i - 1] + b[i]
      /\ \A i \in 0..n : v[i] \in Nat
  BY <1>1, StepsAre
<1>3. \A d \in 0..n : v[n] \div 2^d = v[n - d]
  BY <1>1, FirstBits
<1> DEFINE x == Value(b)
<1>4. x = v[n] /\ x \in Nat
  BY <1>1, <1>2
<1> HIDE DEF x
<1>5. x < 2^n
  <2> DEFINE p == 2^n
  <2>1. p \in Nat \ {0}
    BY PowerType
  <2>2. x \div p = 0
    <3>1. n \in 0..n /\ n - n = 0
      OBVIOUS
    <3> QED
      BY <1>2, <1>3, <1>4, <3>1
  <2> HIDE DEF p
  <2>3. x < p
    BY <1>4, <2>1, <2>2
  <2> QED
    BY <2>3 DEF p
<1>6. ASSUME NEW j \in 1..n
      PROVE  (x \div 2^(n - j)) % 2 = b[j]
  <2> DEFINE d == n - j
  <2>1. d \in 0..n /\ n - d = j
    OBVIOUS
  <2> HIDE DEF d
  <2>2. x \div 2^d = v[j]
    BY <1>3, <1>4, <2>1
  <2>3. j - 1 \in 0..n
    OBVIOUS
  <2>4. v[j] = 2 * v[j - 1] + b[j] /\ b[j] \in {0, 1} /\ v[j - 1] \in Nat
    BY <1>2, <2>3
  <2>5. v[j] % 2 = b[j]
    BY <2>4
  <2> QED
    BY <2>2, <2>5 DEF d
<1> QED
  BY <1>4, <1>5, <1>6 DEF x

(* A place in a word, and how many bits stand behind it.                   *)
LEMMA Positions ==
  ASSUME NEW n \in 0..14, NEW i \in 0..(n - 1)
  PROVE  LET j == i + 1  d == n - j
         IN  j \in 1..n /\ j \in 0..n /\ i = j - 1 /\ n - i = d + 1 /\ d \in 0..13
OBVIOUS

(* The n bits of x are these.                                              *)
HasBits(x, n, b) == x < 2^n /\ \A j \in 1..n : b[j] = (x \div 2^(n - j)) % 2

(* The bits of a number make that number.                                  *)
LEMMA BitsMake ==
  ASSUME NEW b \in Seq({0, 1}), NEW n \in 0..14, n = Len(b), NEW x \in Nat,
         HasBits(x, n, b)
  PROVE  Value(b) = x
<1>1. PICK v : Steps(b, v) /\ Value(b) = v[n]
  BY ValueIsStep
<1>2. /\ v[0] = 0
      /\ \A i \in 1..n : b[i] \in {0, 1} /\ v[i] = 2 * v[i - 1] + b[i]
      /\ \A i \in 0..n : v[i] \in Nat
  BY <1>1, StepsAre
<1> DEFINE T == {i \in 0..n : v[i] = x \div 2^(n - i)}
<1> HIDE DEF T
<1>3. 0 \in T
  <2> DEFINE p == 2^n
  <2>1. p \in Nat \ {0} /\ x < p
    BY PowerType DEF HasBits
  <2> HIDE DEF p
  <2>2. x \div p = 0
    BY <2>1
  <2>3. n - 0 = n /\ 0 \in 0..n
    OBVIOUS
  <2> QED
    BY <1>2, <2>2, <2>3 DEF p, T
<1>4. ASSUME NEW i \in 0..(n - 1), i \in T PROVE i + 1 \in T
  <2> DEFINE j == i + 1
             d == n - j
  <2>1. j \in 1..n /\ j \in 0..n /\ i = j - 1 /\ n - i = d + 1 /\ d \in 0..13
    BY Positions
  <2>2. v[i] = x \div 2^(d + 1)
    BY <1>4, <2>1 DEF T
  <2>3. b[j] = (x \div 2^d) % 2
    BY <2>1 DEF HasBits
  <2> HIDE DEF j
  <2>4. v[j] = 2 * v[i] + b[j]
    BY <1>2, <2>1
  <2> HIDE DEF d
  <2> DEFINE y == x \div 2^d
  <2>5. y \in Nat
    <3>1. d \in 0..14
      BY <2>1
    <3> QED
      BY <3>1, ShiftType
  <2>6. v[i] = y \div 2
    BY <2>1, <2>2, Halving
  <2>7. b[j] = y % 2
    BY <2>3
  <2> HIDE DEF y
  <2>8. v[j] = y
    BY <2>4, <2>5, <2>6, <2>7
  <2> QED
    BY <2>1, <2>8 DEF T, y, d, j
<1>5. \A i \in 0..n : i \in T
  <2>1. n \in Nat
    OBVIOUS
  <2> QED
    BY <1>3, <1>4, <2>1, UpTo
<1>6. v[n] = x \div 2^(n - n)
  <2>1. n \in T
    BY <1>5
  <2> QED
    BY <2>1 DEF T
<1>7. n - n = 0 /\ x \div 2^0 = x
  BY Powers
<1> QED
  BY <1>1, <1>6, <1>7

-----------------------------------------------------------------------------
(* Words of bytes, and digits of w bits.                                   *)

(* A word has the bits it was made of.                                     *)
LEMMA WordHas ==
  ASSUME NEW s \in Seq(0..255), NEW k \in Nat, NEW w \in 0..14
  PROVE  /\ Word(s, k, w) \in Nat /\ Word(s, k, w) < 2^w
         /\ \A j \in 1..w : (Word(s, k, w) \div 2^(w - j)) % 2 = Bit(s, k + j - 1)
<1> DEFINE b == [n \in 1..w |-> Bit(s, k + n - 1)]
<1>1. \A n \in 1..w : Bit(s, k + n - 1) \in {0, 1}
  BY BitRange
<1>2. b \in Seq({0, 1}) /\ w = Len(b) /\ \A j \in 1..w : b[j] = Bit(s, k + j - 1)
  BY <1>1
<1>3. Word(s, k, w) = Value(b)
  BY DEF Word
<1> HIDE DEF b
<1>4. /\ Value(b) \in Nat /\ Value(b) < 2^w
      /\ \A j \in 1..w : (Value(b) \div 2^(w - j)) % 2 = b[j]
  BY <1>2, WordBits
<1> QED
  BY <1>2, <1>3, <1>4

(* The digit where bit i is, and its place in it.                          *)
LEMMA DigitPlace ==
  ASSUME NEW w \in {4, 5, 6}, NEW n \in Nat, NEW i \in 0..(8 * n - 1)
  PROVE  LET q == i \div w  r == i % w  l == (8 * n + w - 1) \div w
         IN  /\ q \in Nat /\ q + 1 \in 1..l /\ r + 1 \in 1..w /\ w - (r + 1) = w - 1 - r
             /\ q * w + (r + 1) - 1 = i /\ i < w * l
<1>1. CASE w = 4
  BY <1>1
<1>2. CASE w = 5
  BY <1>2
<1>3. CASE w = 6
  BY <1>3
<1> QED
  BY <1>1, <1>2, <1>3

(* The digits are as many as the bits need, and hold just these bits.      *)
LEMMA DigitsAre ==
  ASSUME NEW s \in Seq(0..255), NEW w \in {4, 5, 6}, NEW n \in Nat, n = Len(s)
  PROVE  /\ Digits(s, w) \in Seq(Nat)
         /\ Len(Digits(s, w)) = (8 * n + w - 1) \div w
         /\ \A i \in 1..Len(Digits(s, w)) : Digits(s, w)[i] < 2^w
         /\ \A i \in 0..(8 * n - 1) : BitOf(Digits(s, w), w, i) = Bit(s, i)
<1> DEFINE l == (8 * n + w - 1) \div w
           D == Digits(s, w)
<1>1. l \in Nat /\ w \in 0..14 /\ w \in Nat
  OBVIOUS
<1>2. D = [i \in 1..l |-> Word(s, (i - 1) * w, w)]
  BY DEF Digits
<1> HIDE DEF l, D
<1>3. ASSUME NEW i \in 1..l
      PROVE  /\ D[i] \in Nat /\ D[i] < 2^w
             /\ \A j \in 1..w : (D[i] \div 2^(w - j)) % 2 = Bit(s, (i - 1) * w + j - 1)
  <2> DEFINE k == (i - 1) * w
  <2>1. k \in Nat
    BY <1>1
  <2>2. D[i] = Word(s, k, w)
    BY <1>2
  <2> HIDE DEF k
  <2>3. /\ Word(s, k, w) \in Nat /\ Word(s, k, w) < 2^w
        /\ \A j \in 1..w : (Word(s, k, w) \div 2^(w - j)) % 2 = Bit(s, k + j - 1)
    BY <1>1, <2>1, WordHas
  <2> QED
    BY <2>2, <2>3 DEF k
<1>4. D \in Seq(Nat) /\ Len(D) = l
  <2>1. \A i \in 1..l : D[i] \in Nat
    BY <1>3
  <2>2. D = [i \in 1..l |-> D[i]]
    BY <1>2
  <2> QED
    BY <1>1, <2>1, <2>2
<1>5. ASSUME NEW i \in 0..(8 * n - 1)
      PROVE  BitOf(D, w, i) = Bit(s, i)
  <2> DEFINE q == i \div w
             r == i % w
  <2>1. /\ q \in Nat /\ q + 1 \in 1..l /\ r + 1 \in 1..w /\ w - (r + 1) = w - 1 - r
        /\ q * w + (r + 1) - 1 = i /\ i < w * l
    BY DigitPlace DEF l
  <2>2. BitOf(D, w, i) = (D[q + 1] \div 2^(w - 1 - r)) % 2
    BY <1>4, <2>1 DEF BitOf
  <2> HIDE DEF q, r
  <2> DEFINE a == q + 1
             j == r + 1
  <2>3. a \in 1..l /\ j \in 1..w /\ a - 1 = q /\ w - j = w - 1 - r
    BY <2>1
  <2>4. (a - 1) * w + j - 1 = i
    BY <2>1, <2>3
  <2>5. BitOf(D, w, i) = (D[a] \div 2^(w - j)) % 2
    BY <2>2, <2>3
  <2> HIDE DEF a, j
  <2>6. (D[a] \div 2^(w - j)) % 2 = Bit(s, (a - 1) * w + j - 1)
    BY <1>3, <2>3
  <2> QED
    BY <2>4, <2>5, <2>6
<1> QED
  BY <1>3, <1>4, <1>5 DEF l, D

(* Gathered, they are the bytes again.                                     *)
LEMMA GatherBack ==
  ASSUME NEW s \in Seq(0..255), NEW w \in {4, 5, 6}
  PROVE  Gather(Digits(s, w), w) = s
<1> DEFINE D == Digits(s, w)
<1>1. PICK n \in Nat : n = Len(s)
  OBVIOUS
<1>2. Len(D) = (8 * n + w - 1) \div w
  BY <1>1, DigitsAre
<1>3. \A i \in 0..(8 * n - 1) : BitOf(D, w, i) = Bit(s, i)
  BY <1>1, DigitsAre
<1> HIDE DEF D
<1>4. (w * Len(D)) \div 8 = n
  <2> DEFINE l == Len(D)
  <2>1. l = (8 * n + w - 1) \div w
    BY <1>2
  <2> HIDE DEF l
  <2>2. (w * l) \div 8 = n
    <3>1. CASE w = 4
      BY <2>1, <3>1
    <3>2. CASE w = 5
      BY <2>1, <3>2
    <3>3. CASE w = 6
      BY <2>1, <3>3
    <3> QED
      BY <3>1, <3>2, <3>3
  <2> QED
    BY <2>2 DEF l
<1>5. Gather(D, w) = [i \in 1..n |-> Value([m \in 1..8 |-> BitOf(D, w, 8 * i - 8 + m - 1)])]
  BY <1>4 DEF Gather
<1>6. ASSUME NEW i \in 1..n
      PROVE  Value([m \in 1..8 |-> BitOf(D, w, 8 * i - 8 + m - 1)]) = s[i]
  <2>1. ASSUME NEW m \in 1..8
        PROVE  BitOf(D, w, 8 * i - 8 + m - 1) = Bit(s, 8 * i - 8 + m - 1)
    <3>1. 8 * i - 8 + m - 1 \in 0..(8 * n - 1)
      OBVIOUS
    <3> QED
      BY <1>3, <3>1
  <2>2. [m \in 1..8 |-> BitOf(D, w, 8 * i - 8 + m - 1)]
          = [m \in 1..8 |-> Bit(s, 8 * i - 8 + m - 1)]
    BY <2>1
  <2>3. i \in 1..Len(s)
    BY <1>1
  <2> DEFINE b == [m \in 1..8 |-> Bit(s, 8 * i - 8 + m - 1)]
  <2>4. Value(b) = s[i]
    <3>1. b = [m \in 1..8 |-> Bit(s, 8 * i - 8 + m - 1)]
      OBVIOUS
    <3> HIDE DEF b
    <3> QED
      BY <2>3, <3>1, BytesBack
  <2> QED
    BY <2>2, <2>4
<1>7. Gather(D, w) = [i \in 1..n |-> s[i]]
  BY <1>5, <1>6
<1>8. s = [i \in 1..n |-> s[i]]
  BY <1>1
<1> QED
  BY <1>7, <1>8 DEF D

-----------------------------------------------------------------------------
(* Padding.                                                                *)

(* f is s and then n times c.                                              *)
IsFilled(f, s, n, c) ==
  /\ Len(f) = Len(s) + n
  /\ \A i \in 1..Len(s) : f[i] = s[i]
  /\ \A i \in (Len(s) + 1)..(Len(s) + n) : f[i] = c

(* What is filled up is as it was, then the filling.                       *)
LEMMA FilledIs ==
  ASSUME NEW S, NEW s \in Seq(S), NEW k \in {4, 8}, NEW c \in S
  PROVE  /\ Filled(s, k, c) \in Seq(S)
         /\ IsFilled(Filled(s, k, c), s, Rest(Len(s), k), c)
<1> DEFINE n == Len(s)
           r == Rest(n, k)
           t == [i \in 1..r |-> c]
           f == s \o t
<1>1. n \in Nat
  OBVIOUS
<1>2. r \in Nat
  <2> HIDE DEF n
  <2>1. CASE k = 4
    BY <1>1, <2>1 DEF Rest
  <2>2. CASE k = 8
    BY <1>1, <2>2 DEF Rest
  <2> QED
    BY <2>1, <2>2
<1> HIDE DEF r
<1>3. t \in Seq(S) /\ Len(t) = r
  BY <1>2
<1>4. /\ f \in Seq(S) /\ Len(f) = n + r
      /\ \A i \in 1..(n + r) : f[i] = IF i <= n THEN s[i] ELSE t[i - n]
  <2> HIDE DEF t
  <2>1. f \in Seq(S) /\ Len(f) = Len(s) + Len(t)
    BY <1>3, ConcatProperties
  <2>2. \A i \in 1..(Len(s) + Len(t)) :
          f[i] = IF i <= Len(s) THEN s[i] ELSE t[i - Len(s)]
    BY <1>3, ConcatProperties
  <2> QED
    BY <1>3, <2>1, <2>2
<1>5. \A i \in 1..r : t[i] = c
  OBVIOUS
<1>6. Filled(s, k, c) = f
  BY DEF Filled, r
<1> HIDE DEF n, t, f
<1>7. \A i \in 1..n : f[i] = s[i]
  BY <1>1, <1>2, <1>4
<1>8. \A i \in (n + 1)..(n + r) : f[i] = c
  <2> TAKE i \in (n + 1)..(n + r)
  <2>1. i \in 1..(n + r) /\ ~(i <= n) /\ i - n \in 1..r
    BY <1>1, <1>2
  <2> QED
    BY <1>4, <1>5, <2>1
<1> QED
  BY <1>4, <1>6, <1>7, <1>8 DEF IsFilled, n, r

(* Digits with nothing but padding behind them are unpadded to the digits. *)
LEMMA UnpaddedBack ==
  ASSUME NEW s \in Seq(Nat), \A i \in 1..Len(s) : s[i] # Pad, NEW k \in {4, 8}
  PROVE  Unpadded(Filled(s, k, Pad)) = s
<1> DEFINE f == Filled(s, k, Pad)
           n == Len(s)
           r == Rest(n, k)
<1>1. Pad \in Nat
  BY DEF Pad
<1>2. /\ f \in Seq(Nat) /\ Len(f) = n + r
      /\ \A i \in 1..n : f[i] = s[i]
      /\ \A i \in (n + 1)..(n + r) : f[i] = Pad
  <2>1. f \in Seq(Nat) /\ IsFilled(f, s, r, Pad)
    BY <1>1, FilledIs
  <2> QED
    BY <2>1 DEF IsFilled
<1>3. \A i \in 1..n : s[i] # Pad
  OBVIOUS
<1>4. n \in Nat
  OBVIOUS
<1>5. r \in Nat
  <2> HIDE DEF n
  <2>1. CASE k = 4
    BY <1>4, <2>1 DEF Rest
  <2>2. CASE k = 8
    BY <1>4, <2>2 DEF Rest
  <2> QED
    BY <2>1, <2>2
<1> DEFINE P == {i \in DOMAIN f : \A j \in i..Len(f) : f[j] = Pad}
<1> HIDE DEF f, n, r
<1>6. P = (n + 1)..(n + r)
  <2>1. DOMAIN f = 1..(n + r)
    BY <1>2
  <2>2. ASSUME NEW i \in P PROVE i \in (n + 1)..(n + r)
    <3>1. i \in 1..(n + r) /\ \A j \in i..(n + r) : f[j] = Pad
      BY <1>2, <2>1
    <3> HIDE DEF P
    <3>2. i \in i..(n + r)
      BY <1>4, <1>5, <3>1
    <3>3. f[i] = Pad
      BY <3>1, <3>2
    <3>4. ~(i \in 1..n)
      BY <1>2, <1>3, <3>3
    <3> QED
      BY <1>4, <1>5, <3>1, <3>4
  <2>3. ASSUME NEW i \in (n + 1)..(n + r) PROVE i \in P
    <3>1. i \in 1..(n + r) /\ \A j \in i..(n + r) : j \in (n + 1)..(n + r)
      BY <1>4, <1>5
    <3> QED
      BY <1>2, <2>1, <3>1
  <2> HIDE DEF P
  <2> QED
    BY <2>2, <2>3
<1> HIDE DEF P
<1>7. Cardinality(P) = r
  <2> DEFINE a == n + 1  b == n + r
  <2>1. a \in Int /\ b \in Int /\ (IF a > b THEN 0 ELSE b - a + 1) = r
    BY <1>4, <1>5
  <2> HIDE DEF a, b
  <2>2. Cardinality(a..b) = IF a > b THEN 0 ELSE b - a + 1
    BY <2>1, FS_Interval
  <2> QED
    BY <1>6, <2>1, <2>2 DEF a, b
<1>8. Unpadded(f) = SubSeq(f, 1, n)
  <2>1. Len(f) - Cardinality(P) = n
    BY <1>2, <1>4, <1>5, <1>7
  <2> QED
    BY <2>1 DEF Unpadded, P
<1>9. SubSeq(f, 1, n) = s
  <2>1. n <= Len(f)
    BY <1>2, <1>4, <1>5
  <2>2. SubSeq(f, 1, n) = [i \in 1..n |-> f[i]]
    BY <1>2, <1>4, <2>1
  <2>3. s = [i \in 1..n |-> s[i]]
    BY DEF n
  <2> QED
    BY <1>2, <2>2, <2>3
<1> QED
  BY <1>8, <1>9 DEF f

(* Digits without padding stay as they are.                                *)
LEMMA UnpaddedSame ==
  ASSUME NEW s \in Seq(Nat), \A i \in 1..Len(s) : s[i] # Pad
  PROVE  Unpadded(s) = s
<1> DEFINE n == Len(s)
           P == {i \in DOMAIN s : \A j \in i..n : s[j] = Pad}
<1>1. n \in Nat
  OBVIOUS
<1>2. \A i \in 1..n : s[i] # Pad
  OBVIOUS
<1>3. DOMAIN s = 1..n
  OBVIOUS
<1> HIDE DEF n
<1>4. P = {}
  <2> SUFFICES ASSUME NEW i \in P PROVE FALSE
    OBVIOUS
  <2>1. i \in 1..n /\ \A j \in i..n : s[j] = Pad
    BY <1>3
  <2>2. i \in i..n
    BY <1>1, <2>1
  <2> QED
    BY <1>2, <2>1, <2>2
<1>5. Cardinality(P) = 0
  BY <1>4, FS_EmptySet
<1>6. Unpadded(s) = SubSeq(s, 1, n)
  <2>1. n - Cardinality(P) = n
    BY <1>1, <1>5
  <2> QED
    BY <2>1 DEF Unpadded, P, n
<1>7. SubSeq(s, 1, n) = [i \in 1..n |-> s[i]] /\ s = [i \in 1..n |-> s[i]]
  BY <1>1 DEF n
<1> QED
  BY <1>6, <1>7

-----------------------------------------------------------------------------
(* The encodings of base 16, 32 and 64 bring back every message.           *)

(* Nothing but base91 has a quotation mark.                                *)
LEMMA FieldWhole ==
  ASSUME NEW e, e # "B91", NEW chars
  PROVE  Field(e, chars) = chars
BY DEF Field

(* How many digits a message has is how many its decoder takes.            *)
LEMMA DigitCounts ==
  ASSUME NEW n \in Nat
  PROVE  /\ ((8 * n + 4 - 1) \div 4) % 2 = 0
         /\ LET l == (8 * n + 6 - 1) \div 6
            IN  (l + Rest(l, 4)) % 4 = 0 /\ Rest(l, 4) <= 2 /\ l % 4 # 1
BY DEF Rest

(* The digits, padded or not, of the four encodings.                       *)
LEMMA DigitCodec ==
  ASSUME NEW e \in {"HEX", "B64", "URLSAFE", "B32"}, NEW s \in Seq(0..255), NEW room \in Nat,
         Len(s) <= room
  PROVE  Decode(e, Encode(e, s), room) = s
<1> DEFINE w == IF e = "HEX" THEN 4 ELSE IF e = "B32" THEN 5 ELSE 6
           D == Digits(s, w)
           chars == Encode(e, s)
           n == Len(s)
<1>1. w \in {4, 5, 6} /\ n \in Nat
  OBVIOUS
<1>2. /\ D \in Seq(Nat) /\ Len(D) = (8 * n + w - 1) \div w
      /\ \A i \in 1..Len(D) : D[i] < 2^w
  <2> HIDE DEF w, n
  <2> QED
    BY <1>1, DigitsAre DEF n
<1>3. Gather(D, w) = s
  <2> HIDE DEF w
  <2> QED
    BY <1>1, GatherBack
<1>4. 2^w = Base(e)
  BY Powers DEF Base
<1>5. \A i \in 1..Len(D) : D[i] < Base(e) /\ D[i] # Pad
  <2>1. Base(e) \in Nat /\ Base(e) <= 64
    BY DEF Base
  <2>2. \A i \in 1..Len(D) : D[i] \in Nat
    <3> HIDE DEF D
    <3> QED
      BY <1>2, ElementOfSeq
  <2> HIDE DEF D, w
  <2> QED
    BY <1>2, <1>4, <2>1, <2>2 DEF Pad
<1>6. CASE e = "HEX"
  <2>1. chars = D
    BY <1>6 DEF Encode
  <2>2. Len(D) % 2 = 0
    BY <1>1, <1>2, <1>6, DigitCounts
  <2> HIDE DEF D, chars
  <2>3. WellFormed(e, chars)
    BY <1>2, <1>5, <1>6, <2>1, <2>2 DEF WellFormed
  <2>4. Raw(e, chars) = s
    BY <1>3, <1>6, <2>1 DEF Raw
  <2> QED
    BY <1>6, <2>3, <2>4 DEF Decode, chars
<1>7. CASE e = "URLSAFE"
  <2>1. chars = D
    BY <1>7 DEF Encode
  <2>2. Len(D) % 4 # 1
    BY <1>1, <1>2, <1>7, DigitCounts
  <2> HIDE DEF D, chars
  <2>3. WellFormed(e, chars)
    <3>1. DOMAIN chars = 1..Len(D)
      BY <1>2, <2>1
    <3>2. \A i \in DOMAIN chars : chars[i] < Base(e)
      BY <1>5, <2>1, <3>1
    <3> QED
      BY <1>7, <2>1, <2>2, <3>2 DEF WellFormed
  <2>4. Unpadded(chars) = chars
    BY <1>2, <1>5, <2>1, UnpaddedSame
  <2>5. Raw(e, chars) = s
    BY <1>3, <1>7, <2>1, <2>4 DEF Raw
  <2> QED
    BY <1>7, <2>3, <2>5 DEF Decode, chars
<1>8. CASE e = "B64"
  <2>1. chars = Filled(D, 4, Pad)
    BY <1>8 DEF Encode
  <2>2. Unpadded(chars) = D
    <3> HIDE DEF D, chars
    <3> QED
      BY <1>2, <1>5, <2>1, UnpaddedBack
  <2>3. Len(chars) = Len(D) + Rest(Len(D), 4)
    <3> HIDE DEF D, chars
    <3> QED
      BY <1>2, <2>1, FilledIs DEF IsFilled, Pad
  <2>4. Len(chars) % 4 = 0 /\ Len(chars) - Len(D) <= 2
    <3> DEFINE l == Len(D)
    <3>1. l = (8 * n + 6 - 1) \div 6
      BY <1>2, <1>8
    <3>2. l \in Nat
      BY <1>1, <3>1
    <3> HIDE DEF l
    <3>3. (l + Rest(l, 4)) % 4 = 0 /\ Rest(l, 4) <= 2 /\ Rest(l, 4) \in Nat
      BY <1>1, <3>1, <3>2, DigitCounts DEF Rest
    <3> QED
      BY <2>3, <3>2, <3>3 DEF l
  <2> HIDE DEF D, chars
  <2>5. WellFormed(e, chars)
    BY <1>2, <1>5, <1>8, <2>2, <2>4 DEF WellFormed
  <2>6. Raw(e, chars) = s
    BY <1>3, <1>8, <2>2 DEF Raw
  <2> QED
    BY <1>8, <2>5, <2>6 DEF Decode, chars
<1>9. CASE e = "B32"
  <2>1. chars = Filled(D, 8, Pad)
    BY <1>9 DEF Encode
  <2>2. Unpadded(chars) = D
    <3> HIDE DEF D, chars
    <3> QED
      BY <1>2, <1>5, <2>1, UnpaddedBack
  <2> HIDE DEF D, chars
  <2>3. WellFormed(e, chars)
    BY <1>2, <1>5, <1>9, <2>2 DEF WellFormed
  <2>4. Raw(e, chars) = s
    BY <1>3, <1>9, <2>2 DEF Raw
  <2> QED
    BY <1>9, <2>3, <2>4 DEF Decode, chars
<1> QED
  BY <1>6, <1>7, <1>8, <1>9

-----------------------------------------------------------------------------
(* Z85 brings back whole words.                                            *)

(* A half of a word of 32 bits, such a word, the number it is, a digit.    *)
Half(h) == h \in Nat /\ h <= 65535
IsWord32(v) == v = <<v[1], v[2]>> /\ Half(v[1]) /\ Half(v[2])
Num(v) == v[1] * 65536 + v[2]
Below85(d) == d \in Nat /\ d < 85

(* Halves a, b and a digit c from h, l, and back.                          *)
Divided(h, l, a, b, c) ==
  /\ Half(a) /\ Half(b)
  /\ (a * 85 + (b * 85 + c) \div 65536) % 65536 = h
  /\ (b * 85 + c) % 65536 = l
  /\ a * 65536 + b = (h * 65536 + l) \div 85

(* What division of h and l by 85 gives, with remainders r and c.          *)
Remainders(h, l, a, r, b, c) ==
  /\ h <= 65535 /\ l <= 65535 /\ r <= 84 /\ c <= 84
  /\ h = 85 * a + r /\ 65536 * r + l = 85 * b + c

(* Division by 85 with remainder, in two halves.                           *)
LEMMA HalvesBack ==
  ASSUME NEW h \in Nat, NEW l \in Nat, NEW a \in Nat, NEW r \in Nat,
         NEW b \in Nat, NEW c \in Nat, Remainders(h, l, a, r, b, c)
  PROVE  Divided(h, l, a, b, c)
<1>1. /\ h <= 65535 /\ l <= 65535 /\ r <= 84 /\ c <= 84
      /\ h = 85 * a + r /\ 65536 * r + l = 85 * b + c
  BY DEF Remainders
<1>2. a <= 65535 /\ b <= 65535
  BY <1>1
<1>3. (b * 85 + c) \div 65536 = r /\ (b * 85 + c) % 65536 = l
  BY <1>1
<1>4. (a * 85 + r) % 65536 = h
  BY <1>1
<1>5. h * 65536 + l = 85 * (a * 65536 + b) + c
  BY <1>1
<1>6. a * 65536 + b = (h * 65536 + l) \div 85
  BY <1>1, <1>5
<1> QED
  BY <1>2, <1>3, <1>4, <1>6 DEF Divided, Half

(* The same of words.                                                      *)
LEMMA DivisionBack ==
  ASSUME NEW v, IsWord32(v)
  PROVE  /\ IsWord32(Div85(v)) /\ Below85(Mod85(v))
         /\ Times85Plus(Div85(v), Mod85(v)) = v
         /\ Num(Div85(v)) = Num(v) \div 85
<1>1. PICK h \in Nat, l \in Nat :
        /\ h = v[1] /\ l = v[2] /\ v = <<h, l>> /\ h <= 65535 /\ l <= 65535
  BY DEF IsWord32, Half
<1>2. PICK a \in Nat, r \in Nat :
        a = h \div 85 /\ r = h % 85 /\ h = 85 * a + r /\ r <= 84
  OBVIOUS
<1>3. PICK t \in Nat : t = r * 65536 + l
  BY <1>2
<1>4. PICK b \in Nat, c \in Nat :
        b = t \div 85 /\ c = t % 85 /\ t = 85 * b + c /\ c <= 84
  BY <1>3
<1>5. Div85(v) = <<a, b>> /\ Mod85(v) = c
  BY <1>1, <1>2, <1>3, <1>4 DEF Div85, Mod85
<1>6. Divided(h, l, a, b, c)
  <2>1. Remainders(h, l, a, r, b, c)
    BY <1>1, <1>2, <1>3, <1>4 DEF Remainders
  <2> QED
    BY <2>1, HalvesBack
<1>7. IsWord32(Div85(v))
  BY <1>5, <1>6 DEF IsWord32, Divided
<1>8. Times85Plus(Div85(v), Mod85(v)) = v
  <2>1. Times85Plus(<<a, b>>, c)
          = <<(a * 85 + (b * 85 + c) \div 65536) % 65536, (b * 85 + c) % 65536>>
    BY DEF Times85Plus
  <2>2. Times85Plus(<<a, b>>, c) = <<h, l>>
    BY <1>6, <2>1 DEF Divided
  <2> QED
    BY <1>1, <1>5, <2>2
<1>9. Num(Div85(v)) = Num(v) \div 85
  BY <1>1, <1>5, <1>6 DEF Num, Divided
<1>10. Below85(Mod85(v))
  BY <1>4, <1>5 DEF Below85
<1> QED
  BY <1>7, <1>8, <1>9, <1>10

(* A word is smaller than 85^5: nothing is left after five digits.         *)
LEMMA FiveDigits ==
  ASSUME NEW x \in Nat, x < 4294967296
  PROVE  ((((x \div 85) \div 85) \div 85) \div 85) \div 85 = 0
<1>1. PICK a \in Nat : a = x \div 85 /\ a <= 50529027
  OBVIOUS
<1>2. PICK b \in Nat : b = a \div 85 /\ b <= 594459
  BY <1>1
<1>3. PICK c \in Nat : c = b \div 85 /\ c <= 6993
  BY <1>2
<1>4. PICK d \in Nat : d = c \div 85 /\ d <= 82
  BY <1>3
<1>5. d \div 85 = 0
  BY <1>4
<1> QED
  BY <1>1, <1>2, <1>3, <1>4, <1>5

(* The five digits of a word make the word again.                          *)
LEMMA WordBack ==
  ASSUME NEW v, IsWord32(v)
  PROVE  LET g == Z85Digits(v)
         IN  /\ \A j \in 1..5 : Below85(g[j])
             /\ Z85Word(g[1], g[2], g[3], g[4], g[5]) = v
<1> DEFINE a == Div85(v)
           b == Div85(a)
           c == Div85(b)
           d == Div85(c)
           z == Div85(d)
           g == Z85Digits(v)
<1>1. g = <<Mod85(d), Mod85(c), Mod85(b), Mod85(a), Mod85(v)>>
  BY DEF Z85Digits
<1>2. /\ IsWord32(a) /\ Below85(Mod85(v)) /\ Times85Plus(a, Mod85(v)) = v
      /\ Num(a) = Num(v) \div 85
  BY DivisionBack
<1> HIDE DEF a, g
<1>3. /\ IsWord32(b) /\ Below85(Mod85(a)) /\ Times85Plus(b, Mod85(a)) = a
      /\ Num(b) = Num(a) \div 85
  BY <1>2, DivisionBack
<1> HIDE DEF b
<1>4. /\ IsWord32(c) /\ Below85(Mod85(b)) /\ Times85Plus(c, Mod85(b)) = b
      /\ Num(c) = Num(b) \div 85
  BY <1>3, DivisionBack
<1> HIDE DEF c
<1>5. /\ IsWord32(d) /\ Below85(Mod85(c)) /\ Times85Plus(d, Mod85(c)) = c
      /\ Num(d) = Num(c) \div 85
  BY <1>4, DivisionBack
<1> HIDE DEF d
<1>6. /\ IsWord32(z) /\ Below85(Mod85(d)) /\ Times85Plus(z, Mod85(d)) = d
      /\ Num(z) = Num(d) \div 85
  BY <1>5, DivisionBack
<1> HIDE DEF z
<1>7. Num(v) \in Nat /\ Num(v) < 4294967296
  BY DEF IsWord32, Half, Num
<1>8. Num(z) = 0
  BY <1>2, <1>3, <1>4, <1>5, <1>6, <1>7, FiveDigits
<1>9. z = <<0, 0>>
  BY <1>6, <1>8 DEF IsWord32, Half, Num
<1>10. Z85Word(g[1], g[2], g[3], g[4], g[5]) = v
  BY <1>1, <1>2, <1>3, <1>4, <1>5, <1>6, <1>9 DEF Z85Word
<1>11. \A j \in 1..5 : Below85(g[j])
  BY <1>1, <1>2, <1>3, <1>4, <1>5, <1>6
<1> QED
  BY <1>10, <1>11 DEF g

(* Where a digit, or a byte, is: its group and its place there.            *)
LEMMA GroupPlace ==
  ASSUME NEW m \in Nat, NEW k \in Nat
  PROVE  /\ k \in 1..(5 * m) => /\ (k - 1) \div 5 \in 0..(m - 1)
                                /\ ((k - 1) % 5) + 1 \in 1..5
         /\ k \in 1..(4 * m) => /\ (k - 1) \div 4 \in 0..(m - 1)
                                /\ ((k - 1) % 4) + 1 \in 1..4
                                /\ k = 4 * ((k - 1) \div 4) + ((k - 1) % 4) + 1
OBVIOUS

(* A half is made of two bytes.                                            *)
TwoBytes(h, a, b) == Half(h) /\ h \div 256 = a /\ h % 256 = b

(* Four bytes in a row, as the halves of their word.                       *)
LEMMA FourBytes ==
  ASSUME NEW a \in 0..255, NEW b \in 0..255
  PROVE  TwoBytes(256 * a + b, a, b)
BY DEF TwoBytes, Half

(* The digits of the words of p.                                           *)
WordAt(p, i) == <<256 * p[4*i + 1] + p[4*i + 2], 256 * p[4*i + 3] + p[4*i + 4]>>

(* Each is a word, of these bytes.                                         *)
LEMMA WordAtIs ==
  ASSUME NEW p \in Seq(0..255), NEW m \in Nat, Len(p) = 4 * m, NEW i \in 0..(m - 1)
  PROVE  LET v == WordAt(p, i)
         IN  /\ IsWord32(v)
             /\ v[1] \div 256 = p[4*i + 1] /\ v[1] % 256 = p[4*i + 2]
             /\ v[2] \div 256 = p[4*i + 3] /\ v[2] % 256 = p[4*i + 4]
<1>1. PICK j \in Nat : j = 4 * i /\ j + 4 <= 4 * m
  OBVIOUS
<1>2. \A k \in 1..(4 * m) : p[k] \in 0..255
  <2>1. \A k \in 1..Len(p) : p[k] \in 0..255
    BY ElementOfSeq
  <2> QED
    BY <2>1
<1>3. /\ j + 1 \in 1..(4 * m) /\ j + 2 \in 1..(4 * m)
      /\ j + 3 \in 1..(4 * m) /\ j + 4 \in 1..(4 * m)
  BY <1>1
<1>4. PICK a \in 0..255, b \in 0..255, c \in 0..255, d \in 0..255 :
        a = p[j + 1] /\ b = p[j + 2] /\ c = p[j + 3] /\ d = p[j + 4]
  BY <1>2, <1>3
<1>5. WordAt(p, i) = <<256 * a + b, 256 * c + d>>
  BY <1>1, <1>4 DEF WordAt
<1>6. TwoBytes(256 * a + b, a, b) /\ TwoBytes(256 * c + d, c, d)
  BY FourBytes
<1> QED
  BY <1>1, <1>4, <1>5, <1>6 DEF IsWord32, TwoBytes

(* Words of bytes and the digits that stand for them.                      *)
Z85Chars(p) == [k \in 1..(5 * (Len(p) \div 4)) |->
                  Z85Digits(WordAt(p, (k - 1) \div 5))[((k - 1) % 5) + 1]]

(* The digits are digits, and make the words again.                        *)
LEMMA Z85Back ==
  ASSUME NEW p \in Seq(0..255), NEW m \in Nat, Len(p) = 4 * m
  PROVE  /\ Len(Z85Chars(p)) = 5 * m
         /\ \A k \in 1..(5 * m) : Below85(Z85Chars(p)[k])
         /\ Z85Bytes(Z85Chars(p)) = p
<1> DEFINE ch == Z85Chars(p)
<1>1. Len(p) \div 4 = m
  OBVIOUS
<1>2. ch = [k \in 1..(5 * m) |-> Z85Digits(WordAt(p, (k - 1) \div 5))[((k - 1) % 5) + 1]]
  BY <1>1 DEF Z85Chars
<1>3. \A i \in 0..(m - 1) : IsWord32(WordAt(p, i))
  BY WordAtIs
<1> HIDE DEF ch
<1>4. ASSUME NEW k \in 1..(5 * m)
      PROVE  Below85(ch[k])
  <2>1. PICK i \in 0..(m - 1), j \in 1..5 : i = (k - 1) \div 5 /\ j = ((k - 1) % 5) + 1
    BY GroupPlace
  <2>2. ch[k] = Z85Digits(WordAt(p, i))[j]
    BY <1>2, <2>1
  <2> QED
    BY <1>3, <2>2, WordBack
<1>5. Len(ch) = 5 * m
  BY <1>2
<1>6. ASSUME NEW i \in 0..(m - 1)
      PROVE  Z85Word(ch[5*i + 1], ch[5*i + 2], ch[5*i + 3], ch[5*i + 4], ch[5*i + 5])
               = WordAt(p, i)
  <2> DEFINE g == Z85Digits(WordAt(p, i))
  <2>1. ASSUME NEW j \in 1..5 PROVE ch[5*i + j] = g[j]
    <3>1. PICK k \in 1..(5 * m) : k = 5 * i + j /\ (k - 1) \div 5 = i /\ ((k - 1) % 5) + 1 = j
      <4> DEFINE k == 5 * i + j
      <4>1. k \in 1..(5 * m)
        OBVIOUS
      <4>2. (k - 1) \div 5 = i /\ ((k - 1) % 5) + 1 = j
        OBVIOUS
      <4> QED
        BY <4>1, <4>2
    <3>2. ch[k] = Z85Digits(WordAt(p, i))[j]
      BY <1>2, <3>1
    <3> QED
      BY <3>1, <3>2
  <2>2. Z85Word(g[1], g[2], g[3], g[4], g[5]) = WordAt(p, i)
    BY <1>3, WordBack
  <2> HIDE DEF g
  <2>3. /\ ch[5*i + 1] = g[1] /\ ch[5*i + 2] = g[2] /\ ch[5*i + 3] = g[3]
        /\ ch[5*i + 4] = g[4] /\ ch[5*i + 5] = g[5]
    BY <2>1
  <2> QED
    BY <2>2, <2>3
<1> DEFINE Group(i) ==
             LET v == Z85Word(ch[5*i + 1], ch[5*i + 2], ch[5*i + 3],
                              ch[5*i + 4], ch[5*i + 5])
             IN  <<v[1] \div 256, v[1] % 256, v[2] \div 256, v[2] % 256>>
<1>7. ASSUME NEW i \in 0..(m - 1)
      PROVE  Group(i) = <<p[4*i + 1], p[4*i + 2], p[4*i + 3], p[4*i + 4]>>
  <2> DEFINE v == WordAt(p, i)
  <2>1. Group(i) = <<v[1] \div 256, v[1] % 256, v[2] \div 256, v[2] % 256>>
    BY <1>6
  <2>2. /\ v[1] \div 256 = p[4*i + 1] /\ v[1] % 256 = p[4*i + 2]
        /\ v[2] \div 256 = p[4*i + 3] /\ v[2] % 256 = p[4*i + 4]
    BY WordAtIs
  <2> HIDE DEF v, Group
  <2> QED
    BY <2>1, <2>2
<1>8. Z85Bytes(ch) = [k \in 1..(4 * m) |-> Group((k - 1) \div 4)[((k - 1) % 4) + 1]]
  <2>1. Len(ch) \div 5 = m
    BY <1>5
  <2> QED
    BY <2>1 DEF Z85Bytes
<1> HIDE DEF Group
<1>9. ASSUME NEW k \in 1..(4 * m)
      PROVE  Group((k - 1) \div 4)[((k - 1) % 4) + 1] = p[k]
  <2>1. PICK i \in 0..(m - 1), j \in 1..4 :
          i = (k - 1) \div 4 /\ j = ((k - 1) % 4) + 1 /\ k = 4 * i + j
    <3> DEFINE i == (k - 1) \div 4
               j == ((k - 1) % 4) + 1
    <3>1. i \in 0..(m - 1) /\ j \in 1..4
      BY GroupPlace
    <3>2. k = 4 * i + j
      OBVIOUS
    <3> QED
      BY <3>1, <3>2
  <2>2. Group(i)[j] = p[4*i + j]
    <3>1. Group(i) = <<p[4*i + 1], p[4*i + 2], p[4*i + 3], p[4*i + 4]>>
      BY <1>7
    <3>2. CASE j = 1
      BY <3>1, <3>2
    <3>3. CASE j = 2
      BY <3>1, <3>3
    <3>4. CASE j = 3
      BY <3>1, <3>4
    <3>5. CASE j = 4
      BY <3>1, <3>5
    <3> QED
      BY <3>2, <3>3, <3>4, <3>5
  <2> QED
    BY <2>1, <2>2
<1>10. Z85Bytes(ch) = [k \in 1..(4 * m) |-> p[k]]
  BY <1>8, <1>9
<1>11. p = [k \in 1..(4 * m) |-> p[k]]
  OBVIOUS
<1> QED
  BY <1>4, <1>5, <1>10, <1>11 DEF ch

(* What the encoder writes are the digits of the words it filled up.       *)
LEMMA EncodeZ85Is ==
  ASSUME NEW s, NEW c
  PROVE  EncodeZ85(s, c) = Z85Chars(Filled(s, 4, c))
BY DEF EncodeZ85, Z85Chars, WordAt

-----------------------------------------------------------------------------
(* Z85 brings back what its fill leaves recognisable.                      *)

(* Refused, or of a length other than it had: it does not come back.       *)
Lost(r, s) == r = Refused \/ Len(r) # Len(s)

(* What a length lacks to a multiple of four.                              *)
LEMMA RestOfFour ==
  ASSUME NEW n \in Nat
  PROVE  /\ Rest(n, 4) \in Nat /\ Rest(n, 4) <= 3
         /\ n % 4 = 0 => Rest(n, 4) = 0
         /\ n % 4 # 0 => Rest(n, 4) \in 1..3
         /\ \E m \in Nat : n + Rest(n, 4) = 4 * m
<1>1. PICK r \in Nat : r = n % 4 /\ r <= 3 /\ n = 4 * (n \div 4) + r
  OBVIOUS
<1>2. Rest(n, 4) = (4 - r) % 4
  BY <1>1 DEF Rest
<1> DEFINE q == n \div 4
<1>3. q \in Nat /\ n = 4 * q + r
  BY <1>1
<1> HIDE DEF q
<1>4. CASE r = 0
  <2>1. Rest(n, 4) = 0
    BY <1>2, <1>4
  <2>2. n + 0 = 4 * q
    BY <1>3, <1>4
  <2> QED
    BY <1>3, <1>1, <1>4, <2>1, <2>2
<1>5. CASE r # 0
  <2>1. Rest(n, 4) = 4 - r
    BY <1>1, <1>2, <1>5
  <2>2. n + (4 - r) = 4 * (q + 1) /\ q + 1 \in Nat
    BY <1>3
  <2>3. 4 - r \in 1..3
    BY <1>1, <1>5
  <2> QED
    BY <1>1, <1>5, <2>1, <2>2, <2>3
<1> QED
  BY <1>4, <1>5

(* What the decoder makes of the words, before the fill is stripped.       *)
LEMMA Z85Raw ==
  ASSUME NEW e \in {"Z85B", "Z85P"}, NEW s \in Seq(0..255), NEW c \in 0..255,
         Encode(e, s) = EncodeZ85(s, c)
  PROVE  /\ WellFormed(e, Encode(e, s)) /\ Raw(e, Encode(e, s)) = Filled(s, 4, c)
         /\ 5 * (Len(s) + Rest(Len(s), 4)) = 4 * Len(Encode(e, s))
<1> DEFINE p == Filled(s, 4, c)
           ch == Z85Chars(p)
<1>1. p \in Seq(0..255) /\ IsFilled(p, s, Rest(Len(s), 4), c)
  BY FilledIs
<1>2. Encode(e, s) = ch
  BY EncodeZ85Is
<1> HIDE DEF p, ch
<1>3. PICK n \in Nat : n = Len(s)
  OBVIOUS
<1>4. PICK m \in Nat : n + Rest(n, 4) = 4 * m
  BY RestOfFour
<1>5. Len(p) = 4 * m
  BY <1>1, <1>3, <1>4 DEF IsFilled
<1>6. /\ Len(ch) = 5 * m /\ \A k \in 1..(5 * m) : Below85(ch[k])
      /\ Z85Bytes(ch) = p
  BY <1>1, <1>5, Z85Back DEF ch
<1>7. Raw(e, ch) = p
  BY <1>6 DEF Raw
<1>8. DOMAIN ch = 1..(5 * m)
  <2>1. Len(p) \div 4 = m
    BY <1>5
  <2> QED
    BY <2>1 DEF ch, Z85Chars
<1>9. WellFormed(e, ch)
  <2>1. (5 * m) % 5 = 0
    OBVIOUS
  <2>2. \A k \in DOMAIN ch : ch[k] < Base(e)
    <3>1. Base(e) = 85
      BY DEF Base
    <3> QED
      <4>1. ASSUME NEW k \in 1..(5 * m) PROVE ch[k] < 85
        <5>1. Below85(ch[k])
          BY <1>6
        <5> QED
          BY <5>1 DEF Below85
      <4> QED
        BY <1>8, <3>1, <4>1
  <2> QED
    BY <1>6, <2>1, <2>2 DEF WellFormed
<1> QED
  BY <1>2, <1>3, <1>4, <1>6, <1>7, <1>9 DEF p

(* f is s filled to whole words with c.                                    *)
Words(f, s, n, c) ==
  /\ SubSeq(f, 1, n) = s
  /\ Len(f) = n + Rest(n, 4)
  /\ n % 4 = 0 => f = s
  /\ n % 4 # 0 => f # <<>> /\ Last(f) = c

(* A message filled up to whole words, and what fills it.                  *)
LEMMA FilledWith ==
  ASSUME NEW s \in Seq(0..255), NEW c \in 0..255, NEW f, f = Filled(s, 4, c),
         NEW n \in Nat, n = Len(s)
  PROVE  Words(f, s, n, c)
<1>1. f \in Seq(0..255) /\ IsFilled(f, s, Rest(n, 4), c)
  BY FilledIs
<1>2. PICK r \in Nat : r = Rest(n, 4)
  BY RestOfFour
<1>3. /\ n % 4 = 0 => r = 0
      /\ n % 4 # 0 => r \in 1..3
  BY <1>2, RestOfFour
<1>4. /\ Len(f) = n + r
      /\ \A i \in 1..n : f[i] = s[i]
      /\ \A i \in (n + 1)..(n + r) : f[i] = c
  BY <1>1, <1>2 DEF IsFilled
<1>5. SubSeq(f, 1, n) = s
  <2>1. n <= Len(f)
    BY <1>2, <1>4
  <2>2. SubSeq(f, 1, n) = [i \in 1..n |-> f[i]]
    BY <1>1, <2>1
  <2>3. s = [i \in 1..n |-> s[i]]
    OBVIOUS
  <2> QED
    BY <1>4, <2>2, <2>3
<1>6. ASSUME n % 4 = 0 PROVE f = s
  <2>1. Len(f) = n
    BY <1>3, <1>4, <1>6
  <2>2. f = [i \in 1..n |-> f[i]] /\ s = [i \in 1..n |-> s[i]]
    BY <1>1, <2>1
  <2> QED
    BY <1>4, <2>2
<1>7. ASSUME n % 4 # 0 PROVE f # <<>> /\ Last(f) = c
  <2>1. n + r \in (n + 1)..(n + r)
    BY <1>3, <1>7
  <2>2. f[Len(f)] = c
    BY <1>4, <2>1
  <2>3. Len(f) # 0
    BY <1>4, <2>1
  <2> QED
    BY <2>2, <2>3 DEF Last
<1> QED
  BY <1>2, <1>4, <1>5, <1>6, <1>7 DEF Words

(* z85b fills with zeros and strips nothing: what is no multiple of four   *)
(* bytes does not come back.                                               *)
LEMMA Z85BCodec ==
  ASSUME NEW s \in Seq(0..255), NEW room \in Nat, Len(s) + Rest(Len(s), 4) <= room
  PROVE  /\ Len(s) % 4 = 0 => Decode("Z85B", Encode("Z85B", s), room) = s
         /\ Len(s) % 4 # 0 => Lost(Decode("Z85B", Encode("Z85B", s), room), s)
<1> DEFINE e == "Z85B"
           ch == Encode(e, s)
           f == Filled(s, 4, 0)
           n == Len(s)
<1>1. ch = EncodeZ85(s, 0)
  BY DEF Encode
<1>2. WellFormed(e, ch) /\ Raw(e, ch) = f
  BY <1>1, Z85Raw
<1>3. n \in Nat /\ n + Rest(n, 4) <= room
  OBVIOUS
<1>4. /\ Len(f) = n + Rest(n, 4)
      /\ n % 4 = 0 => f = s
      /\ n % 4 # 0 => Rest(n, 4) \in 1..3
  <2>1. Words(f, s, n, 0)
    <3> HIDE DEF n
    <3> QED
      BY <1>3, FilledWith DEF n
  <2> HIDE DEF f, n
  <2> QED
    BY <1>3, <2>1, RestOfFour DEF Words
<1> HIDE DEF ch, f, n
<1>5. Decode(e, ch, room) = f
  BY <1>2, <1>3, <1>4 DEF Decode
<1>6. n % 4 # 0 => Len(f) # n
  BY <1>3, <1>4
<1> QED
  BY <1>4, <1>5, <1>6 DEF Lost, ch, n

(* z85_encode_padded fills with the number of the bytes it fills: a message *)
(* of whole words that ends like a fill is taken for one.                   *)
LEMMA Z85PCodec ==
  ASSUME NEW s \in Seq(0..255), s # <<>>, NEW room \in Nat, Len(s) + Rest(Len(s), 4) <= room
  PROVE  LET spoilt == Len(s) % 4 = 0 /\ Last(s) \in 1..3
         IN  /\ ~spoilt => Decode("Z85P", Encode("Z85P", s), room) = s
             /\ spoilt => Lost(Decode("Z85P", Encode("Z85P", s), room), s)
<1> DEFINE e == "Z85P"
           ch == Encode(e, s)
           n == Len(s)
           r == Rest(n, 4)
           f == Filled(s, 4, r)
<1>1. ch = EncodeZ85(s, r)
  BY DEF Encode
<1>2. n \in Nat /\ n + r <= room /\ n > 0
  OBVIOUS
<1>3. r \in 0..3 /\ (n % 4 # 0 => r \in 1..3)
  <2> HIDE DEF n
  <2>1. /\ r \in Nat /\ r <= 3
        /\ n % 4 # 0 => r \in 1..3
    BY <1>2, RestOfFour
  <2> HIDE DEF r
  <2> QED
    BY <2>1
<1> HIDE DEF r
<1>4. WellFormed(e, ch) /\ Raw(e, ch) = f
  <2>1. r \in 0..255
    BY <1>3
  <2> HIDE DEF f, ch
  <2> QED
    BY <1>1, <2>1, Z85Raw DEF f, ch
<1>5. /\ SubSeq(f, 1, n) = s
      /\ Len(f) = n + r
      /\ n % 4 = 0 => f = s
      /\ n % 4 # 0 => r \in 1..3 /\ f # <<>> /\ Last(f) = r
  <2>1. Words(f, s, n, r)
    <3>1. r \in 0..255
      BY <1>3
    <3> HIDE DEF n
    <3> QED
      BY <1>2, <3>1, FilledWith DEF n
  <2> HIDE DEF f, n
  <2> QED
    BY <1>3, <2>1 DEF Words, r
<1> HIDE DEF ch, f, n
<1>6. Decode(e, ch, room) = StripFill(f)
  BY <1>2, <1>4, <1>5 DEF Decode
<1>7. CASE n % 4 # 0
  <2>1. Last(f) < Len(f) /\ Len(f) - Last(f) = n
    BY <1>2, <1>5, <1>7
  <2>2. StripFill(f) = SubSeq(f, 1, n)
    BY <1>5, <1>7, <2>1 DEF StripFill
  <2> QED
    BY <1>5, <1>6, <1>7, <2>2 DEF ch, n
<1>8. CASE n % 4 = 0
  <2>1. f = s
    BY <1>5, <1>8
  <2>2. CASE Last(s) \notin 1..3
    <3>1. StripFill(f) = s
      BY <2>1, <2>2 DEF StripFill
    <3> QED
      BY <1>6, <2>2, <3>1 DEF ch
  <2>3. CASE Last(s) \in 1..3
    <3>1. PICK l \in 1..3 : l = Last(s)
      BY <2>3
    <3>2. n >= 4
      BY <1>2, <1>8
    <3>3. StripFill(f) = SubSeq(s, 1, n - l)
      BY <2>1, <2>3, <3>1, <3>2 DEF StripFill, n
    <3>4. Len(SubSeq(s, 1, n - l)) = n - l
      <4>1. n - l \in 1..n
        BY <1>2, <3>2
      <4>2. n = Len(s)
        BY DEF n
      <4> QED
        BY <4>1, <4>2
    <3>5. Lost(StripFill(f), s)
      <4>1. n - l # n
        BY <1>2
      <4> QED
        BY <3>3, <3>4, <4>1 DEF Lost, n
    <3> QED
      BY <1>6, <1>8, <2>3, <3>5 DEF ch, n
  <2> QED
    BY <2>2, <2>3
<1> QED
  BY <1>7, <1>8

-----------------------------------------------------------------------------
(* Base91: bits from the lowest on, and the words they make.               *)

(* A byte is a number.                                                     *)
LEMMA ByteIsNumber ==
  ASSUME NEW x \in 0..255
  PROVE  x \in Nat
OBVIOUS

(* A bit of the bytes is a bit.                                            *)
LEMMA LowBitRange ==
  ASSUME NEW s \in Seq(0..255), NEW i \in Nat, i < 8 * Len(s)
  PROVE  LowBit(s, i) \in {0, 1}
<1> DEFINE j == i \div 8 + 1
           e == i % 8
<1>1. j \in 1..Len(s) /\ e \in 0..14
  <2>1. PICK n \in Nat : n = Len(s)
    OBVIOUS
  <2>2. j \in 1..n /\ e \in 0..14
    BY <2>1
  <2> QED
    BY <2>1, <2>2
<1>2. s[j] \in 0..255
  <2> HIDE DEF j
  <2> QED
    BY <1>1, ElementOfSeq
<1> DEFINE x == s[j]
<1> HIDE DEF x, j, e
<1>3. x \in Nat
  BY <1>2, ByteIsNumber DEF x
<1>4. (x \div 2^e) % 2 \in {0, 1}
  BY <1>1, <1>3, ShiftType
<1> QED
  BY <1>4 DEF LowBit, x, j, e

(* Bit j of a number, bit 0 being the lowest.                              *)
BitOfNumber(x, j) == (x \div 2^j) % 2

(* x is the word of the w bits from bit p on.                              *)
IsLow(x, s, p, w) ==
  /\ x \in Nat /\ x < 2^w
  /\ \A j \in 0..(w - 1) : BitOfNumber(x, j) = LowBit(s, p + j)

(* The w bits from p on are inside the bytes.                              *)
Inside(s, p, w) == p \in Nat /\ w \in 0..14 /\ p + w <= 8 * Len(s)

(* A word is the one of its bits, and the only one.                        *)
LEMMA LowWordIs ==
  ASSUME NEW s \in Seq(0..255), NEW p, NEW w, Inside(s, p, w)
  PROVE  /\ IsLow(LowWord(s, p, w), s, p, w)
         /\ \A x : IsLow(x, s, p, w) => LowWord(s, p, w) = x
<1>1. p \in Nat /\ w \in 0..14 /\ p + w <= 8 * Len(s)
  BY DEF Inside
<1> DEFINE b == [n \in 1..w |-> LowBit(s, p + w - n)]
<1>2. ASSUME NEW n \in 1..w PROVE LowBit(s, p + w - n) \in {0, 1}
  <2> DEFINE i == p + w - n
  <2>1. i \in Nat /\ i < 8 * Len(s)
    <3>1. PICK l \in Nat : l = 8 * Len(s)
      OBVIOUS
    <3>2. i \in Nat /\ i < l
      BY <1>1, <3>1
    <3> QED
      BY <3>1, <3>2
  <2> HIDE DEF i
  <2>2. LowBit(s, i) \in {0, 1}
    BY <2>1, LowBitRange
  <2> QED
    BY <2>2 DEF i
<1>3. b \in Seq({0, 1}) /\ w = Len(b)
  BY <1>1, <1>2
<1>4. \A n \in 1..w : b[n] = LowBit(s, p + w - n)
  OBVIOUS
<1>5. LowWord(s, p, w) = Value(b)
  BY DEF LowWord
<1> HIDE DEF b
<1> DEFINE v == Value(b)
<1>6. v \in Nat /\ v < 2^w /\ \A n \in 1..w : (v \div 2^(w - n)) % 2 = b[n]
  BY <1>1, <1>3, WordBits
<1> HIDE DEF v
<1>7. ASSUME NEW j \in 0..(w - 1) PROVE (v \div 2^j) % 2 = LowBit(s, p + j)
  <2> DEFINE n == w - j
  <2>1. n \in 1..w /\ w - n = j /\ p + w - n = p + j
    BY <1>1
  <2> HIDE DEF n
  <2> QED
    BY <1>4, <1>6, <2>1
<1>8. ASSUME NEW x, IsLow(x, s, p, w) PROVE Value(b) = x
  <2>1. x \in Nat /\ x < 2^w /\ \A j \in 0..(w - 1) : (x \div 2^j) % 2 = LowBit(s, p + j)
    BY <1>8 DEF IsLow, BitOfNumber
  <2>2. ASSUME NEW n \in 1..w PROVE b[n] = (x \div 2^(w - n)) % 2
    <3> DEFINE j == w - n
    <3>1. j \in 0..(w - 1) /\ p + j = p + w - n
      BY <1>1
    <3> HIDE DEF j
    <3>2. (x \div 2^j) % 2 = LowBit(s, p + j)
      BY <2>1, <3>1
    <3> QED
      BY <1>4, <3>1, <3>2 DEF j
  <2>3. HasBits(x, w, b)
    BY <2>1, <2>2 DEF HasBits
  <2> QED
    BY <1>1, <1>3, <2>1, <2>3, BitsMake
<1>9. IsLow(v, s, p, w)
  BY <1>6, <1>7 DEF IsLow, BitOfNumber
<1> QED
  BY <1>5, <1>8, <1>9 DEF v

(* The low 13 bits of a number are those of its remainder by 8192.         *)
Remainder13(y, x) == y = x % 8192

(* So a bit of the remainder is one of the number.                         *)
LEMMA Low13 ==
  ASSUME NEW x \in Nat, NEW y, Remainder13(y, x), NEW j \in 0..12
  PROVE  BitOfNumber(y, j) = BitOfNumber(x, j)
<1>1. CASE j = 0
  BY <1>1, Powers DEF BitOfNumber, Remainder13
<1>2. CASE j = 1
  BY <1>2, Powers DEF BitOfNumber, Remainder13
<1>3. CASE j = 2
  BY <1>3, Powers DEF BitOfNumber, Remainder13
<1>4. CASE j = 3
  BY <1>4, Powers DEF BitOfNumber, Remainder13
<1>5. CASE j = 4
  BY <1>5, Powers DEF BitOfNumber, Remainder13
<1>6. CASE j = 5
  BY <1>6, Powers DEF BitOfNumber, Remainder13
<1>7. CASE j = 6
  BY <1>7, Powers DEF BitOfNumber, Remainder13
<1>8. CASE j = 7
  BY <1>8, Powers DEF BitOfNumber, Remainder13
<1>9. CASE j = 8
  BY <1>9, MorePowers DEF BitOfNumber, Remainder13
<1>10. CASE j = 9
  BY <1>10, MorePowers DEF BitOfNumber, Remainder13
<1>11. CASE j = 10
  BY <1>11, MorePowers DEF BitOfNumber, Remainder13
<1>12. CASE j = 11
  BY <1>12, MorePowers DEF BitOfNumber, Remainder13
<1>13. CASE j = 12
  BY <1>13, MorePowers DEF BitOfNumber, Remainder13
<1> QED
  BY <1>1, <1>2, <1>3, <1>4, <1>5, <1>6, <1>7, <1>8, <1>9, <1>10, <1>11, <1>12, <1>13

(* A number, taken apart by 91, is a pair of digits if it is small enough. *)
Digit91 == {d \in Nat : d < 91}

(* Taken apart by 91, what is 8280 at most makes two digits.               *)
LEMMA PairOfDigits ==
  ASSUME NEW q \in Nat, q <= 8280
  PROVE  q % 91 \in Digit91 /\ q \div 91 \in Digit91 /\ (q % 91) + 91 * (q \div 91) = q
BY DEF Digit91

(* The first n of these bits are those of the bytes from bit p on.         *)
Covers(bits, s, p, n) ==
  /\ bits \in Seq({0, 1}) /\ n <= Len(bits)
  /\ \A k \in 1..n : bits[k] = LowBit(s, p + k - 1)

(* They are w bits in all.                                                 *)
CoversIn(bits, s, p, n, w) == Covers(bits, s, p, n) /\ Len(bits) = w

(* The bits of a word, and more if one asks for more.                      *)
LEMMA LowBitsCover ==
  ASSUME NEW s, NEW p \in Nat, NEW n \in 0..14, NEW w \in n..14, NEW q, IsLow(q, s, p, n)
  PROVE  CoversIn(LowBits(q, w), s, p, n, w)
<1> DEFINE b == LowBits(q, w)
<1>1. q \in Nat /\ \A j \in 0..(n - 1) : (q \div 2^j) % 2 = LowBit(s, p + j)
  BY DEF IsLow, BitOfNumber
<1>2. b = [k \in 1..w |-> (q \div 2^(k - 1)) % 2]
  BY DEF LowBits
<1> HIDE DEF b
<1>3. ASSUME NEW k \in 1..w PROVE (q \div 2^(k - 1)) % 2 \in {0, 1}
  <2>1. k - 1 \in 0..14
    OBVIOUS
  <2> QED
    BY <1>1, <2>1, ShiftType
<1>4. b \in Seq({0, 1}) /\ Len(b) = w
  BY <1>2, <1>3
<1>5. ASSUME NEW k \in 1..n PROVE b[k] = LowBit(s, p + k - 1)
  <2> DEFINE j == k - 1
  <2>1. j \in 0..(n - 1) /\ k \in 1..w /\ p + j = p + k - 1
    OBVIOUS
  <2>2. b[k] = (q \div 2^j) % 2
    BY <1>2, <2>1
  <2> HIDE DEF j
  <2> QED
    BY <1>1, <2>1, <2>2
<1> QED
  BY <1>4, <1>5 DEF CoversIn, Covers, b

(* Bits behind bits.                                                       *)
LEMMA CoversBoth ==
  ASSUME NEW x, NEW y, NEW s, NEW p \in Nat, NEW w \in Nat, NEW n \in Nat,
         CoversIn(x, s, p, w, w), NEW m, CoversIn(y, s, p + w, n, m)
  PROVE  CoversIn(x \o y, s, p, w + n, w + m)
<1>1. /\ x \in Seq({0, 1}) /\ \A k \in 1..w : x[k] = LowBit(s, p + k - 1)
      /\ Len(x) = w /\ Len(y) = m
      /\ y \in Seq({0, 1}) /\ n <= Len(y) /\ \A k \in 1..n : y[k] = LowBit(s, (p + w) + k - 1)
  BY DEF CoversIn, Covers
<1> DEFINE z == x \o y
<1>2. m \in Nat
  BY <1>1
<1>3. z \in Seq({0, 1}) /\ Len(z) = w + m
  BY <1>1, <1>2, ConcatProperties
<1>4. \A k \in 1..(w + m) : z[k] = IF k <= w THEN x[k] ELSE y[k - w]
  <2>1. \A k \in 1..(Len(x) + Len(y)) : z[k] = IF k <= Len(x) THEN x[k] ELSE y[k - Len(x)]
    BY <1>1, ConcatProperties
  <2> HIDE DEF z
  <2> QED
    BY <1>1, <2>1
<1> HIDE DEF z
<1>5. ASSUME NEW k \in 1..(w + n) PROVE z[k] = LowBit(s, p + k - 1)
  <2>1. k \in 1..(w + m)
    BY <1>1, <1>2
  <2>2. CASE k <= w
    BY <1>1, <1>4, <2>1, <2>2
  <2>3. CASE ~(k <= w)
    <3> DEFINE j == k - w
    <3>1. j \in 1..n /\ (p + w) + j - 1 = p + k - 1
      BY <2>3
    <3>2. z[k] = y[j]
      BY <1>4, <2>1, <2>3
    <3> HIDE DEF j
    <3> QED
      BY <1>1, <3>1, <3>2
  <2> QED
    BY <2>2, <2>3
<1> QED
  BY <1>1, <1>2, <1>3, <1>5 DEF CoversIn, Covers, z

-----------------------------------------------------------------------------
(* Base91: the digits of a piece of the bytes, and its bits again.         *)

(* The bits of a whole pair: 14 if their low 13 are worth 88 at most.      *)
LEMMA PairWidth ==
  ASSUME NEW s \in Seq(0..255), NEW p \in Nat, p + 14 <= 8 * Len(s)
  PROVE  LET w == Width(s, p)  q == LowWord(s, p, w)
         IN  /\ w \in {13, 14} /\ IsLow(q, s, p, w) /\ q <= 8280
             /\ PairBits(q % 8192) = w
<1> DEFINE l == LowWord(s, p, 13)
           w == Width(s, p)
           q == LowWord(s, p, w)
<1>1. Inside(s, p, 13) /\ Inside(s, p, 14) /\ 8 * Len(s) - p > 13
  <2>1. PICK e \in Nat : e = 8 * Len(s)
    OBVIOUS
  <2>2. p + 13 <= e /\ p + 14 <= e /\ e - p > 13
    BY <2>1
  <2> QED
    BY <2>1, <2>2 DEF Inside
<1>2. IsLow(l, s, p, 13)
  BY <1>1, LowWordIs
<1>3. w = PairBits(l)
  BY <1>1 DEF Width
<1> HIDE DEF l, w
<1>4. l \in Nat /\ l < 8192
  BY <1>2, MorePowers DEF IsLow
<1>5. CASE l > 88
  <2>1. w = 13
    BY <1>3, <1>5 DEF PairBits
  <2>2. q = l
    BY <2>1 DEF l
  <2> HIDE DEF q
  <2>3. l % 8192 = l
    BY <1>4
  <2>4. PairBits(q % 8192) = 13
    BY <1>5, <2>2, <2>3 DEF PairBits
  <2> QED
    BY <1>2, <1>4, <2>1, <2>2, <2>4 DEF w, q
<1>6. CASE ~(l > 88)
  <2>1. w = 14
    BY <1>3, <1>6 DEF PairBits
  <2>2. IsLow(q, s, p, 14)
    BY <1>1, <2>1, LowWordIs
  <2> HIDE DEF q
  <2>3. q \in Nat /\ q < 16384
    BY <2>2, MorePowers DEF IsLow
  <2>4. l = q % 8192
    <3>1. PICK y \in Nat : y = q % 8192 /\ y < 8192
      BY <2>3
    <3>2. ASSUME NEW j \in 0..12 PROVE BitOfNumber(y, j) = LowBit(s, p + j)
      <4>1. BitOfNumber(q, j) = LowBit(s, p + j)
        <5>1. j \in 0..(14 - 1)
          OBVIOUS
        <5> QED
          BY <2>2, <5>1 DEF IsLow
      <4>2. Remainder13(y, q)
        BY <3>1 DEF Remainder13
      <4>3. BitOfNumber(y, j) = BitOfNumber(q, j)
        BY <2>3, <4>2, Low13
      <4> QED
        BY <4>1, <4>3
    <3>3. IsLow(y, s, p, 13)
      <4>1. 13 - 1 = 12
        OBVIOUS
      <4> QED
        BY <3>1, <3>2, <4>1, MorePowers DEF IsLow
    <3>4. l = y
      BY <1>1, <3>3, LowWordIs DEF l
    <3> QED
      BY <3>1, <3>4
  <2>5. q <= 8280
    BY <1>6, <2>3, <2>4
  <2>6. PairBits(q % 8192) = 14
    BY <1>6, <2>4 DEF PairBits
  <2> QED
    BY <2>1, <2>2, <2>5, <2>6 DEF w, q
<1> QED
  BY <1>5, <1>6

(* Two digits for a pair, of w bits.                                       *)
PairAt(s, p, w, a, c) ==
  /\ w \in {13, 14} /\ Width(s, p) = w /\ DigitsAt(s, p) = <<a, c>>
  /\ a \in Digit91 /\ c \in Digit91
  /\ LET b == LowBits(a + 91 * c, PairBits((a + 91 * c) % 8192))
     IN  CoversIn(b, s, p, w, w)

(* Where 14 bits are left, a pair is written and read.                     *)
LEMMA PairPiece ==
  ASSUME NEW s \in Seq(0..255), NEW p \in Nat, p + 14 <= 8 * Len(s)
  PROVE  \E w, a, c \in Nat : PairAt(s, p, w, a, c)
<1>1. PICK w : w = Width(s, p)
  OBVIOUS
<1>2. PICK q : q = LowWord(s, p, w)
  OBVIOUS
<1>3. w \in {13, 14} /\ IsLow(q, s, p, w) /\ q <= 8280 /\ PairBits(q % 8192) = w
  BY <1>1, <1>2, PairWidth
<1>4. q \in Nat
  BY <1>3 DEF IsLow
<1>5. PICK a, c : a = q % 91 /\ c = q \div 91
  OBVIOUS
<1>6. a \in Digit91 /\ c \in Digit91 /\ a + 91 * c = q
  BY <1>3, <1>4, <1>5, PairOfDigits
<1>7. DigitsAt(s, p) = <<a, c>>
  <2>1. w # 0 /\ w > 7
    BY <1>3
  <2> QED
    BY <1>1, <1>2, <1>5, <2>1 DEF DigitsAt
<1>8. CoversIn(LowBits(q, w), s, p, w, w)
  <2>1. w \in 0..14 /\ w \in w..14
    BY <1>3
  <2>2. IsLow(q, s, p, w)
    BY <1>3
  <2> QED
    BY <2>1, <2>2, LowBitsCover
<1>9. PairAt(s, p, w, a, c)
  BY <1>1, <1>3, <1>6, <1>7, <1>8 DEF PairAt
<1>10. w \in Nat /\ a \in Nat /\ c \in Nat
  BY <1>3, <1>6 DEF Digit91
<1> QED
  BY <1>9, <1>10

(* Two digits for the last n bits.                                         *)
TwoAt(s, p, n, a, c) ==
  /\ n \in 7..13 /\ DigitsAt(s, p) = <<a, c>>
  /\ a \in Digit91 /\ c \in Digit91
  /\ LET b == LowBits(a + 91 * c, PairBits((a + 91 * c) % 8192))
     IN  \E l \in n..(n + 7) : CoversIn(b, s, p, n, l)
  /\ c = Quote => n = 13

(* One digit for the last n bits.                                          *)
OneAt(s, p, n, a) ==
  /\ n \in 1..7 /\ DigitsAt(s, p) = <<a>> /\ a \in Digit91
  /\ CoversIn(LowBits(a, 8), s, p, n, 8)

(* The words of up to 13 bits are smaller than these.                      *)
Small(q, n) == q < 8192 /\ (n <= 6 => q <= 90) /\ (n <= 12 => q < 8190)

(* The bounds of a word follow from its width.                             *)
LEMMA SmallWords ==
  ASSUME NEW s, NEW p, NEW n \in 1..13, NEW q, IsLow(q, s, p, n)
  PROVE  Small(q, n)
<1>1. q \in Nat /\ q < 2^n
  BY DEF IsLow
<1>2. CASE n = 1
  BY <1>1, <1>2, Powers DEF Small
<1>3. CASE n = 2
  BY <1>1, <1>3, Powers DEF Small
<1>4. CASE n = 3
  BY <1>1, <1>4, Powers DEF Small
<1>5. CASE n = 4
  BY <1>1, <1>5, Powers DEF Small
<1>6. CASE n = 5
  BY <1>1, <1>6, Powers DEF Small
<1>7. CASE n = 6
  BY <1>1, <1>7, Powers DEF Small
<1>8. CASE n = 7
  BY <1>1, <1>8, Powers DEF Small
<1>9. CASE n = 8
  BY <1>1, <1>9, MorePowers DEF Small
<1>10. CASE n = 9
  BY <1>1, <1>10, MorePowers DEF Small
<1>11. CASE n = 10
  BY <1>1, <1>11, MorePowers DEF Small
<1>12. CASE n = 11
  BY <1>1, <1>12, MorePowers DEF Small
<1>13. CASE n = 12
  BY <1>1, <1>13, MorePowers DEF Small
<1>14. CASE n = 13
  BY <1>1, <1>14, MorePowers DEF Small
<1> QED
  BY <1>2, <1>3, <1>4, <1>5, <1>6, <1>7, <1>8, <1>9, <1>10, <1>11, <1>12, <1>13, <1>14

(* The last bits, 13 at most, make two digits or one.                      *)
LEMMA LastPiece ==
  ASSUME NEW s \in Seq(0..255), NEW p \in Nat, NEW n \in 1..13, p + n = 8 * Len(s)
  PROVE  \/ \E a, c \in Nat : TwoAt(s, p, n, a, c)
         \/ \E a \in Nat : OneAt(s, p, n, a)
<1>1. PICK e \in Nat : e = 8 * Len(s)
  OBVIOUS
<1>2. Inside(s, p, n) /\ Width(s, p) = n
  <2>1. e - p = n /\ ~(n > 13) /\ n \in 0..14 /\ p + n <= e
    BY <1>1
  <2> QED
    BY <1>1, <2>1 DEF Inside, Width
<1>3. PICK q : q = LowWord(s, p, n)
  OBVIOUS
<1>4. IsLow(q, s, p, n)
  BY <1>2, <1>3, LowWordIs
<1>5. q \in Nat /\ q < 2^n
  BY <1>4 DEF IsLow
<1>6. q < 8192 /\ (n <= 6 => q <= 90) /\ (n <= 12 => q < 8190)
  <2>1. Small(q, n)
    BY <1>4, SmallWords
  <2> QED
    BY <2>1 DEF Small
<1>7. DigitsAt(s, p) = IF n > 7 \/ q > 90 THEN <<q % 91, q \div 91>> ELSE <<q>>
  BY <1>2, <1>3 DEF DigitsAt
<1>8. CASE n > 7 \/ q > 90
  <2>1. PICK a, c : a = q % 91 /\ c = q \div 91
    OBVIOUS
  <2>2. a \in Digit91 /\ c \in Digit91 /\ a + 91 * c = q
    BY <1>5, <1>6, <2>1, PairOfDigits
  <2>3. n \in 7..13
    <3>1. ~(n <= 6)
      BY <1>5, <1>6, <1>8
    <3> QED
      BY <3>1
  <2>4. c = Quote => n = 13
    <3>1. SUFFICES ASSUME c = Quote, n # 13 PROVE FALSE
      OBVIOUS
    <3>2. q < 8190
      BY <1>6, <3>1
    <3>3. a \in Nat /\ q = a + 91 * 90
      BY <2>2, <3>1 DEF Quote, Digit91
    <3> QED
      BY <3>2, <3>3
  <2>5. PICK w : w = PairBits(q % 8192)
    OBVIOUS
  <2>6. w \in {13, 14} /\ w \in n..14 /\ w \in n..(n + 7)
    <3>1. q % 8192 = q
      BY <1>5, <1>6
    <3>2. n > 7 => n + 7 >= 15
      OBVIOUS
    <3>3. n = 7 => w = 13
      BY <1>5, <1>8, <2>5, <3>1 DEF PairBits
    <3>4. w \in {13, 14}
      BY <2>5 DEF PairBits
    <3> QED
      BY <2>3, <3>2, <3>3, <3>4
  <2>7. CoversIn(LowBits(q, w), s, p, n, w)
    <3>1. n \in 0..14 /\ w \in n..14
      BY <2>6
    <3> QED
      BY <1>4, <3>1, LowBitsCover
  <2>8. TwoAt(s, p, n, a, c)
    BY <1>7, <1>8, <2>1, <2>2, <2>3, <2>4, <2>5, <2>6, <2>7 DEF TwoAt
  <2>9. a \in Nat /\ c \in Nat
    BY <2>2 DEF Digit91
  <2> QED
    BY <2>8, <2>9
<1>9. CASE ~(n > 7 \/ q > 90)
  <2>1. n \in 1..7 /\ q \in Digit91
    BY <1>5, <1>9 DEF Digit91
  <2>2. CoversIn(LowBits(q, 8), s, p, n, 8)
    <3>1. n \in 0..14 /\ 8 \in n..14
      BY <2>1
    <3> QED
      BY <1>4, <3>1, LowBitsCover
  <2>3. OneAt(s, p, n, q)
    BY <1>7, <1>9, <2>1, <2>2 DEF OneAt
  <2> QED
    BY <1>5, <2>3
<1> QED
  BY <1>8, <1>9

(* No digits for no bits.                                                  *)
LEMMA NoPiece ==
  ASSUME NEW s \in Seq(0..255), NEW p, p = 8 * Len(s)
  PROVE  DigitsAt(s, p) = <<>>
<1>1. PICK e \in Nat : e = 8 * Len(s)
  OBVIOUS
<1>2. e - e = 0 /\ ~(0 > 13)
  BY <1>1
<1>3. Width(s, p) = 0
  BY <1>1, <1>2 DEF Width
<1> QED
  BY <1>3 DEF DigitsAt

-----------------------------------------------------------------------------
(* Chains: sequences made piece by piece from a place on to the end.       *)

(* r[p] is the piece g[p] and then, where the chain goes on, what is made  *)
(* w[p] places later.                                                      *)
Chain(r, a, n, g, w, C) ==
  r = [p \in a..n |-> g[p] \o IF p \in C THEN r[p + w[p]] ELSE <<>>]

(* Such a chain exists, if it does not go on beyond its end.               *)
Forward(n, w, C) == \A p \in 0..n : p \in C => w[p] \in 1..(n - p)

(* It is made from the end on.                                             *)
LEMMA ChainExists ==
  ASSUME NEW n \in Nat, NEW g, NEW w, NEW C, Forward(n, w, C)
  PROVE  \E r : Chain(r, 0, n, g, w, C)
<1> DEFINE T == {m \in 0..n : \E r : Chain(r, n - m, n, g, w, C)}
<1> HIDE DEF T
<1>1. 0 \in T
  <2> DEFINE r == [p \in n..n |-> g[p] \o <<>>]
  <2>1. n \notin C
    <3>1. n \in C => w[n] \in 1..(n - n)
      BY DEF Forward
    <3>2. 1..(n - n) = {}
      OBVIOUS
    <3> QED
      BY <3>1, <3>2
  <2>2. \A p \in n..n : p = n
    OBVIOUS
  <2>3. r = [p \in n..n |-> g[p] \o IF p \in C THEN r[p + w[p]] ELSE <<>>]
    BY <2>1, <2>2
  <2>4. Chain(r, n, n, g, w, C)
    BY <2>3 DEF Chain
  <2>5. n - 0 = n /\ 0 \in 0..n
    OBVIOUS
  <2> HIDE DEF r
  <2> QED
    BY <2>4, <2>5 DEF T
<1>2. ASSUME NEW m \in 0..(n - 1), m \in T PROVE m + 1 \in T
  <2>1. PICK a \in Nat : a = n - m
    OBVIOUS
  <2>2. PICK c \in Nat : c = n - (m + 1)
    OBVIOUS
  <2>3. a = c + 1 /\ c \in 0..n /\ a <= n /\ m + 1 \in 0..n
    BY <2>1, <2>2
  <2>4. PICK u : Chain(u, a, n, g, w, C)
    BY <1>2, <2>1 DEF T
  <2>5. u = [p \in a..n |-> g[p] \o IF p \in C THEN u[p + w[p]] ELSE <<>>]
    BY <2>4 DEF Chain
  <2> DEFINE r == [p \in c..n |-> g[p] \o IF p \in C THEN u[p + w[p]] ELSE <<>>]
  <2>6. \A p \in a..n : r[p] = u[p]
    <3>1. \A p \in a..n : p \in c..n
      BY <2>3
    <3> QED
      BY <2>5, <3>1
  <2>7. ASSUME NEW p \in c..n, p \in C PROVE p + w[p] \in a..n
    <3>1. p \in 0..n
      BY <2>3
    <3>2. w[p] \in 1..(n - p)
      BY <2>7, <3>1 DEF Forward
    <3> HIDE DEF r
    <3> QED
      BY <2>3, <3>1, <3>2
  <2>8. r = [p \in c..n |-> g[p] \o IF p \in C THEN r[p + w[p]] ELSE <<>>]
    <3>1. \A p \in c..n : p \in C => r[p + w[p]] = u[p + w[p]]
      BY <2>6, <2>7
    <3>2. r = [p \in c..n |-> g[p] \o IF p \in C THEN u[p + w[p]] ELSE <<>>]
      OBVIOUS
    <3> HIDE DEF r
    <3> QED
      BY <3>1, <3>2
  <2>9. Chain(r, c, n, g, w, C)
    BY <2>8 DEF Chain
  <2> HIDE DEF r
  <2> QED
    BY <2>2, <2>3, <2>9 DEF T
<1>3. n \in T
  <2>1. \A m \in 0..n : m \in T
    BY <1>1, <1>2, UpTo
  <2> QED
    BY <2>1
<1>4. n - n = 0
  OBVIOUS
<1> QED
  BY <1>3, <1>4 DEF T

(* What holds of a place if it holds of all behind it holds everywhere.    *)
LEMMA DownTo ==
  ASSUME NEW n \in Nat, NEW T,
         \A p \in 0..n : (\A q \in (p + 1)..n : q \in T) => p \in T
  PROVE  \A p \in 0..n : p \in T
<1> DEFINE U == {m \in Nat : m <= n /\ n - m \notin T}
<1> SUFFICES ASSUME NEW p \in 0..n, p \notin T PROVE FALSE
  OBVIOUS
<1>1. U # {} /\ U \in SUBSET Nat
  <2>1. n - p \in Nat /\ n - p <= n /\ n - (n - p) = p
    OBVIOUS
  <2> QED
    BY <2>1
<1>2. PICK m \in U : \A k \in U : m <= k
  <2> HIDE DEF U
  <2> QED
    BY <1>1, Least
<1>3. PICK q \in 0..n : q = n - m /\ q \notin T
  BY <1>2
<1>4. ASSUME NEW x \in (q + 1)..n PROVE x \in T
  <2>1. m \in Nat
    BY <1>2
  <2>2. n - x \in Nat /\ n - x <= n /\ n - (n - x) = x /\ ~(m <= n - x)
    BY <1>3, <2>1
  <2>3. n - x \notin U
    <3> HIDE DEF U
    <3> QED
      BY <1>2, <2>2
  <2> QED
    BY <2>2, <2>3
<1> QED
  BY <1>3, <1>4

-----------------------------------------------------------------------------
(* Base91: what the encoder writes from a bit on, and what the decoder     *)
(* reads from a digit on.                                                  *)

(* r[p] are the digits of the bytes from bit p on.                         *)
Written91(r, s) ==
  r = [p \in 0..(8 * Len(s)) |->
         DigitsAt(s, p) \o IF p + 13 < 8 * Len(s) THEN r[p + Width(s, p)] ELSE <<>>]

(* b[i] are the bits of the digits behind the first i.                     *)
Read91(b, ch) ==
  b = [i \in 0..Len(ch) |-> BitsAt(ch, i) \o IF i + 1 < Len(ch) THEN b[i + 2] ELSE <<>>]

(* The encoder writes them from bit 0.                                     *)
LEMMA WrittenExists ==
  ASSUME NEW s \in Seq(0..255)
  PROVE  \E r : Written91(r, s) /\ EncodeB91(s) = r[0]
<1>1. PICK e \in Nat : e = 8 * Len(s)
  OBVIOUS
<1> DEFINE g == [p \in 0..e |-> DigitsAt(s, p)]
           w == [p \in 0..e |-> Width(s, p)]
           C == {p \in 0..e : p + 13 < e}
           r == CHOOSE r : r = [p \in 0..(8 * Len(s)) |->
                  DigitsAt(s, p) \o IF p + 13 < 8 * Len(s) THEN r[p + Width(s, p)] ELSE <<>>]
<1>2. Forward(e, w, C)
  <2>1. ASSUME NEW p \in 0..e, p \in C PROVE w[p] \in 1..(e - p)
    <3>1. p + 14 <= 8 * Len(s) /\ p \in Nat
      BY <1>1, <2>1
    <3>2. Width(s, p) \in {13, 14}
      BY <3>1, PairWidth
    <3>3. w[p] = Width(s, p)
      OBVIOUS
    <3> QED
      BY <1>1, <3>1, <3>2, <3>3
  <2> HIDE DEF w, C
  <2> QED
    BY <2>1 DEF Forward
<1>3. PICK u : Chain(u, 0, e, g, w, C)
  <2> HIDE DEF g, w, C
  <2> QED
    BY <1>2, ChainExists
<1>4. u = [p \in 0..e |-> g[p] \o IF p \in C THEN u[p + w[p]] ELSE <<>>]
  BY <1>3 DEF Chain
<1>5. u = [p \in 0..e |-> DigitsAt(s, p) \o IF p + 13 < e THEN u[p + Width(s, p)] ELSE <<>>]
  BY <1>4
<1>6. r = [p \in 0..(8 * Len(s)) |->
             DigitsAt(s, p) \o IF p + 13 < 8 * Len(s) THEN r[p + Width(s, p)] ELSE <<>>]
  <2>1. Written91(u, s)
    BY <1>1, <1>5 DEF Written91
  <2>2. \E x : x = [p \in 0..(8 * Len(s)) |->
             DigitsAt(s, p) \o IF p + 13 < 8 * Len(s) THEN x[p + Width(s, p)] ELSE <<>>]
    BY <2>1 DEF Written91
  <2> QED
    BY <2>2
<1>7. EncodeB91(s) = r[0]
  BY DEF EncodeB91
<1> HIDE DEF r
<1> QED
  BY <1>6, <1>7 DEF Written91

(* The decoder reads them from digit 0, and makes bytes of eight.          *)
LEMMA ReadExists ==
  ASSUME NEW ch, Len(ch) \in Nat
  PROVE  \E b : /\ Read91(b, ch)
                /\ DecodeB91(ch) = [k \in 1..(Len(b[0]) \div 8) |->
                                     Value([n \in 1..8 |-> b[0][8 * k + 1 - n]])]
<1>1. PICK e \in Nat : e = Len(ch)
  OBVIOUS
<1> DEFINE g == [i \in 0..e |-> BitsAt(ch, i)]
           w == [i \in 0..e |-> 2]
           C == {i \in 0..e : i + 1 < e}
           b == CHOOSE b : b = [i \in 0..Len(ch) |->
                  BitsAt(ch, i) \o IF i + 1 < Len(ch) THEN b[i + 2] ELSE <<>>]
<1>2. Forward(e, w, C)
  BY DEF Forward
<1>3. PICK u : Chain(u, 0, e, g, w, C)
  <2> HIDE DEF g, w, C
  <2> QED
    BY <1>2, ChainExists
<1>4. u = [p \in 0..e |-> g[p] \o IF p \in C THEN u[p + w[p]] ELSE <<>>]
  BY <1>3 DEF Chain
<1>5. u = [i \in 0..e |-> BitsAt(ch, i) \o IF i + 1 < e THEN u[i + 2] ELSE <<>>]
  BY <1>4
<1>6. b = [i \in 0..Len(ch) |-> BitsAt(ch, i) \o IF i + 1 < Len(ch) THEN b[i + 2] ELSE <<>>]
  <2>1. Read91(u, ch)
    BY <1>1, <1>5 DEF Read91
  <2>2. \E x : x = [i \in 0..Len(ch) |->
                     BitsAt(ch, i) \o IF i + 1 < Len(ch) THEN x[i + 2] ELSE <<>>]
    BY <2>1 DEF Read91
  <2> QED
    BY <2>2
<1>7. DecodeB91(ch) = [k \in 1..(Len(b[0]) \div 8) |->
                        Value([n \in 1..8 |-> b[0][8 * k + 1 - n]])]
  BY DEF DecodeB91
<1> HIDE DEF b
<1> QED
  BY <1>6, <1>7 DEF Read91

(* Behind the first i of the digits stand these, to the end.               *)
Ends(ch, i, t) == Len(ch) = i + Len(t) /\ \A k \in 1..Len(t) : ch[i + k] = t[k]

(* No digit, one, two, or two and more.                                    *)
LEMMA EndsNone ==
  ASSUME NEW ch, NEW i \in Nat, Ends(ch, i, <<>>)
  PROVE  i = Len(ch)
BY DEF Ends

(* One digit.                                                              *)
LEMMA EndsOne ==
  ASSUME NEW ch, NEW i \in Nat, NEW a, Ends(ch, i, <<a>>)
  PROVE  i + 1 = Len(ch) /\ ch[i + 1] = a
BY DEF Ends

(* Two digits.                                                             *)
LEMMA EndsTwo ==
  ASSUME NEW ch, NEW i \in Nat, NEW a, NEW c, Ends(ch, i, <<a, c>>)
  PROVE  i + 2 = Len(ch) /\ ch[i + 1] = a /\ ch[i + 2] = c
BY DEF Ends

(* Two digits and more.                                                    *)
LEMMA EndsBehind ==
  ASSUME NEW ch, NEW i \in Nat, NEW S, NEW a \in S, NEW c \in S, NEW t \in Seq(S),
         Ends(ch, i, <<a, c>> \o t)
  PROVE  ch[i + 1] = a /\ ch[i + 2] = c /\ Ends(ch, i + 2, t) /\ i + 2 <= Len(ch)
<1>1. PICK m \in Nat : m = Len(t)
  OBVIOUS
<1> DEFINE h == <<a, c>>
           u == h \o t
<1>2. h \in Seq(S) /\ Len(h) = 2 /\ h[1] = a /\ h[2] = c
  OBVIOUS
<1> HIDE DEF h
<1>3. Len(u) = 2 + m /\ \A k \in 1..(2 + m) : u[k] = IF k <= 2 THEN h[k] ELSE t[k - 2]
  <2>1. Len(u) = Len(h) + Len(t)
    BY <1>2, ConcatProperties
  <2>2. \A k \in 1..(Len(h) + Len(t)) : u[k] = IF k <= Len(h) THEN h[k] ELSE t[k - Len(h)]
    BY <1>2, ConcatProperties
  <2> HIDE DEF u
  <2> QED
    BY <1>1, <1>2, <2>1, <2>2
<1>4. Len(ch) = i + Len(u) /\ \A k \in 1..Len(u) : ch[i + k] = u[k]
  BY DEF Ends, h
<1> HIDE DEF u
<1>5. ch[i + 1] = a /\ ch[i + 2] = c
  <2>1. 1 \in 1..(2 + m) /\ 2 \in 1..(2 + m)
    BY <1>1
  <2>2. u[1] = a /\ u[2] = c
    BY <1>2, <1>3, <2>1
  <2> QED
    BY <1>3, <1>4, <2>1, <2>2
<1>6. ASSUME NEW k \in 1..m PROVE ch[(i + 2) + k] = t[k]
  <2> DEFINE j == 2 + k
  <2>1. j \in 1..(2 + m) /\ ~(j <= 2) /\ j - 2 = k /\ i + j = (i + 2) + k
    BY <1>1
  <2> HIDE DEF j
  <2>2. u[j] = t[k]
    BY <1>3, <2>1
  <2>3. ch[i + j] = u[j]
    BY <1>3, <1>4, <2>1
  <2> QED
    BY <2>1, <2>2, <2>3
<1>7. Len(ch) = (i + 2) + m
  BY <1>1, <1>3, <1>4
<1> QED
  BY <1>1, <1>5, <1>6, <1>7 DEF Ends

(* The ways the digits from bit p on are made.                             *)
WrittenSo(r, s, p, e) ==
  \/ p = e /\ r[p] = <<>>
  \/ \E a \in Nat : OneAt(s, p, e - p, a) /\ r[p] = <<a>>
  \/ \E a, c \in Nat : TwoAt(s, p, e - p, a, c) /\ r[p] = <<a, c>>
  \/ \E w, a, c \in Nat : /\ PairAt(s, p, w, a, c) /\ p + w <= e
                          /\ r[p] = <<a, c>> \o r[p + w]

(* There are no others.                                                    *)
LEMMA WrittenCases ==
  ASSUME NEW s \in Seq(0..255), NEW r, Written91(r, s), NEW e \in Nat, e = 8 * Len(s),
         NEW p \in 0..e
  PROVE  WrittenSo(r, s, p, e)
<1>1. r[p] = DigitsAt(s, p) \o IF p + 13 < e THEN r[p + Width(s, p)] ELSE <<>>
  BY DEF Written91
<1>2. CASE p = e
  <2>1. DigitsAt(s, p) = <<>>
    BY <1>2, NoPiece
  <2>2. ~(p + 13 < e)
    BY <1>2
  <2>3. r[p] = <<>>
    BY <1>1, <2>1, <2>2
  <2> QED
    BY <1>2, <2>3 DEF WrittenSo
<1>3. CASE p + 13 < e
  <2>1. p \in Nat /\ p + 14 <= 8 * Len(s) /\ p + 14 <= e
    BY <1>3
  <2>2. PICK w, a, c \in Nat : PairAt(s, p, w, a, c)
    BY <2>1, PairPiece
  <2>3. Width(s, p) = w /\ w \in {13, 14} /\ DigitsAt(s, p) = <<a, c>>
    BY <2>2 DEF PairAt
  <2>4. p + w <= e
    BY <2>1, <2>3
  <2>5. r[p] = <<a, c>> \o r[p + w]
    BY <1>1, <1>3, <2>3
  <2> QED
    BY <2>2, <2>4, <2>5 DEF WrittenSo
<1>4. CASE p # e /\ ~(p + 13 < e)
  <2>1. PICK n \in 1..13 : n = e - p /\ p + n = 8 * Len(s)
    BY <1>4
  <2>2. p \in Nat
    OBVIOUS
  <2>3. CASE \E a \in Nat : OneAt(s, p, n, a)
    <3>1. PICK a \in Nat : OneAt(s, p, n, a)
      BY <2>3
    <3>2. DigitsAt(s, p) = <<a>>
      BY <3>1 DEF OneAt
    <3>3. r[p] = <<a>>
      BY <1>1, <1>4, <3>2
    <3> QED
      BY <2>1, <3>1, <3>3 DEF WrittenSo
  <2>4. CASE \E a, c \in Nat : TwoAt(s, p, n, a, c)
    <3>1. PICK a, c \in Nat : TwoAt(s, p, n, a, c)
      BY <2>4
    <3>2. DigitsAt(s, p) = <<a, c>>
      BY <3>1 DEF TwoAt
    <3>3. r[p] = <<a, c>>
      BY <1>1, <1>4, <3>2
    <3> QED
      BY <2>1, <3>1, <3>3 DEF WrittenSo
  <2> QED
    BY <2>1, <2>2, <2>3, <2>4, LastPiece
<1> QED
  BY <1>2, <1>3, <1>4

(* Digits, and enough of them.                                             *)
LEMMA WrittenType ==
  ASSUME NEW s \in Seq(0..255), NEW r, Written91(r, s), NEW e \in Nat, e = 8 * Len(s)
  PROVE  \A p \in 0..e : r[p] \in Seq(Digit91) /\ 8 * Len(r[p]) >= e - p
<1> DEFINE Good(p) == r[p] \in Seq(Digit91) /\ 8 * Len(r[p]) >= e - p
           T == {p \in 0..e : Good(p)}
<1>1. ASSUME NEW p \in 0..e, \A q \in (p + 1)..e : q \in T PROVE p \in T
  <2>1. WrittenSo(r, s, p, e)
    BY WrittenCases
  <2>2. CASE p = e /\ r[p] = <<>>
    <3>1. <<>> \in Seq(Digit91) /\ Len(<<>>) = 0 /\ e - p <= 0
      BY <2>2
    <3>2. r[p] \in Seq(Digit91) /\ 8 * Len(r[p]) = 0
      BY <2>2, <3>1
    <3>3. Good(p)
      BY <3>1, <3>2
    <3> QED
      BY <3>3
  <2>3. CASE \E a \in Nat : OneAt(s, p, e - p, a) /\ r[p] = <<a>>
    <3>1. PICK a \in Nat : OneAt(s, p, e - p, a) /\ r[p] = <<a>>
      BY <2>3
    <3>2. a \in Digit91 /\ e - p \in 1..7
      BY <3>1 DEF OneAt
    <3>3. <<a>> \in Seq(Digit91) /\ Len(<<a>>) = 1
      BY <3>2
    <3>4. 8 * 1 >= e - p
      BY <3>2
    <3> QED
      BY <3>1, <3>3, <3>4
  <2>4. CASE \E a, c \in Nat : TwoAt(s, p, e - p, a, c) /\ r[p] = <<a, c>>
    <3>1. PICK a, c \in Nat : TwoAt(s, p, e - p, a, c) /\ r[p] = <<a, c>>
      BY <2>4
    <3>2. a \in Digit91 /\ c \in Digit91 /\ e - p \in 7..13
      BY <3>1 DEF TwoAt
    <3>3. <<a, c>> \in Seq(Digit91) /\ Len(<<a, c>>) = 2
      BY <3>2
    <3>4. 8 * 2 >= e - p
      BY <3>2
    <3> QED
      BY <3>1, <3>3, <3>4
  <2>5. CASE \E w, a, c \in Nat : /\ PairAt(s, p, w, a, c) /\ p + w <= e
                                  /\ r[p] = <<a, c>> \o r[p + w]
    <3>1. PICK w, a, c \in Nat : /\ PairAt(s, p, w, a, c) /\ p + w <= e
                                 /\ r[p] = <<a, c>> \o r[p + w]
      BY <2>5
    <3>2. a \in Digit91 /\ c \in Digit91 /\ w \in {13, 14}
      BY <3>1 DEF PairAt
    <3>3. PICK q \in (p + 1)..e : q = p + w
      BY <3>1, <3>2
    <3>4. Good(q)
      BY <1>1
    <3>5. PICK t \in Seq(Digit91), m \in Nat : t = r[q] /\ m = Len(t) /\ 8 * m >= e - q
      BY <3>4
    <3>6. <<a, c>> \in Seq(Digit91) /\ Len(<<a, c>>) = 2
      BY <3>2
    <3>7. <<a, c>> \o t \in Seq(Digit91) /\ Len(<<a, c>> \o t) = 2 + m
      BY <3>5, <3>6, ConcatProperties
    <3>8. 8 * (2 + m) >= e - p
      BY <3>2, <3>3, <3>5
    <3>9. r[p] = <<a, c>> \o t
      BY <3>1, <3>3, <3>5
    <3> QED
      BY <3>7, <3>8, <3>9
  <2> HIDE DEF T, Good
  <2> QED
    BY <2>1, <2>2, <2>3, <2>4, <2>5 DEF WrittenSo
<1>2. \A p \in 0..e : p \in T
  <2> HIDE DEF T
  <2> QED
    BY <1>1, DownTo
<1> QED
  BY <1>2

(* What the decoder reads behind the first i digits: nothing, the eight    *)
(* bits of one digit, or the bits of a pair and what is behind it.         *)
LEMMA ReadNone ==
  ASSUME NEW ch, NEW b, Read91(b, ch), NEW l \in Nat, l = Len(ch)
  PROVE  b[l] = <<>>
<1>1. l \in 0..l /\ ~(l + 1 < l) /\ ~(l < l)
  OBVIOUS
<1>2. b[l] = BitsAt(ch, l) \o IF l + 1 < l THEN b[l + 2] ELSE <<>>
  BY <1>1 DEF Read91
<1>3. BitsAt(ch, l) = <<>>
  BY <1>1 DEF BitsAt
<1>4. b[l] = <<>> \o <<>>
  BY <1>1, <1>2, <1>3
<1> QED
  BY <1>4

(* The last digit, alone.                                                  *)
LEMMA ReadOne ==
  ASSUME NEW ch, NEW b, Read91(b, ch), NEW l \in Nat, l = Len(ch),
         NEW i \in 0..l, i + 1 = l, NEW a, a = ch[i + 1]
  PROVE  b[i] = LowBits(a, 8) \o <<>>
<1>1. ~(i + 1 < l) /\ i < l
  OBVIOUS
<1>2. b[i] = BitsAt(ch, i) \o IF i + 1 < l THEN b[i + 2] ELSE <<>>
  BY DEF Read91
<1>3. BitsAt(ch, i) = LowBits(a, 8)
  BY <1>1 DEF BitsAt
<1> QED
  BY <1>1, <1>2, <1>3

(* The bits of a pair of digits.                                           *)
PairOf(x, a, c) == x = LowBits(a + 91 * c, PairBits((a + 91 * c) % 8192))

(* Two digits and what is behind them.                                     *)
LEMMA ReadPair ==
  ASSUME NEW ch, NEW b, Read91(b, ch), NEW i \in 0..Len(ch), i + 1 < Len(ch),
         NEW x, PairOf(x, ch[i + 1], ch[i + 2])
  PROVE  b[i] = x \o b[i + 2]
<1>1. b[i] = BitsAt(ch, i) \o IF i + 1 < Len(ch) THEN b[i + 2] ELSE <<>>
  BY DEF Read91
<1>2. BitsAt(ch, i) = x
  BY DEF BitsAt, PairOf
<1>3. b[i] = BitsAt(ch, i) \o b[i + 2]
  BY <1>1
<1> QED
  BY <1>2, <1>3

(* Bits with nothing behind them.                                          *)
LEMMA CoversAlone ==
  ASSUME NEW x, NEW s, NEW p, NEW n, NEW l, CoversIn(x, s, p, n, l)
  PROVE  CoversIn(x \o <<>>, s, p, n, l)
<1>1. x \in Seq({0, 1})
  BY DEF CoversIn, Covers
<1>2. x \o <<>> = x
  BY <1>1
<1> QED
  BY <1>2

(* What is read of all digits are the bits of the bytes, and at most seven *)
(* more.                                                                   *)
ReadBack(x, s, p, e) == \E l \in (e - p)..(e - p + 7) : CoversIn(x, s, p, e - p, l)

(* From the last digits on to all of them.                                 *)
LEMMA AllReadBack ==
  ASSUME NEW s \in Seq(0..255), NEW r, Written91(r, s), NEW e \in Nat, e = 8 * Len(s),
         NEW ch, NEW l \in Nat, l = Len(ch), NEW b, Read91(b, ch)
  PROVE  \A p \in 0..e : \A i \in 0..l : Ends(ch, i, r[p]) => ReadBack(b[i], s, p, e)
<1> DEFINE Good(p) == \A i \in 0..l : Ends(ch, i, r[p]) => ReadBack(b[i], s, p, e)
           T == {p \in 0..e : Good(p)}
<1>1. ASSUME NEW p \in 0..e, \A q \in (p + 1)..e : q \in T PROVE p \in T
  <2>1. WrittenSo(r, s, p, e)
    BY WrittenCases
  <2>2. ASSUME NEW i \in 0..l, Ends(ch, i, r[p]) PROVE ReadBack(b[i], s, p, e)
    <3>1. i \in Nat
      OBVIOUS
    <3>2. CASE p = e /\ r[p] = <<>>
      <4>0. Ends(ch, i, <<>>)
        BY <2>2, <3>2
      <4>1. i = l
        BY <3>1, <4>0, EndsNone
      <4>2. b[i] = <<>>
        BY <4>1, ReadNone
      <4>3. e - p = 0 /\ 0 \in 0..7
        BY <3>2
      <4>4. CoversIn(<<>>, s, p, 0, 0)
        BY DEF CoversIn, Covers
      <4> QED
        BY <4>2, <4>3, <4>4 DEF ReadBack
    <3>3. CASE \E a \in Nat : OneAt(s, p, e - p, a) /\ r[p] = <<a>>
      <4>1. PICK a \in Nat : OneAt(s, p, e - p, a) /\ r[p] = <<a>>
        BY <3>3
      <4>2. e - p \in 1..7 /\ CoversIn(LowBits(a, 8), s, p, e - p, 8)
        BY <4>1 DEF OneAt
      <4>3. i + 1 = l /\ ch[i + 1] = a
        <5>1. Ends(ch, i, <<a>>)
          BY <2>2, <4>1
        <5> QED
          BY <3>1, <5>1, EndsOne
      <4>4. b[i] = LowBits(a, 8) \o <<>>
        BY <4>3, ReadOne
      <4>5. CoversIn(b[i], s, p, e - p, 8)
        BY <4>2, <4>4, CoversAlone
      <4>6. 8 \in (e - p)..(e - p + 7)
        BY <4>2
      <4> QED
        BY <4>5, <4>6 DEF ReadBack
    <3>4. CASE \E a, c \in Nat : TwoAt(s, p, e - p, a, c) /\ r[p] = <<a, c>>
      <4>1. PICK a, c \in Nat : TwoAt(s, p, e - p, a, c) /\ r[p] = <<a, c>>
        BY <3>4
      <4>2. PICK x : PairOf(x, a, c)
        BY DEF PairOf
      <4>3. PICK m \in (e - p)..(e - p + 7) : CoversIn(x, s, p, e - p, m)
        BY <4>1, <4>2 DEF TwoAt, PairOf
      <4>4. i + 2 = l /\ ch[i + 1] = a /\ ch[i + 2] = c
        <5>1. Ends(ch, i, <<a, c>>)
          BY <2>2, <4>1
        <5> QED
          BY <3>1, <5>1, EndsTwo
      <4>5. b[i] = x \o b[l]
        <5>1. i + 1 < Len(ch) /\ PairOf(x, ch[i + 1], ch[i + 2]) /\ i \in 0..Len(ch)
          BY <4>2, <4>4
        <5>2. b[i] = x \o b[i + 2]
          BY <5>1, ReadPair
        <5> QED
          BY <4>4, <5>2
      <4>6. b[l] = <<>>
        BY ReadNone
      <4>7. CoversIn(b[i], s, p, e - p, m)
        BY <4>3, <4>5, <4>6, CoversAlone
      <4> QED
        BY <4>3, <4>7 DEF ReadBack
    <3>5. CASE \E w, a, c \in Nat : /\ PairAt(s, p, w, a, c) /\ p + w <= e
                                    /\ r[p] = <<a, c>> \o r[p + w]
      <4>1. PICK w, a, c \in Nat : /\ PairAt(s, p, w, a, c) /\ p + w <= e
                                   /\ r[p] = <<a, c>> \o r[p + w]
        BY <3>5
      <4>2. PICK x : PairOf(x, a, c)
        BY DEF PairOf
      <4>3. /\ CoversIn(x, s, p, w, w) /\ w \in {13, 14}
            /\ a \in Digit91 /\ c \in Digit91
        BY <4>1, <4>2 DEF PairAt, PairOf
      <4>4. PICK q \in (p + 1)..e : q = p + w
        BY <4>1, <4>3
      <4>5. PICK t \in Seq(Digit91) : t = r[q]
        <5>1. q \in 0..e
          OBVIOUS
        <5> QED
          BY <5>1, WrittenType
      <4>6. ch[i + 1] = a /\ ch[i + 2] = c /\ Ends(ch, i + 2, t) /\ i + 2 <= l
        <5>1. Ends(ch, i, <<a, c>> \o t)
          BY <2>2, <4>1, <4>4, <4>5
        <5> QED
          BY <3>1, <4>3, <5>1, EndsBehind
      <4>7. PICK j \in 0..l : j = i + 2
        BY <4>6
      <4>8. b[i] = x \o b[j]
        <5>1. i + 1 < Len(ch) /\ PairOf(x, ch[i + 1], ch[i + 2]) /\ i \in 0..Len(ch)
          BY <4>2, <4>6
        <5>2. b[i] = x \o b[i + 2]
          BY <5>1, ReadPair
        <5> QED
          BY <4>7, <5>2
      <4>9. ReadBack(b[j], s, q, e)
        <5>1. Good(q)
          BY <1>1
        <5> QED
          BY <4>5, <4>6, <4>7, <5>1
      <4>10. PICK m \in (e - q)..(e - q + 7) : CoversIn(b[j], s, q, e - q, m)
        BY <4>9 DEF ReadBack
      <4>11. CoversIn(x \o b[j], s, p, w + (e - q), w + m)
        <5>1. PICK n \in Nat : n = e - q
          <6>1. e - q \in Nat
            <7>1. q \in Nat /\ q <= e
              BY <4>4
            <7> QED
              BY <7>1
          <6> QED
            BY <6>1
        <5>2. p \in Nat
          OBVIOUS
        <5> QED
          BY <4>3, <4>4, <4>10, <5>1, <5>2, CoversBoth
      <4>12. w + (e - q) = e - p /\ w + m \in (e - p)..(e - p + 7)
        BY <4>3, <4>4
      <4> QED
        BY <4>8, <4>11, <4>12 DEF ReadBack
    <3> HIDE DEF T, Good
    <3> QED
      BY <2>1, <3>2, <3>3, <3>4, <3>5 DEF WrittenSo
  <2> QED
    BY <2>2
<1>2. \A p \in 0..e : p \in T
  <2> HIDE DEF T
  <2> QED
    BY <1>1, DownTo
<1> QED
  BY <1>2

(* Bits, this many of them.                                                *)
Many(x, n) == x \in Seq({0, 1}) /\ Len(x) = n

(* The bits of a number.                                                   *)
LEMMA ManyLowBits ==
  ASSUME NEW q \in Nat, NEW w \in 0..14
  PROVE  Many(LowBits(q, w) \o <<>>, w)
<1> DEFINE b == LowBits(q, w)
<1>1. ASSUME NEW k \in 1..w PROVE (q \div 2^(k - 1)) % 2 \in {0, 1}
  <2>1. k - 1 \in 0..14
    OBVIOUS
  <2>2. PICK h \in Nat : h = q \div 2^(k - 1)
    BY <2>1, ShiftType
  <2>3. h % 2 \in {0, 1}
    OBVIOUS
  <2> QED
    BY <2>2, <2>3
<1>2. b \in Seq({0, 1}) /\ Len(b) = w
  <2>1. b = [n \in 1..w |-> (q \div 2^(n - 1)) % 2]
    BY DEF LowBits
  <2> HIDE DEF b
  <2>2. w \in Nat
    OBVIOUS
  <2> QED
    BY <1>1, <2>1, <2>2
<1> HIDE DEF b
<1>3. b \o <<>> = b
  BY <1>2
<1> QED
  BY <1>2, <1>3 DEF b, Many

(* Bits behind bits.                                                       *)
LEMMA ManyBoth ==
  ASSUME NEW n \in Nat, NEW m \in Nat, NEW x, NEW y, Many(x, n), Many(y, m)
  PROVE  Many(x \o y, n + m)
<1>1. x \o y \in Seq({0, 1})
  BY ConcatProperties DEF Many
<1>2. Len(x \o y) = Len(x) + Len(y)
  BY ConcatProperties DEF Many
<1> QED
  BY <1>1, <1>2 DEF Many

(* The first z of the characters.                                          *)
Cut(cut, ch, z) == Len(cut) = z /\ \A k \in 1..z : cut[k] = ch[k]

(* Of digits that are cut at a quotation mark too few bits are read.       *)
Short(x, p, e) == \E n \in Nat : Many(x, n) /\ n < e - p

(* From the cut on back to the first digit.                                *)
LEMMA CutShort ==
  ASSUME NEW s \in Seq(0..255), NEW r, Written91(r, s), NEW e \in Nat, e = 8 * Len(s),
         NEW ch, NEW z \in Nat, NEW l \in Nat, l = Len(ch), z < l, ch[z + 1] = Quote,
         NEW cut, Cut(cut, ch, z), NEW b, Read91(b, cut)
  PROVE  \A p \in 0..e : \A i \in 0..z : Ends(ch, i, r[p]) => Short(b[i], p, e)
<1> DEFINE Good(p) == \A i \in 0..z : Ends(ch, i, r[p]) => Short(b[i], p, e)
           T == {p \in 0..e : Good(p)}
<1>1. z = Len(cut) /\ z \in 0..z
  BY DEF Cut
<1>2. b[z] = <<>>
  BY <1>1, ReadNone
<1>3. Many(<<>>, 0)
  BY DEF Many
<1>4. ASSUME NEW i \in 0..z, i + 1 = z, NEW a \in Nat, a = ch[i + 1] PROVE Many(b[i], 8)
  <2>1. a = cut[i + 1]
    BY <1>4 DEF Cut
  <2>2. b[i] = LowBits(a, 8) \o <<>>
    BY <1>1, <1>4, <2>1, ReadOne
  <2>3. 8 \in 0..14
    OBVIOUS
  <2> QED
    BY <2>2, <2>3, ManyLowBits
<1>5. ASSUME NEW p \in 0..e, \A q \in (p + 1)..e : q \in T PROVE p \in T
  <2>1. WrittenSo(r, s, p, e)
    BY WrittenCases
  <2>2. ASSUME NEW i \in 0..z, Ends(ch, i, r[p]) PROVE Short(b[i], p, e)
    <3>1. i \in Nat
      OBVIOUS
    <3>2. CASE p = e /\ r[p] = <<>>
      <4>1. Ends(ch, i, <<>>)
        BY <2>2, <3>2
      <4>2. i = l
        BY <3>1, <4>1, EndsNone
      <4> QED
        BY <4>2
    <3>3. CASE \E a \in Nat : OneAt(s, p, e - p, a) /\ r[p] = <<a>>
      <4>1. PICK a \in Nat : OneAt(s, p, e - p, a) /\ r[p] = <<a>>
        BY <3>3
      <4>2. Ends(ch, i, <<a>>) /\ 0 < e - p
        BY <2>2, <4>1 DEF OneAt
      <4>3. i + 1 = l
        BY <3>1, <4>2, EndsOne
      <4>4. i = z
        BY <4>3
      <4> QED
        BY <1>2, <1>3, <4>2, <4>4 DEF Short
    <3>4. CASE \E a, c \in Nat : TwoAt(s, p, e - p, a, c) /\ r[p] = <<a, c>>
      <4>1. PICK a, c \in Nat : TwoAt(s, p, e - p, a, c) /\ r[p] = <<a, c>>
        BY <3>4
      <4>2. Ends(ch, i, <<a, c>>) /\ 0 < e - p /\ (c = Quote => 8 < e - p)
        <5>1. Ends(ch, i, <<a, c>>)
          BY <2>2, <4>1
        <5>2. PICK n : n = e - p
          OBVIOUS
        <5>3. n \in 7..13 /\ (c = Quote => n = 13)
          BY <4>1, <5>2 DEF TwoAt
        <5>4. 0 < n /\ (c = Quote => 8 < n)
          BY <5>3
        <5> QED
          BY <5>1, <5>2, <5>4
      <4>3. i + 2 = l /\ ch[i + 1] = a /\ ch[i + 2] = c
        BY <3>1, <4>2, EndsTwo
      <4>4. CASE i = z
        BY <1>2, <1>3, <4>2, <4>4 DEF Short
      <4>5. CASE i + 1 = z
        <5>1. z + 1 = i + 2
          BY <4>5
        <5>2. 8 < e - p
          BY <4>2, <4>3, <5>1
        <5>3. Many(b[i], 8)
          BY <1>4, <4>3, <4>5
        <5> QED
          BY <5>2, <5>3 DEF Short
      <4>6. i = z \/ i + 1 = z
        BY <4>3
      <4> QED
        BY <4>4, <4>5, <4>6
    <3>5. CASE \E w, a, c \in Nat : /\ PairAt(s, p, w, a, c) /\ p + w <= e
                                    /\ r[p] = <<a, c>> \o r[p + w]
      <4>1. PICK w, a, c \in Nat : /\ PairAt(s, p, w, a, c) /\ p + w <= e
                                   /\ r[p] = <<a, c>> \o r[p + w]
        BY <3>5
      <4>2. PICK x : PairOf(x, a, c)
        BY DEF PairOf
      <4>3. /\ CoversIn(x, s, p, w, w) /\ w \in {13, 14}
            /\ a \in Digit91 /\ c \in Digit91
        BY <4>1, <4>2 DEF PairAt, PairOf
      <4>4. PICK q \in (p + 1)..e : q = p + w
        BY <4>1, <4>3
      <4>5. PICK t \in Seq(Digit91) : t = r[q]
        <5>1. q \in 0..e
          OBVIOUS
        <5> QED
          BY <5>1, WrittenType
      <4>6. ch[i + 1] = a /\ ch[i + 2] = c /\ Ends(ch, i + 2, t) /\ i + 2 <= l
        <5>1. Ends(ch, i, <<a, c>> \o t)
          BY <2>2, <4>1, <4>4, <4>5
        <5> QED
          BY <3>1, <4>3, <5>1, EndsBehind
      <4>7. 0 < e - p /\ 8 < e - p
        BY <4>1, <4>3
      <4>8. CASE i = z
        BY <1>2, <1>3, <4>7, <4>8 DEF Short
      <4>9. CASE i + 1 = z
        <5>1. Many(b[i], 8)
          BY <1>4, <4>6, <4>9
        <5> QED
          BY <4>7, <5>1 DEF Short
      <4>10. CASE i + 2 <= z
        <5>1. PICK j \in 0..z : j = i + 2
          BY <4>10
        <5>2. cut[i + 1] = a /\ cut[i + 2] = c
          <6>1. i + 1 \in 1..z /\ i + 2 \in 1..z
            BY <4>10
          <6> QED
            BY <4>6, <6>1 DEF Cut
        <5>3. b[i] = x \o b[j]
          <6>1. i + 1 < Len(cut) /\ PairOf(x, cut[i + 1], cut[i + 2]) /\ i \in 0..Len(cut)
            BY <1>1, <4>2, <4>10, <5>2
          <6>2. b[i] = x \o b[i + 2]
            BY <6>1, ReadPair
          <6> QED
            BY <5>1, <6>2
        <5>4. Short(b[j], q, e)
          <6>1. Good(q)
            BY <1>5
          <6> QED
            BY <4>4, <4>5, <4>6, <5>1, <6>1
        <5>5. PICK n \in Nat : Many(b[j], n) /\ n < e - q
          BY <5>4 DEF Short
        <5>6. Many(x, w)
          BY <4>3 DEF CoversIn, Covers, Many
        <5>7. Many(b[i], w + n)
          BY <5>3, <5>5, <5>6, ManyBoth
        <5>8. w + n \in Nat /\ w + n < e - p
          BY <4>4, <5>5
        <5> QED
          BY <5>7, <5>8 DEF Short
      <4>11. i = z \/ i + 1 = z \/ i + 2 <= z
        OBVIOUS
      <4> QED
        BY <4>8, <4>9, <4>10, <4>11
    <3> HIDE DEF T, Good
    <3> QED
      BY <2>1, <3>2, <3>3, <3>4, <3>5 DEF WrittenSo
  <2> QED
    BY <2>2
<1>6. \A p \in 0..e : p \in T
  <2> HIDE DEF T
  <2> QED
    BY <1>5, DownTo
<1> QED
  BY <1>6

(* base91 brings back every message whose digits have no quotation mark;   *)
(* what is cut at one is too short.                                        *)

(* A byte is less than 256.                                                *)
LEMMA ByteBelow ==
  ASSUME NEW x \in 0..255
  PROVE  x \in Nat /\ x < 256
OBVIOUS

(* Eight bits in a row are their byte.                                     *)
LEMMA ByteOfLowBits ==
  ASSUME NEW s \in Seq(0..255), NEW k \in 1..Len(s), NEW c,
         c = [m \in 1..8 |-> LowBit(s, 8 * k - m)]
  PROVE  Value(c) = s[k]
<1>1. PICK x : x = s[k] /\ x \in 0..255
  BY ElementOfSeq
<1>2. x \in Nat /\ x < 256 /\ 256 = 2^8
  <2>1. x \in Nat /\ x < 256
    BY <1>1, ByteBelow
  <2>2. 256 = 2^8
    BY MorePowers
  <2> QED
    BY <2>1, <2>2
<1>3. k \in Nat
  OBVIOUS
<1>4. ASSUME NEW m \in 1..8 PROVE LowBit(s, 8 * k - m) = (x \div 2^(8 - m)) % 2
  <2>1. (8 * k - m) \div 8 = k - 1 /\ (8 * k - m) % 8 = 8 - m
    BY <1>3
  <2>2. (k - 1) + 1 = k
    BY <1>3
  <2> QED
    BY <1>1, <2>1, <2>2 DEF LowBit
<1>5. ASSUME NEW m \in 1..8 PROVE (x \div 2^(8 - m)) % 2 \in {0, 1}
  <2>1. 8 - m \in 0..14
    OBVIOUS
  <2>2. PICK h \in Nat : h = x \div 2^(8 - m)
    BY <1>2, <2>1, ShiftType
  <2>3. h % 2 \in {0, 1}
    OBVIOUS
  <2> QED
    BY <2>2, <2>3
<1>6. c \in Seq({0, 1}) /\ Len(c) = 8 /\ \A m \in 1..8 : c[m] = (x \div 2^(8 - m)) % 2
  BY <1>4, <1>5
<1>7. HasBits(x, 8, c)
  BY <1>2, <1>6 DEF HasBits
<1>8. 8 \in 0..14 /\ 8 = Len(c)
  BY <1>6
<1> QED
  BY <1>1, <1>2, <1>6, <1>7, <1>8, BitsMake

(* What the decoder makes of bits.                                         *)
BytesOf(b) == [k \in 1..(Len(b) \div 8) |-> Value([m \in 1..8 |-> b[8 * k + 1 - m]])]

(* Of all bits come all bytes.                                             *)
LEMMA BytesReadBack ==
  ASSUME NEW s \in Seq(0..255), NEW e \in Nat, e = 8 * Len(s), NEW b, ReadBack(b, s, 0, e)
  PROVE  BytesOf(b) = s
<1>1. PICK n \in Nat : n = Len(s) /\ e = 8 * n
  OBVIOUS
<1>2. PICK l \in (e - 0)..(e - 0 + 7) : CoversIn(b, s, 0, e - 0, l)
  BY DEF ReadBack
<1>3. e - 0 = e /\ Len(b) = l /\ l \in Nat /\ e <= l /\ l <= e + 7
  BY <1>2 DEF CoversIn
<1>4. Len(b) \div 8 = n
  BY <1>1, <1>3
<1>5. \A j \in 1..e : b[j] = LowBit(s, 0 + j - 1)
  BY <1>2, <1>3 DEF CoversIn, Covers
<1>6. ASSUME NEW k \in 1..n PROVE Value([m \in 1..8 |-> b[8 * k + 1 - m]]) = s[k]
  <2>1. ASSUME NEW m \in 1..8 PROVE b[8 * k + 1 - m] = LowBit(s, 8 * k - m)
    <3>1. PICK j \in 1..e : j = 8 * k + 1 - m
      BY <1>1
    <3>2. 0 + j - 1 = 8 * k - m
      BY <3>1
    <3>3. b[j] = LowBit(s, 0 + j - 1)
      BY <1>5
    <3> QED
      BY <3>1, <3>2, <3>3
  <2>2. PICK c : c = [m \in 1..8 |-> LowBit(s, 8 * k - m)]
    OBVIOUS
  <2>3. c = [m \in 1..8 |-> b[8 * k + 1 - m]]
    BY <2>1, <2>2
  <2>4. Value(c) = s[k]
    BY <1>1, <2>2, ByteOfLowBits
  <2> QED
    BY <2>3, <2>4
<1>7. BytesOf(b) = [k \in 1..n |-> s[k]]
  BY <1>4, <1>6 DEF BytesOf
<1> QED
  BY <1>1, <1>7

(* Of too few come too few.                                                *)
LEMMA BytesShort ==
  ASSUME NEW s \in Seq(0..255), NEW e \in Nat, e = 8 * Len(s), NEW b, Short(b, 0, e)
  PROVE  Len(BytesOf(b)) # Len(s)
<1>1. PICK n \in Nat : n = Len(s) /\ e = 8 * n
  OBVIOUS
<1>2. PICK m \in Nat : Many(b, m) /\ m < e - 0
  BY DEF Short
<1>3. Len(b) = m /\ m < 8 * n
  BY <1>1, <1>2 DEF Many
<1>4. PICK q \in Nat : q = m \div 8 /\ q # n
  BY <1>1, <1>3
<1>5. Len(BytesOf(b)) = q
  BY <1>3, <1>4 DEF BytesOf
<1> QED
  BY <1>1, <1>4, <1>5

(* The characters before the first quotation mark.                         *)
LEMMA FieldCut ==
  ASSUME NEW S, NEW ch \in Seq(S), NEW j \in 1..Len(ch), ch[j] = Quote
  PROVE  \E z \in Nat : /\ z < Len(ch) /\ ch[z + 1] = Quote
                        /\ Cut(Field("B91", ch), ch, z)
<1>1. PICK l \in Nat : l = Len(ch) /\ DOMAIN ch = 1..l
  OBVIOUS
<1> DEFINE cuts == {i \in DOMAIN ch : ch[i] = Quote}
<1>2. cuts \in SUBSET Nat /\ cuts # {}
  BY <1>1
<1>3. PICK m \in cuts : \A k \in cuts : m <= k
  <2> HIDE DEF cuts
  <2> QED
    BY <1>2, Least
<1>4. PICK n : n = CHOOSE i \in cuts : \A k \in cuts : i <= k
  OBVIOUS
<1>5. n \in cuts
  <2> HIDE DEF cuts
  <2> QED
    BY <1>3, <1>4
<1>6. Field("B91", ch) = SubSeq(ch, 1, n - 1)
  <2>1. {i \in DOMAIN ch : "B91" = "B91" /\ ch[i] = Quote} = cuts
    OBVIOUS
  <2> HIDE DEF cuts
  <2> QED
    BY <1>2, <1>4, <2>1 DEF Field
<1>7. PICK z \in Nat : z = n - 1 /\ z < l /\ z + 1 = n
  BY <1>1, <1>5
<1>8. Cut(SubSeq(ch, 1, z), ch, z)
  <2>1. z \in 0..Len(ch)
    BY <1>1, <1>7
  <2>2. Len(SubSeq(ch, 1, z)) = z
    BY <2>1
  <2>3. ASSUME NEW k \in 1..z PROVE SubSeq(ch, 1, z)[k] = ch[k]
    BY <2>1
  <2> QED
    BY <2>2, <2>3 DEF Cut
<1>9. ch[z + 1] = Quote
  BY <1>5, <1>7
<1> QED
  BY <1>1, <1>6, <1>7, <1>8, <1>9

(* The digits of a message, from the first on.                             *)
LEMMA MessageDigits ==
  ASSUME NEW s \in Seq(0..255), NEW ch, ch = EncodeB91(s)
  PROVE  /\ ch \in Seq(Digit91) /\ Len(ch) \in Nat /\ Len(ch) >= Len(s)
         /\ \E r : Written91(r, s) /\ Ends(ch, 0, r[0])
<1>1. PICK r : Written91(r, s) /\ ch = r[0]
  BY WrittenExists
<1>2. PICK e \in Nat : e = 8 * Len(s)
  OBVIOUS
<1>3. 0 \in 0..e
  BY <1>2
<1>4. ch \in Seq(Digit91) /\ 8 * Len(ch) >= e - 0
  BY <1>1, <1>2, <1>3, WrittenType
<1>5. PICK l \in Nat : l = Len(ch)
  BY <1>4
<1>6. 8 * l >= 8 * Len(s)
  BY <1>2, <1>4, <1>5
<1>7. l >= Len(s)
  BY <1>6
<1>8. Ends(ch, 0, ch)
  <2>1. l = 0 + l
    OBVIOUS
  <2>2. \A k \in 1..l : ch[0 + k] = ch[k]
    OBVIOUS
  <2> QED
    BY <1>5, <2>1, <2>2 DEF Ends
<1> QED
  BY <1>1, <1>4, <1>5, <1>7, <1>8

(* The decoder is that of bits, then of bytes.                             *)
LEMMA B91Read ==
  ASSUME NEW ch, Len(ch) \in Nat
  PROVE  \E b : Read91(b, ch) /\ DecodeB91(ch) = BytesOf(b[0])
BY ReadExists DEF BytesOf

(* Digits that are not cut come back.                                      *)
LEMMA B91Back ==
  ASSUME NEW s \in Seq(0..255), NEW ch, ch = EncodeB91(s)
  PROVE  DecodeB91(ch) = s
<1>1. PICK r : Written91(r, s) /\ Ends(ch, 0, r[0])
  BY MessageDigits
<1>2. PICK l \in Nat : l = Len(ch)
  BY MessageDigits
<1>3. PICK b : Read91(b, ch) /\ DecodeB91(ch) = BytesOf(b[0])
  <2>1. Len(ch) \in Nat
    BY <1>2
  <2> QED
    BY <2>1, B91Read
<1>4. PICK e \in Nat : e = 8 * Len(s)
  OBVIOUS
<1>5. 0 \in 0..e /\ 0 \in 0..l
  OBVIOUS
<1>6. ReadBack(b[0], s, 0, e)
  BY <1>1, <1>2, <1>3, <1>4, <1>5, AllReadBack
<1>7. BytesOf(b[0]) = s
  BY <1>4, <1>6, BytesReadBack
<1> QED
  BY <1>3, <1>7

(* Those that are come back too short.                                     *)
LEMMA B91Short ==
  ASSUME NEW s \in Seq(0..255), NEW ch, ch = EncodeB91(s),
         NEW z \in Nat, z < Len(ch), ch[z + 1] = Quote, NEW cut, Cut(cut, ch, z)
  PROVE  Len(DecodeB91(cut)) # Len(s)
<1>1. PICK r : Written91(r, s) /\ Ends(ch, 0, r[0])
  BY MessageDigits
<1>2. PICK l \in Nat : l = Len(ch)
  BY MessageDigits
<1>3. PICK b : Read91(b, cut) /\ DecodeB91(cut) = BytesOf(b[0])
  <2>1. Len(cut) \in Nat
    BY DEF Cut
  <2> QED
    BY <2>1, B91Read
<1>4. PICK e \in Nat : e = 8 * Len(s)
  OBVIOUS
<1>5. 0 \in 0..e /\ 0 \in 0..z /\ z < l
  BY <1>2
<1>6. Short(b[0], 0, e)
  BY <1>1, <1>2, <1>3, <1>4, <1>5, CutShort
<1>7. Len(BytesOf(b[0])) # Len(s)
  BY <1>4, <1>6, BytesShort
<1> QED
  BY <1>3, <1>7

(* Digits are well-formed, and no letters but digits.                      *)
LEMMA B91Codec ==
  ASSUME NEW s \in Seq(0..255), NEW room \in Nat, Len(s) <= room,
         NEW ch, ch = Encode("B91", s)
  PROVE  LET spoilt == \E j \in 1..Len(ch) : ch[j] = Quote
         IN  /\ ~spoilt => Decode("B91", Field("B91", ch), room) = s
             /\ spoilt => Lost(Decode("B91", Field("B91", ch), room), s)
<1>1. ch = EncodeB91(s)
  BY DEF Encode
<1>2. ch \in Seq(Digit91)
  BY <1>1, MessageDigits
<1>3. ASSUME ~\E j \in 1..Len(ch) : ch[j] = Quote
      PROVE  Decode("B91", Field("B91", ch), room) = s
  <2>1. Field("B91", ch) = ch
    BY <1>2, <1>3 DEF Field
  <2>2. WellFormed("B91", ch)
    <3>1. \A i \in DOMAIN ch : ch[i] < 91
      BY <1>2 DEF Digit91
    <3>2. Base("B91") = 91
      BY DEF Base
    <3> QED
      BY <3>1, <3>2 DEF WellFormed
  <2>3. Raw("B91", ch) = s
    BY <1>1, B91Back DEF Raw
  <2>4. ~(Len(Raw("B91", ch)) > room)
    BY <2>3
  <2> QED
    BY <2>1, <2>2, <2>3, <2>4 DEF Decode
<1>4. ASSUME NEW j \in 1..Len(ch), ch[j] = Quote
      PROVE  Lost(Decode("B91", Field("B91", ch), room), s)
  <2>1. PICK f : f = Field("B91", ch)
    OBVIOUS
  <2>2. PICK z \in Nat : z < Len(ch) /\ ch[z + 1] = Quote /\ Cut(f, ch, z)
    BY <1>2, <1>4, <2>1, FieldCut
  <2>3. Len(DecodeB91(f)) # Len(s)
    BY <1>1, <2>2, B91Short
  <2>4. Decode("B91", f, room) \in {Refused, DecodeB91(f)}
    BY DEF Decode, Raw
  <2> QED
    BY <2>1, <2>3, <2>4 DEF Lost
<1> QED
  BY <1>3, <1>4
================================================================================
