--------------------------- MODULE RingTheorems ---------------------------
(***************************************************************************)
(* Facts about the arithmetic of src/ring.rs, for every width of the ring  *)
(* and of the machine word: the operations compute modulo the modulus, the *)
(* halves of a shared value add up to it, and two parties that open the    *)
(* masked factors of a product and finish on their own hold shares of it.  *)
(***************************************************************************)
EXTENDS RingArith, TLAPS

(* Equality of what two integers reduce to.                                *)
Congruent(n, x, y) == x % n = y % n

-----------------------------------------------------------------------------
(* Division with remainder.                                                *)
LEMMA Division ==
  ASSUME NEW x \in Int, NEW n \in Nat \ {0}
  PROVE  /\ x \div n \in Int
         /\ x % n \in 0 .. n - 1
         /\ x % n \in Int
         /\ x = n * (x \div n) + (x % n)
OBVIOUS

(* A remainder is what it is written as.                                   *)
LEMMA Remainder ==
  ASSUME NEW n \in Nat \ {0}, NEW q \in Int, NEW r \in 0 .. n - 1
  PROVE  (n * q + r) % n = r
OBVIOUS

(* A multiple of the divisor does not show.                                *)
LEMMA Shift ==
  ASSUME NEW x \in Int, NEW n \in Nat \ {0}, NEW k \in Int
  PROVE  (x + n * k) % n = x % n
<1> DEFINE q == x \div n
           r == x % n
<1>1. q \in Int /\ r \in 0 .. n - 1 /\ x = n * q + r
  BY Division
<1>2. x + n * k = n * (q + k) + r
  BY <1>1
<1>3. q + k \in Int
  BY <1>1
<1>4. (n * (q + k) + r) % n = r
  BY <1>1, <1>3, Remainder
<1> QED BY <1>2, <1>4

(* Reducing at the word first makes no difference: ZRaw after a wrapped    *)
(* operation reduces its exact result.                                     *)
LEMMA ZWrap ==
  ASSUME NEW n \in Moduli, NEW x \in Int
  PROVE  ZRaw(n, x % WordSize) = x % n
<1> n \in Nat \ {0}
  BY DEF Moduli
<1> DEFINE q == x \div WordSize
           r == x % WordSize
           k == WordSize \div n
<1>1. q \in Int /\ r \in Int /\ x = WordSize * q + r
  BY Division, WordAssumption
<1>2. k \in Int /\ WordSize = n * k
  BY Division, WordAssumption DEF Moduli
<1> HIDE DEF q, r, k
<1>3. x = r + n * (k * q)
  BY <1>1, <1>2
<1>4. k * q \in Int
  BY <1>1, <1>2
<1>5. (r + n * (k * q)) % n = r % n
  BY <1>1, <1>4, Shift
<1> QED BY <1>3, <1>5 DEF ZRaw, r

-----------------------------------------------------------------------------
(* Congruent is a congruence.                                              *)
LEMMA CongruentWitness ==
  ASSUME NEW n \in Moduli, NEW x \in Int, NEW y \in Int, Congruent(n, x, y)
  PROVE  \E k \in Int : x = y + n * k
<1> n \in Nat \ {0}
  BY DEF Moduli
<1> DEFINE i == x \div n
           j == y \div n
           r == x % n
<1>1. i \in Int /\ x = n * i + r /\ r \in Int
  BY Division
<1>2. j \in Int /\ y = n * j + r
  BY Division DEF Congruent
<1> HIDE DEF i, j, r
<1>3. i - j \in Int /\ x = y + n * (i - j)
  BY <1>1, <1>2
<1> QED BY <1>3

LEMMA WitnessCongruent ==
  ASSUME NEW n \in Moduli, NEW y \in Int, NEW k \in Int
  PROVE  Congruent(n, y + n * k, y)
BY Shift DEF Moduli, Congruent

LEMMA CongruentAdd ==
  ASSUME NEW n \in Moduli, NEW u \in Int, NEW v \in Int, NEW x \in Int, NEW y \in Int,
         Congruent(n, u, x), Congruent(n, v, y)
  PROVE  Congruent(n, u + v, x + y)
<1> n \in Nat \ {0}
  BY DEF Moduli
<1>1. PICK j \in Int : u = x + n * j
  BY CongruentWitness
<1>2. PICK k \in Int : v = y + n * k
  BY CongruentWitness
<1>3. u + v = (x + y) + n * (j + k)
  BY <1>1, <1>2
<1>4. x + y \in Int /\ j + k \in Int
  OBVIOUS
<1> QED BY <1>3, <1>4, WitnessCongruent

LEMMA CongruentMul ==
  ASSUME NEW n \in Moduli, NEW u \in Int, NEW v \in Int, NEW x \in Int, NEW y \in Int,
         Congruent(n, u, x), Congruent(n, v, y)
  PROVE  Congruent(n, u * v, x * y)
<1> n \in Nat \ {0}
  BY DEF Moduli
<1>1. PICK j \in Int : u = x + n * j
  BY CongruentWitness
<1>2. PICK k \in Int : v = y + n * k
  BY CongruentWitness
<1>3. u * v = x * y + n * (x * k + j * y + n * j * k)
  BY <1>1, <1>2
<1>4. x * y \in Int /\ x * k + j * y + n * j * k \in Int
  OBVIOUS
<1> QED BY <1>3, <1>4, WitnessCongruent

LEMMA CongruentSub ==
  ASSUME NEW n \in Moduli, NEW u \in Int, NEW v \in Int, NEW x \in Int, NEW y \in Int,
         Congruent(n, u, x), Congruent(n, v, y)
  PROVE  Congruent(n, u - v, x - y)
<1> n \in Nat \ {0}
  BY DEF Moduli
<1>1. PICK j \in Int : u = x + n * j
  BY CongruentWitness
<1>2. PICK k \in Int : v = y + n * k
  BY CongruentWitness
<1>3. u - v = (x - y) + n * (j - k)
  BY <1>1, <1>2
<1>4. x - y \in Int /\ j - k \in Int
  OBVIOUS
<1> QED BY <1>3, <1>4, WitnessCongruent

-----------------------------------------------------------------------------
(* Ring elements.                                                          *)
LEMMA ZRawIn ==
  ASSUME NEW n \in Moduli, NEW x \in Int
  PROVE  ZRaw(n, x) \in Z(n)
BY Division DEF Moduli, ZRaw, Z

LEMMA ZInt ==
  ASSUME NEW n \in Moduli, NEW x \in Z(n)
  PROVE  x \in Int /\ ZRaw(n, x) = x
<1> n \in Nat \ {0}
  BY DEF Moduli
<1>1. x \in Int /\ x \in 0 .. n - 1 /\ 0 \in Int
  BY DEF Z
<1>2. (n * 0 + x) % n = x
  BY <1>1, Remainder
<1>3. n * 0 + x = x
  BY <1>1
<1> QED BY <1>1, <1>2, <1>3 DEF ZRaw

LEMMA ZZero ==
  ASSUME NEW n \in Moduli
  PROVE  0 \in Z(n)
BY DEF Moduli, Z

(* Two ring elements that reduce to the same are the same.                 *)
LEMMA ZSame ==
  ASSUME NEW n \in Moduli, NEW x \in Z(n), NEW y \in Z(n), Congruent(n, x, y)
  PROVE  x = y
BY ZInt DEF Moduli, Congruent, ZRaw

(* Each operation computes modulo n and yields a ring element.             *)
LEMMA ZOperations ==
  ASSUME NEW n \in Moduli, NEW x \in Int, NEW y \in Int
  PROVE  /\ ZAdd(n, x, y) \in Z(n) /\ ZAdd(n, x, y) \in Int /\ Congruent(n, ZAdd(n, x, y), x + y)
         /\ ZSub(n, x, y) \in Z(n) /\ ZSub(n, x, y) \in Int /\ Congruent(n, ZSub(n, x, y), x - y)
         /\ ZMul(n, x, y) \in Z(n) /\ ZMul(n, x, y) \in Int /\ Congruent(n, ZMul(n, x, y), x * y)
<1> n \in Nat \ {0}
  BY DEF Moduli
<1>1. ASSUME NEW z \in Int
      PROVE  /\ ZRaw(n, z % WordSize) \in Z(n)
             /\ ZRaw(n, z % WordSize) \in Int
             /\ Congruent(n, ZRaw(n, z % WordSize), z)
  <2>1. ZRaw(n, z % WordSize) = ZRaw(n, z)
    BY ZWrap DEF ZRaw
  <2>2. ZRaw(n, z) \in Z(n)
    BY ZRawIn
  <2>3. ZRaw(n, ZRaw(n, z)) = ZRaw(n, z) /\ ZRaw(n, z) \in Int
    BY <2>2, ZInt
  <2> QED BY <2>1, <2>2, <2>3 DEF Congruent, ZRaw
<1>2. x + y \in Int /\ x - y \in Int /\ x * y \in Int
  OBVIOUS
<1> QED BY <1>1, <1>2 DEF ZAdd, ZSub, ZMul

(* The halves of a shared value are ring elements and add up to it,        *)
(* whatever mask was drawn (`share`, ring.rs:70-73).                       *)
THEOREM HalvesRecombine ==
  ASSUME NEW n \in Moduli, NEW x \in Z(n), NEW mask \in Z(n)
  PROVE  /\ Share(n, x, mask)[1] \in Z(n)
         /\ Share(n, x, mask)[2] \in Z(n)
         /\ ZAdd(n, Share(n, x, mask)[1], Share(n, x, mask)[2]) = x
<1> n \in Nat \ {0}
  BY DEF Moduli
<1> DEFINE keep == ZSub(n, x, mask)
<1>1. x \in Int /\ mask \in Int
  BY ZInt
<1>2. keep \in Z(n) /\ keep \in Int /\ Congruent(n, keep, x - mask)
  BY <1>1, ZOperations
<1>3. ZAdd(n, mask, keep) \in Z(n) /\ ZAdd(n, mask, keep) \in Int /\ Congruent(n, ZAdd(n, mask, keep), mask + keep)
  BY <1>1, <1>2, ZOperations
<1> HIDE DEF keep
<1>4. Congruent(n, mask + keep, mask + (x - mask))
  <2>1. x - mask \in Int /\ Congruent(n, mask, mask)
    BY <1>1 DEF Congruent
  <2> QED BY <1>1, <1>2, <2>1, CongruentAdd
<1>5. mask + (x - mask) = x
  BY <1>1
<1>6. Congruent(n, ZAdd(n, mask, keep), x)
  BY <1>3, <1>4, <1>5 DEF Congruent
<1>7. ZAdd(n, mask, keep) = x
  BY <1>3, <1>6, ZSame
<1> QED BY <1>2, <1>7 DEF Share, keep

-----------------------------------------------------------------------------
(* The identity behind Beaver multiplication, modulo n.                    *)
LEMMA BeaverIdentity ==
  ASSUME NEW n \in Moduli, NEW x \in Int, NEW y \in Int, NEW a \in Int, NEW b \in Int,
         NEW c \in Int, NEW d \in Int, NEW e \in Int,
         Congruent(n, c, a * b), Congruent(n, d, x - a), Congruent(n, e, y - b)
  PROVE  Congruent(n, d * b + e * a + c + d * e, x * y)
<1> n \in Nat \ {0}
  BY DEF Moduli
<1>0. a * b \in Int /\ x - a \in Int /\ y - b \in Int
  OBVIOUS
<1>1. PICK i \in Int : c = a * b + n * i
  BY <1>0, CongruentWitness
<1>2. PICK j \in Int : d = (x - a) + n * j
  BY <1>0, CongruentWitness
<1>3. PICK k \in Int : e = (y - b) + n * k
  BY <1>0, CongruentWitness
<1>4. d * b + e * a + c + d * e = (d + a) * (e + b) + n * i
  BY <1>1
<1>5. d + a = x + n * j /\ e + b = y + n * k
  BY <1>2, <1>3
<1>6. (x + n * j) * (y + n * k) + n * i
        = x * y + n * (x * k + j * y + n * j * k + i)
  OBVIOUS
<1>7. x * y \in Int /\ x * k + j * y + n * j * k + i \in Int
  OBVIOUS
<1>8. d * b + e * a + c + d * e = x * y + n * (x * k + j * y + n * j * k + i)
  BY <1>4, <1>5, <1>6
<1> QED BY <1>7, <1>8, WitnessCongruent

(* The share of the product that a party computes.                         *)
LEMMA ProductOf ==
  ASSUME NEW n \in Moduli, NEW p \in {0, 1}, NEW d \in Z(n), NEW e \in Z(n),
         NEW t, t.a \in Z(n), t.b \in Z(n), t.c \in Z(n)
  PROVE  /\ Product(n, p, d, e, t) \in Z(n)
         /\ Congruent(n, Product(n, p, d, e, t),
                 d * t.b + e * t.a + t.c + IF p = 0 THEN d * e ELSE 0)
<1> n \in Nat \ {0}
  BY DEF Moduli
<1> DEFINE u == ZMul(n, d, t.b)
           v == ZMul(n, e, t.a)
           w == ZAdd(n, u, v)
           z == ZAdd(n, w, t.c)
           f == ZMul(n, d, e)
           total == d * t.b + e * t.a + t.c
<1>1. d \in Int /\ e \in Int /\ t.a \in Int /\ t.b \in Int /\ t.c \in Int
  BY ZInt
<1>2. /\ d * t.b \in Int /\ e * t.a \in Int /\ d * e \in Int
      /\ d * t.b + e * t.a \in Int /\ total \in Int
      /\ Congruent(n, t.c, t.c)
  BY <1>1 DEF Congruent
<1>3. /\ u \in Int /\ Congruent(n, u, d * t.b)
      /\ v \in Int /\ Congruent(n, v, e * t.a)
      /\ f \in Int /\ Congruent(n, f, d * e)
  BY <1>1, ZOperations
<1>4. w \in Int /\ Congruent(n, w, d * t.b + e * t.a)
  <2>1. w \in Int /\ Congruent(n, w, u + v)
    BY <1>3, ZOperations
  <2>2. Congruent(n, u + v, d * t.b + e * t.a)
    BY <1>2, <1>3, CongruentAdd
  <2> QED BY <2>1, <2>2 DEF Congruent
<1>5. z \in Z(n) /\ z \in Int /\ Congruent(n, z, total)
  <2>1. z \in Z(n) /\ z \in Int /\ Congruent(n, z, w + t.c)
    BY <1>1, <1>4, ZOperations
  <2>2. Congruent(n, w + t.c, (d * t.b + e * t.a) + t.c)
    BY <1>1, <1>2, <1>4, CongruentAdd
  <2> QED BY <2>1, <2>2 DEF Congruent
<1>6. ZAdd(n, z, f) \in Z(n) /\ Congruent(n, ZAdd(n, z, f), total + d * e)
  <2> HIDE DEF total, z, f
  <2>1. ZAdd(n, z, f) \in Z(n) /\ Congruent(n, ZAdd(n, z, f), z + f)
    BY <1>3, <1>5, ZOperations
  <2>2. Congruent(n, z + f, total + d * e)
    BY <1>2, <1>3, <1>5, CongruentAdd
  <2> QED BY <2>1, <2>2 DEF Congruent
<1>7. total + 0 = total
  BY <1>2
<1>8. Product(n, p, d, e, t) = IF p = 0 THEN ZAdd(n, z, f) ELSE z
  BY DEF Product
<1> HIDE DEF u, v, w, z, f
<1>9. CASE p = 0
  BY <1>6, <1>8, <1>9
<1>10. CASE p = 1
  BY <1>5, <1>7, <1>8, <1>10
<1> QED BY <1>9, <1>10

(* What the dealer hands out: halves of a, of b and of their product.      *)
LEMMA DealtHalves ==
  ASSUME NEW n \in Moduli, NEW r \in [1 .. 5 -> Z(n)]
  PROVE  /\ \A p \in {0, 1} : /\ Dealt(n, p, r).a \in Z(n)
                             /\ Dealt(n, p, r).b \in Z(n)
                             /\ Dealt(n, p, r).c \in Z(n)
         /\ ZAdd(n, Dealt(n, 0, r).a, Dealt(n, 1, r).a) = r[1]
         /\ ZAdd(n, Dealt(n, 0, r).b, Dealt(n, 1, r).b) = r[2]
         /\ ZAdd(n, Dealt(n, 0, r).c, Dealt(n, 1, r).c) = ZMul(n, r[1], r[2])
<1> n \in Nat \ {0}
  BY DEF Moduli
<1>1. \A k \in 1 .. 5 : r[k] \in Z(n)
  OBVIOUS
<1>2. r[1] \in Z(n) /\ r[2] \in Z(n) /\ r[3] \in Z(n) /\ r[4] \in Z(n) /\ r[5] \in Z(n)
  BY <1>1
<1>3. ZMul(n, r[1], r[2]) \in Z(n)
  BY <1>2, ZInt, ZOperations
<1>4. /\ Share(n, r[1], r[3])[1] \in Z(n) /\ Share(n, r[1], r[3])[2] \in Z(n)
      /\ ZAdd(n, Share(n, r[1], r[3])[1], Share(n, r[1], r[3])[2]) = r[1]
  BY <1>2, HalvesRecombine
<1>5. /\ Share(n, r[2], r[4])[1] \in Z(n) /\ Share(n, r[2], r[4])[2] \in Z(n)
      /\ ZAdd(n, Share(n, r[2], r[4])[1], Share(n, r[2], r[4])[2]) = r[2]
  BY <1>2, HalvesRecombine
<1>6. LET c == ZMul(n, r[1], r[2])
      IN  /\ Share(n, c, r[5])[1] \in Z(n) /\ Share(n, c, r[5])[2] \in Z(n)
          /\ ZAdd(n, Share(n, c, r[5])[1], Share(n, c, r[5])[2]) = c
  BY <1>2, <1>3, HalvesRecombine
<1>7. 0 + 1 = 1 /\ 1 + 1 = 2
  OBVIOUS
<1> QED BY <1>4, <1>5, <1>6, <1>7 DEF Dealt

(* What is opened for a factor is the factor less what masks it.           *)
LEMMA OpenedFactor ==
  ASSUME NEW n \in Moduli, NEW x \in Z(n), NEW y \in Z(n), NEW m \in Z(n), NEW k \in Z(n)
  PROVE  /\ ZAdd(n, ZSub(n, x, m), ZSub(n, y, k)) \in Z(n)
         /\ Congruent(n, ZAdd(n, ZSub(n, x, m), ZSub(n, y, k)), ZAdd(n, x, y) - ZAdd(n, m, k))
<1> n \in Nat \ {0}
  BY DEF Moduli
<1> DEFINE u == ZSub(n, x, m)
           v == ZSub(n, y, k)
<1>1. x \in Int /\ y \in Int /\ m \in Int /\ k \in Int
  BY ZInt
<1>2. u \in Int /\ v \in Int /\ Congruent(n, u, x - m) /\ Congruent(n, v, y - k)
  BY <1>1, ZOperations
<1>3. ZAdd(n, u, v) \in Z(n) /\ Congruent(n, ZAdd(n, u, v), u + v)
  BY <1>2, ZOperations
<1>4. Congruent(n, u + v, (x - m) + (y - k))
  BY <1>1, <1>2, CongruentAdd
<1>5. /\ ZAdd(n, x, y) \in Int /\ Congruent(n, x + y, ZAdd(n, x, y))
      /\ ZAdd(n, m, k) \in Int /\ Congruent(n, m + k, ZAdd(n, m, k))
  BY <1>1, ZOperations DEF Congruent
<1>6. Congruent(n, (x + y) - (m + k), ZAdd(n, x, y) - ZAdd(n, m, k))
  BY <1>1, <1>5, CongruentSub
<1>7. (x - m) + (y - k) = (x + y) - (m + k)
  BY <1>1
<1> QED BY <1>3, <1>4, <1>6, <1>7 DEF Congruent

(* The two parties' shares of a product: when the factors of both were     *)
(* masked with halves of one triple and opened, the shares they compute    *)
(* add up to the product (protocol.rs:211-262), for every ring.            *)
THEOREM ProductRecombines ==
  ASSUME NEW n \in Moduli, NEW x0 \in Z(n), NEW x1 \in Z(n), NEW y0 \in Z(n), NEW y1 \in Z(n),
         NEW r \in [1 .. 5 -> Z(n)], NEW d, NEW e,
         d = ZAdd(n, Masked(n, x0, y0, Dealt(n, 0, r))[1], Masked(n, x1, y1, Dealt(n, 1, r))[1]),
         e = ZAdd(n, Masked(n, x0, y0, Dealt(n, 0, r))[2], Masked(n, x1, y1, Dealt(n, 1, r))[2])
  PROVE  /\ \A p \in {0, 1} : Product(n, p, d, e, Dealt(n, p, r)) \in Z(n)
         /\ ZAdd(n, Product(n, 0, d, e, Dealt(n, 0, r)), Product(n, 1, d, e, Dealt(n, 1, r)))
              = ZMul(n, ZAdd(n, x0, x1), ZAdd(n, y0, y1))
<1> n \in Nat \ {0}
  BY DEF Moduli
<1> DEFINE s  == Dealt(n, 0, r)
           t  == Dealt(n, 1, r)
           x  == ZAdd(n, x0, x1)
           y  == ZAdd(n, y0, y1)
           c  == ZMul(n, r[1], r[2])
           z0 == Product(n, 0, d, e, s)
           z1 == Product(n, 1, d, e, t)
<1>1. /\ s.a \in Z(n) /\ s.b \in Z(n) /\ s.c \in Z(n)
      /\ t.a \in Z(n) /\ t.b \in Z(n) /\ t.c \in Z(n)
      /\ ZAdd(n, s.a, t.a) = r[1] /\ ZAdd(n, s.b, t.b) = r[2] /\ ZAdd(n, s.c, t.c) = c
  BY DealtHalves
<1>2. d = ZAdd(n, ZSub(n, x0, s.a), ZSub(n, x1, t.a)) /\ e = ZAdd(n, ZSub(n, y0, s.b), ZSub(n, y1, t.b))
  BY DEF Masked
<1> HIDE DEF s, t
<1>3. d \in Z(n) /\ Congruent(n, d, x - r[1]) /\ e \in Z(n) /\ Congruent(n, e, y - r[2])
  <2>0. /\ ZAdd(n, ZSub(n, x0, s.a), ZSub(n, x1, t.a)) \in Z(n)
        /\ Congruent(n, ZAdd(n, ZSub(n, x0, s.a), ZSub(n, x1, t.a)), ZAdd(n, x0, x1) - ZAdd(n, s.a, t.a))
    BY <1>1, OpenedFactor
  <2>1. d \in Z(n) /\ Congruent(n, d, x - ZAdd(n, s.a, t.a))
    BY <1>2, <2>0
  <2>2. /\ ZAdd(n, ZSub(n, y0, s.b), ZSub(n, y1, t.b)) \in Z(n)
        /\ Congruent(n, ZAdd(n, ZSub(n, y0, s.b), ZSub(n, y1, t.b)), ZAdd(n, y0, y1) - ZAdd(n, s.b, t.b))
    BY <1>1, OpenedFactor
  <2>3. e \in Z(n) /\ Congruent(n, e, y - ZAdd(n, s.b, t.b))
    BY <1>2, <2>2
  <2> QED BY <1>1, <2>1, <2>3
<1>4. /\ z0 \in Z(n) /\ Congruent(n, z0, d * s.b + e * s.a + s.c + d * e)
      /\ z1 \in Z(n) /\ Congruent(n, z1, d * t.b + e * t.a + t.c + 0)
  <2>1. /\ z0 \in Z(n)
        /\ Congruent(n, z0, d * s.b + e * s.a + s.c + IF 0 = 0 THEN d * e ELSE 0)
    BY <1>1, <1>3, ProductOf
  <2>2. /\ z1 \in Z(n)
        /\ Congruent(n, z1, d * t.b + e * t.a + t.c + IF 1 = 0 THEN d * e ELSE 0)
    BY <1>1, <1>3, ProductOf
  <2> QED BY <2>1, <2>2
<1>5. /\ d \in Int /\ e \in Int
      /\ s.a \in Int /\ s.b \in Int /\ s.c \in Int
      /\ t.a \in Int /\ t.b \in Int /\ t.c \in Int
      /\ z0 \in Int /\ z1 \in Int
      /\ x0 \in Int /\ x1 \in Int /\ y0 \in Int /\ y1 \in Int
  BY <1>1, <1>3, <1>4, ZInt
<1>6. x \in Int /\ y \in Int
  BY <1>5, ZOperations
<1>7. /\ r[1] \in Int /\ Congruent(n, s.a + t.a, r[1])
      /\ r[2] \in Int /\ Congruent(n, s.b + t.b, r[2])
      /\ c \in Int /\ Congruent(n, s.c + t.c, c)
  <2>1. /\ ZAdd(n, s.a, t.a) \in Int /\ Congruent(n, ZAdd(n, s.a, t.a), s.a + t.a)
        /\ ZAdd(n, s.b, t.b) \in Int /\ Congruent(n, ZAdd(n, s.b, t.b), s.b + t.b)
        /\ ZAdd(n, s.c, t.c) \in Int /\ Congruent(n, ZAdd(n, s.c, t.c), s.c + t.c)
    BY <1>5, ZOperations
  <2>2. /\ r[1] \in Int /\ Congruent(n, r[1], s.a + t.a)
        /\ r[2] \in Int /\ Congruent(n, r[2], s.b + t.b)
        /\ c \in Int /\ Congruent(n, c, s.c + t.c)
    BY <1>1, <2>1
  <2> QED BY <2>2 DEF Congruent
<1>8. Congruent(n, c, r[1] * r[2])
  BY <1>7, ZOperations
<1> HIDE DEF z0, z1, x, y, c
<1>9. Congruent(n, d * r[2] + e * r[1] + c + d * e, x * y)
  BY <1>3, <1>5, <1>6, <1>7, <1>8, BeaverIdentity
<1>10. Congruent(n, z0 + z1, d * r[2] + e * r[1] + c + d * e)
  <2>1. /\ d * s.b + e * s.a + s.c + d * e \in Int
        /\ d * t.b + e * t.a + t.c + 0 \in Int
    BY <1>5
  <2>2. Congruent(n, z0 + z1, (d * s.b + e * s.a + s.c + d * e) + (d * t.b + e * t.a + t.c + 0))
    BY <1>4, <1>5, <2>1, CongruentAdd
  <2>3. (d * s.b + e * s.a + s.c + d * e) + (d * t.b + e * t.a + t.c + 0)
          = d * (s.b + t.b) + e * (s.a + t.a) + (s.c + t.c) + d * e
    BY <1>5
  <2>4. Congruent(n, d, d) /\ Congruent(n, e, e) /\ Congruent(n, d * e, d * e) /\ s.a + t.a \in Int
          /\ s.b + t.b \in Int /\ s.c + t.c \in Int /\ d * e \in Int
    BY <1>5 DEF Congruent
  <2>5. Congruent(n, d * (s.b + t.b), d * r[2]) /\ Congruent(n, e * (s.a + t.a), e * r[1])
    BY <1>5, <1>7, <2>4, CongruentMul
  <2>6. /\ d * (s.b + t.b) \in Int /\ d * r[2] \in Int
        /\ e * (s.a + t.a) \in Int /\ e * r[1] \in Int
    BY <1>5, <1>7, <2>4
  <2>7. Congruent(n, d * (s.b + t.b) + e * (s.a + t.a), d * r[2] + e * r[1])
    BY <2>5, <2>6, CongruentAdd
  <2>8. Congruent(n, d * (s.b + t.b) + e * (s.a + t.a) + (s.c + t.c), d * r[2] + e * r[1] + c)
    BY <1>7, <2>4, <2>6, <2>7, CongruentAdd
  <2>9. Congruent(n, d * (s.b + t.b) + e * (s.a + t.a) + (s.c + t.c) + d * e,
             d * r[2] + e * r[1] + c + d * e)
    BY <1>7, <2>4, <2>6, <2>8, CongruentAdd
  <2> QED BY <2>2, <2>3, <2>9 DEF Congruent
<1>11. /\ ZAdd(n, z0, z1) \in Z(n) /\ Congruent(n, ZAdd(n, z0, z1), z0 + z1)
       /\ ZMul(n, x, y) \in Z(n) /\ Congruent(n, ZMul(n, x, y), x * y)
  BY <1>5, <1>6, ZOperations
<1>12. ZAdd(n, z0, z1) = ZMul(n, x, y)
  BY <1>9, <1>10, <1>11, ZSame DEF Congruent
<1>13. \A p \in {0, 1} : Product(n, p, d, e, Dealt(n, p, r)) \in Z(n)
  BY <1>4 DEF z0, z1, s, t
<1> QED BY <1>12, <1>13 DEF z0, z1, x, y, s, t
=============================================================================
