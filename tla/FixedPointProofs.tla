-------------------------- MODULE FixedPointProofs --------------------------
(***************************************************************************)
(* The fixed-point encoding of src/ring.rs for every width of the ring and *)
(* of the word and every resolution: what is decoded is within half of the *)
(* resolution of the input, exactly the inputs that would read back as     *)
(* another number are refused, and sums, differences and products in range *)
(* are those of the scaled values.                                         *)
(***************************************************************************)
EXTENDS FixedPoint, RingTheorems

Same(m, n) == m % Modulus = n % Modulus

LEMMA FixedModulus ==
  /\ Modulus \in Moduli /\ Modulus \in Nat \ {0} /\ Ring = Z(Modulus)
  /\ \A m, n : Same(m, n) <=> Congruent(Modulus, m, n)
BY RingAssumption DEF Moduli, Ring, Same, Congruent

-----------------------------------------------------------------------------
(* The range is as wide as the ring.                                       *)
LEMMA BoundIs == Bound \in Nat /\ Bound > 0 /\ Modulus = 2 * Bound
<1>1. /\ Modulus \in Int /\ Modulus > 0
      /\ Modulus = 2 * (Modulus \div 2) + (Modulus % 2) /\ Modulus \div 2 \in Int
  BY Division, RingAssumption
<1> QED BY <1>1, FixedPointAssumption DEF Bound

(* A ring element that reduces to what a number in range reduces to reads  *)
(* back as that number.                                                    *)
LEMMA ReadsBack ==
  ASSUME NEW z \in Ring, NEW n \in Int, InRange(n), Same(z, n)
  PROVE  Decode(z) = n
<1>1. z \in Int /\ z \in 0 .. Modulus - 1 /\ 0 \in Int /\ -1 \in Int
  BY FixedModulus, ZInt DEF Z
<1>2. -Bound <= n /\ n < Bound
  BY DEF InRange
<1>3. CASE n >= 0
  <2>1. n \in 0 .. Modulus - 1
    BY <1>2, <1>3, BoundIs
  <2>2. n \in Ring
    BY <2>1, FixedModulus DEF Z
  <2>3. z = n
    BY <2>2, FixedModulus, ZSame
  <2> QED BY <1>2, <2>3, BoundIs DEF Decode
<1>4. CASE n < 0
  <2>1. n + Modulus \in 0 .. Modulus - 1 /\ n + Modulus \in Int
    BY <1>2, <1>4, BoundIs
  <2>2. Same(n + Modulus * 1, n)
    BY FixedModulus, WitnessCongruent
  <2>3. n + Modulus * 1 = n + Modulus
    BY BoundIs
  <2>4. Same(z, n + Modulus)
    BY <2>2, <2>3 DEF Same
  <2>5. n + Modulus \in Ring
    BY <2>1, FixedModulus DEF Z
  <2>6. z = n + Modulus
    BY <2>4, <2>5, FixedModulus, ZSame
  <2>7. n + Modulus >= Bound
    BY <1>2, BoundIs
  <2> QED BY <2>6, <2>7, BoundIs DEF Decode
<1> QED BY <1>3, <1>4

(* Everything reads back as a number in range.                             *)
LEMMA DecodeInRange ==
  ASSUME NEW z \in Ring
  PROVE  Decode(z) \in Int /\ InRange(Decode(z))
<1>1. z \in Int /\ 0 <= z /\ z < Modulus
  BY FixedModulus, ZInt DEF Z
<1> QED BY <1>1, BoundIs DEF Decode, InRange

(* What `round` rounds to.                                                 *)
LEMMA RoundedIs ==
  ASSUME NEW r \in Int
  PROVE  /\ Rounded(r) \in Int
         /\ 2 * (Fraction * Rounded(r) - r) <= Fraction
         /\ -2 * (Fraction * Rounded(r) - r) <= Fraction
<1> DEFINE half(s) == (2 * s + Fraction) \div (2 * Fraction)
<1>1. Fraction \in Int /\ Fraction > 0 /\ 2 * Fraction \in Nat \ {0}
  BY FixedPointAssumption
<1>2. ASSUME NEW s \in Int
      PROVE  /\ half(s) \in Int
             /\ 2 * (Fraction * half(s)) - 2 * s <= Fraction
             /\ 2 * s - 2 * (Fraction * half(s)) <= Fraction
  <2> DEFINE q == half(s)
             m == (2 * s + Fraction) % (2 * Fraction)
             w == Fraction * q
  <2>1. 2 * s + Fraction \in Int
    BY <1>1
  <2>2. /\ q \in Int /\ m \in Int /\ m \in 0 .. 2 * Fraction - 1
        /\ 2 * s + Fraction = (2 * Fraction) * q + m
    BY <1>1, <2>1, Division
  <2> HIDE DEF q, m
  <2>3. (2 * Fraction) * q = 2 * w /\ w \in Int
    BY <1>1, <2>2
  <2> HIDE DEF w
  <2>4. 2 * w - 2 * s <= Fraction /\ 2 * s - 2 * w <= Fraction
    BY <1>1, <2>2, <2>3
  <2> QED BY <2>2, <2>4 DEF w, q
<1>3. CASE r >= 0
  <2>1. Rounded(r) = half(r)
    BY <1>3 DEF Rounded
  <2>2. /\ half(r) \in Int
        /\ 2 * (Fraction * half(r)) - 2 * r <= Fraction
        /\ 2 * r - 2 * (Fraction * half(r)) <= Fraction
    BY <1>2
  <2> HIDE DEF half
  <2>3. Fraction * half(r) \in Int
    BY <1>1, <2>2
  <2> QED BY <1>1, <2>1, <2>2, <2>3
<1>4. CASE r < 0
  <2>1. Rounded(r) = -half(-r)
    <3>1. ~(r >= 0)
      BY <1>4
    <3> QED BY <3>1 DEF Rounded
  <2>2. /\ half(-r) \in Int
        /\ 2 * (Fraction * half(-r)) - 2 * (-r) <= Fraction
        /\ 2 * (-r) - 2 * (Fraction * half(-r)) <= Fraction
    <3>1. -r \in Int
      OBVIOUS
    <3> HIDE DEF half
    <3> QED BY <1>2, <3>1
  <2> HIDE DEF half
  <2>3. Fraction * (-half(-r)) = -(Fraction * half(-r)) /\ Fraction * half(-r) \in Int
    BY <1>1, <2>2
  <2> QED BY <1>1, <2>1, <2>2, <2>3
<1> QED BY <1>3, <1>4

(* The ring element of a value, whether or not it is refused.              *)
LEMMA EncodeIs ==
  ASSUME NEW r \in Int
  PROVE  /\ Encode(r) \in Ring /\ Encode(r) \in Int
         /\ Same(Encode(r), Rounded(r))
<1>1. Rounded(r) \in Int
  BY RoundedIs
<1>2. Encode(r) = FromRaw(Rounded(r))
  BY <1>1, FixedModulus, ZWrap DEF Encode, FromRaw, ZRaw
<1>3. FromRaw(Rounded(r)) \in Ring
  BY <1>1, FixedModulus, ZRawIn DEF FromRaw
<1>4. FromRaw(FromRaw(Rounded(r))) = FromRaw(Rounded(r)) /\ FromRaw(Rounded(r)) \in Int
  BY <1>3, FixedModulus, ZInt DEF FromRaw
<1> QED BY <1>2, <1>3, <1>4 DEF Same, FromRaw, ZRaw

(* A value is let in exactly when it reads back as what it was scaled to.  *)
LEMMA EncodesIs ==
  ASSUME NEW r \in Int
  PROVE  Encodes(r) <=> Decode(Encode(r)) = Rounded(r)
<1>1. Encode(r) \in Ring /\ Same(Encode(r), Rounded(r)) /\ Rounded(r) \in Int
  BY EncodeIs, RoundedIs
<1>2. Encodes(r) <=> InRange(Rounded(r))
  BY DEF Encodes, InRange
<1>3. InRange(Rounded(r)) => Decode(Encode(r)) = Rounded(r)
  BY <1>1, ReadsBack
<1>4. InRange(Decode(Encode(r)))
  BY <1>1, DecodeInRange
<1> QED BY <1>2, <1>3, <1>4

-----------------------------------------------------------------------------
(* The inductive invariant: what the step says of the inputs.              *)
FixedPointInv ==
  /\ x \in Int /\ y \in Int
  /\ step \in {"given", "refused", "coded"}
  /\ step = "coded" => Encodes(x) /\ Encodes(y) /\ coded = <<Encode(x), Encode(y)>>
  /\ step = "refused" => ~Encodes(x) \/ ~Encodes(y)

LEMMA FixedPointInvInit == Init => FixedPointInv
BY FixedPointAssumption DEF Init, FixedPointInv

LEMMA FixedPointInvStep == FixedPointInv /\ [Next]_vars => FixedPointInv'
<1> SUFFICES ASSUME FixedPointInv, [Next]_vars PROVE FixedPointInv'
  OBVIOUS
<1>0. \A r \in Int : Encodes(r)' = Encodes(r) /\ Encode(r)' = Encode(r)
  OBVIOUS
<1>1. CASE EncodeBoth
  BY <1>1 DEF EncodeBoth, FixedPointInv
<1>2. CASE Refuse
  BY <1>2 DEF Refuse, FixedPointInv
<1>3. CASE Done \/ UNCHANGED vars
  BY <1>3 DEF Done, vars, FixedPointInv
<1> QED BY <1>1, <1>2, <1>3 DEF Next

LEMMA GivesRoundTrip == FixedPointInv => RoundTrip
<1> SUFFICES ASSUME FixedPointInv, step = "coded"
             PROVE  LET away == Fraction * Decode(coded[1]) - x
                    IN  2 * away <= Fraction /\ -2 * away <= Fraction
  BY DEF RoundTrip
<1>1. x \in Int /\ Encodes(x) /\ coded[1] = Encode(x)
  BY DEF FixedPointInv
<1>2. Decode(coded[1]) = Rounded(x)
  BY <1>1, EncodesIs
<1>3. /\ 2 * (Fraction * Rounded(x) - x) <= Fraction
      /\ -2 * (Fraction * Rounded(x) - x) <= Fraction
  BY <1>1, RoundedIs
<1> QED BY <1>2, <1>3

LEMMA GivesRefusedIfWrapped == FixedPointInv => RefusedIfWrapped
<1> SUFFICES ASSUME FixedPointInv, step # "given"
             PROVE  step = "refused" <=> \E r \in {x, y} : Decode(Encode(r)) # Rounded(r)
  BY DEF RefusedIfWrapped, Encode
<1>1. \A r \in {x, y} : Encodes(r) <=> Decode(Encode(r)) = Rounded(r)
  BY EncodesIs DEF FixedPointInv
<1> QED BY <1>1 DEF FixedPointInv

LEMMA GivesHomomorphic == FixedPointInv => Homomorphic
<1> SUFFICES ASSUME FixedPointInv, step = "coded" PROVE Homomorphic
  BY DEF Homomorphic
<1> DEFINE m == Rounded(x)
           n == Rounded(y)
           u == coded[1]
           v == coded[2]
<1>1. x \in Int /\ y \in Int /\ u = Encode(x) /\ v = Encode(y)
  BY DEF FixedPointInv
<1>2. /\ u \in Int /\ Same(u, m) /\ m \in Int
      /\ v \in Int /\ Same(v, n) /\ n \in Int
  BY <1>1, EncodeIs, RoundedIs
<1> HIDE DEF m, n, u, v
<1>3. m + n \in Int /\ m - n \in Int /\ m * n \in Int
  BY <1>2
<1>4. /\ RAdd(u, v) \in Ring /\ Same(RAdd(u, v), u + v)
      /\ RSub(u, v) \in Ring /\ Same(RSub(u, v), u - v)
      /\ RMul(u, v) \in Ring /\ Same(RMul(u, v), u * v)
  BY <1>2, FixedModulus, ZOperations DEF RAdd, RSub, RMul
<1>5. Same(u + v, m + n) /\ Same(u - v, m - n) /\ Same(u * v, m * n)
  BY <1>2, FixedModulus, CongruentAdd, CongruentSub, CongruentMul
<1>6. Same(RAdd(u, v), m + n) /\ Same(RSub(u, v), m - n) /\ Same(RMul(u, v), m * n)
  BY <1>4, <1>5 DEF Same
<1>7. /\ InRange(m + n) => Decode(RAdd(u, v)) = m + n
      /\ InRange(m - n) => Decode(RSub(u, v)) = m - n
      /\ InRange(m * n) => Decode(RMul(u, v)) = m * n
  BY <1>3, <1>4, <1>6, ReadsBack
<1> QED BY <1>7 DEF Homomorphic, m, n, u, v

-----------------------------------------------------------------------------
LEMMA FixedPointInvariant == Spec => []FixedPointInv
<1> QED BY FixedPointInvInit, FixedPointInvStep, PTL DEF Spec

(* What is decoded is the input, to within half of the resolution, for     *)
(* every width and resolution (ring.rs:129-146).                           *)
THEOREM AlwaysRoundTrip == Spec => []RoundTrip
BY FixedPointInvariant, GivesRoundTrip, PTL

(* For every width, an input is refused if and only if the element it      *)
(* reduces to would read back as another number (ring.rs:134-141).         *)
THEOREM AlwaysRefusedIfWrapped == Spec => []RefusedIfWrapped
BY FixedPointInvariant, GivesRefusedIfWrapped, PTL

(* Sums, differences and products of encodings are those of the scaled     *)
(* values whenever these are in range, for every width (ring.rs:5-8).      *)
THEOREM AlwaysHomomorphic == Spec => []Homomorphic
BY FixedPointInvariant, GivesHomomorphic, PTL
=============================================================================
