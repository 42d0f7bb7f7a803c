----------------------------- MODULE FixedPoint -----------------------------
(***************************************************************************)
(* The fixed-point encoding of src/ring.rs.  A real is given as a whole    *)
(* number of 1/Fraction parts of the resolution 2^-L_BIT, so that the      *)
(* values between two representable ones are there; the arithmetic on it   *)
(* is exact (f64 is, for the widths where these parts can be told apart).  *)
(*                                                                         *)
(* The behaviour is that of two inputs of a circuit: both are encoded, or  *)
(* refused, then added and multiplied as ring elements.                    *)
(***************************************************************************)
EXTENDS FixedRing

CONSTANTS
  Fraction,   \* parts of the resolution
  Reals       \* the inputs, in such parts

ASSUME FixedPointAssumption ==
  /\ Fraction \in Nat \ {0}
  /\ Fraction % 2 = 0
  /\ Modulus % 2 = 0
  /\ Reals \subseteq Int

VARIABLES
  x, y,    \* the inputs
  coded,   \* their encodings, once both have one
  step     \* "given", "refused", "coded"

vars == <<x, y, coded, step>>

Bound == Modulus \div 2

(* Slip: rounded towards zero.                                             *)
RoundedDown(r) == IF r >= 0 THEN r \div Fraction ELSE -((-r) \div Fraction)

(* `round`: to the nearest, and away from zero from halfway.               *)
Rounded(r) ==
  IF r >= 0 THEN (2 * r + Fraction) \div (2 * Fraction)
  ELSE -((2 * (-r) + Fraction) \div (2 * Fraction))

(* Slip: the upper bound is let in.                                        *)
EncodesBound(r) == -Bound <= Rounded(r) /\ Rounded(r) <= Bound

(* `encode` refuses what does not fit; a negative value wraps at the word. *)
Encodes(r) == -Bound <= Rounded(r) /\ Rounded(r) < Bound
Encode(r)  == FromRaw(Rounded(r) % WordSize)

(* `to_signed`, and so `decode` in units of the resolution.                *)
Decode(v) == IF v >= Bound THEN v - Modulus ELSE v

-----------------------------------------------------------------------------
Init ==
  /\ x \in Reals /\ y \in Reals
  /\ coded = <<>>
  /\ step = "given"

EncodeBoth ==
  /\ step = "given"
  /\ Encodes(x) /\ Encodes(y)
  /\ coded' = <<Encode(x), Encode(y)>>
  /\ step' = "coded"
  /\ UNCHANGED <<x, y>>

Refuse ==
  /\ step = "given"
  /\ ~Encodes(x) \/ ~Encodes(y)
  /\ step' = "refused"
  /\ UNCHANGED <<x, y, coded>>

Done == step \in {"coded", "refused"} /\ UNCHANGED vars

Next == EncodeBoth \/ Refuse \/ Done

Spec == Init /\ [][Next]_vars

-----------------------------------------------------------------------------
(* What is decoded is the input, to within half of the resolution          *)
(* (ring.rs:129-146).                                                      *)
RoundTrip ==
  step = "coded" =>
    LET away == Fraction * Decode(coded[1]) - x
    IN  2 * away <= Fraction /\ -2 * away <= Fraction

(* "so this rejects exactly the values that would wrap around the ring"    *)
(* (ring.rs:134-135): an input is refused if and only if the ring element  *)
(* its scaled value reduces to would read back as another number.          *)
RefusedIfWrapped ==
  step # "given" =>
    (step = "refused" <=>
      \E r \in {x, y} : Decode(FromRaw(Rounded(r) % WordSize)) # Rounded(r))

(* Sums and products of encodings are those of the scaled values whenever  *)
(* these are in range, for negative operands too: reduction at the word    *)
(* and at the ring does not show (ring.rs:5-8).                            *)
InRange(n) == -Bound <= n /\ n < Bound

Homomorphic ==
  step = "coded" =>
    LET m == Rounded(x)
        n == Rounded(y)
    IN  /\ InRange(m + n) => Decode(RAdd(coded[1], coded[2])) = m + n
        /\ InRange(m - n) => Decode(RSub(coded[1], coded[2])) = m - n
        /\ InRange(m * n) => Decode(RMul(coded[1], coded[2])) = m * n

(* "encoding succeeds exactly for -max_magnitude() <= x < max_magnitude()" *)
(* (ring.rs:148-149).                                                      *)
RangeIsExact ==
  step = "coded" <=>
    /\ step # "given"
    /\ \A r \in {x, y} : -Bound * Fraction <= r /\ r < Bound * Fraction
=============================================================================
