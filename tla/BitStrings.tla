----------------------------- MODULE BitStrings -----------------------------
(***************************************************************************)
(* Conversions between numbers and strings of bits (libfss, lib.rs).  A    *)
(* string is a sequence of Booleans; BE reads it most significant bit      *)
(* first.  What is lost or refused at the end of a word is what matters    *)
(* here: a number longer than the string loses its upper bits, and a byte  *)
(* cannot take the bits beyond its width.                                  *)
(***************************************************************************)
EXTENDS Binary, Sequences

CONSTANTS
  ByteBits,  \* 8, the bits of u8
  Checked    \* whether the build checks shifts and sums for overflow

ASSUME BitStringsAssumption ==
  /\ ByteBits \in Nat \ {0}
  /\ Checked \in BOOLEAN

(* u32_to_bits_BE: the lower n bits.                                       *)
ToBits(n, number) == [i \in 1 .. n |-> Digit(number, n - i)]

(* bits_Xor, of strings of the same length.                                *)
XorBits(left, right) == [i \in DOMAIN left |-> left[i] # right[i]]

(* Where overflow is checked, a shift by the width or more panics, whether *)
(* the bit that is shifted is set or not.                                  *)
ByteFits(bits) == Checked => Len(bits) <= ByteBits

(* number |= set << s.                                                     *)
WithDigit(number, set, s) ==
  IF set /\ ~Digit(number, s) THEN number + Pow2[s] ELSE number

(* Slip: read with the least significant bit first.                        *)
ToByteBackwards(bits) ==
  LET out[i \in 0 .. Len(bits)] ==
        IF i = 0 THEN 0 ELSE WithDigit(out[i - 1], bits[i], (i - 1) % ByteBits)
  IN  out[Len(bits)]

(* bits_to_u8_BE.  Unchecked, the width is dropped from the shift and two  *)
(* bits may fall on the same place.                                        *)
ToByte(bits) ==
  LET out[i \in 0 .. Len(bits)] ==
        IF i = 0 THEN 0 ELSE WithDigit(out[i - 1], bits[i], (Len(bits) - i) % ByteBits)
  IN  out[Len(bits)]
=============================================================================
