----------------------------- MODULE RingArith -----------------------------
(***************************************************************************)
(* Arithmetic in Z_{2^n} as src/ring.rs does it: a value is kept in a      *)
(* machine word (u64), every operation wraps at the word and is then       *)
(* masked down to the low n bits.                                          *)
(*                                                                         *)
(* WordSize stands for 2^64.  The width is a setting of each process, so   *)
(* every operation takes the modulus n that stands for 2^N_BIT.  All that  *)
(* matters of the two is that the second divides the first, which is what  *)
(* makes masking after wrapping the same as reducing the exact result.     *)
(***************************************************************************)
EXTENDS Integers

CONSTANT WordSize

ASSUME WordAssumption == WordSize \in Nat \ {0}

Word == 0 .. WordSize - 1

(* What a mask of the low bits may keep.                                   *)
Moduli == {n \in Nat \ {0} : WordSize % n = 0}

Z(n) == 0 .. n - 1

(* `value & mask()`.                                                       *)
ZRaw(n, v) == v % n

ZAdd(n, x, y) == ZRaw(n, (x + y) % WordSize)

(* Slip: the difference is wrapped at the word and not masked.             *)
ZSubUnmasked(n, x, y) == (x - y) % WordSize

ZSub(n, x, y) == ZRaw(n, (x - y) % WordSize)

(* Slip: the product is wrapped at the word and not masked.                *)
ZMulUnmasked(n, x, y) == (x * y) % WordSize

ZMul(n, x, y) == ZRaw(n, (x * y) % WordSize)

(* Both halves of `share`: the mask that was drawn, and what is left.      *)
Share(n, x, mask) == <<mask, ZSub(n, x, mask)>>

-----------------------------------------------------------------------------
(* Beaver multiplication.  A triple half is a record [a, b, c].            *)

(* What a party opens for a product x * y: its shares of x - a and y - b.  *)
Masked(n, x, y, t) == <<ZSub(n, x, t.a), ZSub(n, y, t.b)>>

(* Slip: both parties add d * e.                                           *)
ProductOfBoth(n, p, d, e, t) ==
  ZAdd(n, ZAdd(n, ZAdd(n, ZMul(n, d, t.b), ZMul(n, e, t.a)), t.c), ZMul(n, d, e))

(* The share of the product once d = x - a and e = y - b are public; only  *)
(* party 0 adds d * e.                                                     *)
Product(n, p, d, e, t) ==
  LET z == ZAdd(n, ZAdd(n, ZMul(n, d, t.b), ZMul(n, e, t.a)), t.c)
  IN  IF p = 0 THEN ZAdd(n, z, ZMul(n, d, e)) ELSE z

(* `deal` draws five ring elements for a triple: a, b and one mask for     *)
(* each of the sharings of a, b and a * b.                                 *)
Dealt(n, p, r) ==
  [a |-> Share(n, r[1], r[3])[p + 1],
   b |-> Share(n, r[2], r[4])[p + 1],
   c |-> Share(n, ZMul(n, r[1], r[2]), r[5])[p + 1]]
=============================================================================
