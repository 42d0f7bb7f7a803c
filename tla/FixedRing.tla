----------------------------- MODULE FixedRing -----------------------------
(***************************************************************************)
(* The arithmetic of RingArith where one modulus is in use: `Ring` and its *)
(* operators.                                                              *)
(***************************************************************************)
EXTENDS RingArith

CONSTANT Modulus

ASSUME RingAssumption == Modulus \in Nat \ {0} /\ WordSize % Modulus = 0

Ring == Z(Modulus)

FromRaw(v) == ZRaw(Modulus, v)

RAdd(x, y) == ZAdd(Modulus, x, y)
RSub(x, y) == ZSub(Modulus, x, y)
RMul(x, y) == ZMul(Modulus, x, y)
=============================================================================
