------------------------------- MODULE Binary -------------------------------
(***************************************************************************)
(* Binary digits: 1 << n, and the digit that is read off a number by       *)
(* shifting.  The powers are a recursive function and not 2^n, about which *)
(* the provers know nothing.                                               *)
(***************************************************************************)
EXTENDS Integers

Pow2[n \in Nat] == IF n = 0 THEN 1 ELSE 2 * Pow2[n - 1]

Digit(number, i) == (number \div Pow2[i]) % 2 = 1
=============================================================================
