------------------------------ MODULE Interval ------------------------------
(***************************************************************************)
(* The interval gate of libfss (ic.rs): both parties learn x = v + r for a *)
(* mask r that only the dealer knows and end with shares of whether v lies *)
(* in p .. q.  Everything is modulo 2^32, so x, v and the bounds that are  *)
(* derived from them may wrap; the gate is a sum of seven comparisons that *)
(* are to make up for it.                                                  *)
(*                                                                         *)
(* ICKey puts out bits and ICCKey ring elements; they are one algorithm    *)
(* over two groups.  The comparison keys are those of KeyTree, of which    *)
(* only the promise is used: shares of whether the index is below r - 1.   *)
(***************************************************************************)
EXTENDS FixedRing, Parties

CONSTANTS
  Orders,    \* the orders of output groups: 2 (ICKey) and 2^32 (ICCKey)
  Halves     \* what the first half of an opened comparison may be

ASSUME IntervalAssumption ==
  /\ WordSize = Modulus
  /\ Modulus > 1
  /\ Orders \subseteq Nat \ {0, 1}
  /\ Halves \subseteq Nat

VARIABLES
  order,        \* the order of the group of the answer
  r,            \* the mask (alpha_bits)
  low, high,    \* the bounds p and q
  word,         \* each key's share of the correction
  x,            \* the masked value that is public
  opened,       \* key 0's shares of the two comparisons
  out,          \* each party's share of the answer
  step          \* "new", "dealt" or "asked"

intervalVars == <<order, r, low, high, word, x, opened, out, step>>

Number == 0 .. Modulus - 1
Group  == 0 .. order - 1

Plus(a, b)  == (a + b) % Modulus
Minus(a, b) == (a - b) % Modulus
Bit(b)      == IF b THEN 1 ELSE 0
Reduce(n)   == n % order

(* Slip: the difference is taken of plain numbers.                          *)
SecondHalfUnreduced(half, correction) == correction - half

SecondHalf(half, correction) == Reduce(correction - half)

(* `q_prime`.                                                              *)
BeyondHigh == Plus(high, 1)

(* Slip: the term for an upper bound that wraps to 0 is left out.          *)
CorrectionWithoutWrap ==
  LET lowMasked  == Plus(low, r)
      highMasked == Plus(high, r)
  IN  Bit(lowMasked > highMasked) - Bit(lowMasked > low)
        + Bit(Plus(highMasked, 1) > BeyondHigh)

(* The terms the dealer can compute.                                       *)
Correction ==
  LET lowMasked  == Plus(low, r)
      highMasked == Plus(high, r)
  IN  Bit(lowMasked > highMasked) - Bit(lowMasked > low)
        + Bit(Plus(highMasked, 1) > BeyondHigh)
        + Bit(highMasked = Modulus - 1)

Gen ==
  /\ step = "new"
  /\ \E half \in {0, 1} :
       word' = [k \in Party |-> IF k = 0 THEN half ELSE SecondHalf(half, Correction)]
  /\ step' = "dealt"
  /\ UNCHANGED <<order, r, low, high, x, opened, out>>

(* The public value; the shares of its comparisons are as they may be.     *)
AskFor(v) ==
  /\ step = "dealt"
  /\ x' = v
  /\ opened' \in (Halves \cap Group) \X (Halves \cap Group)
  /\ step' = "asked"
  /\ UNCHANGED <<order, r, low, high, word, out>>

Ask == \E v \in Number : AskFor(v)

(* Key k's share of whether index i is below the secret bound r - 1.       *)
Below(k, i, half) ==
  IF k = 0 THEN half ELSE Reduce(Bit(i < Minus(r, 1)) - half)

(* The public comparisons are key 1's.                                     *)
Public(k) == IF k = 1 THEN Bit(x > low) - Bit(x > BeyondHigh) ELSE 0

(* What key k evaluates to.                                                *)
Answer(k) ==
  LET atLow  == Minus(Plus(x, Modulus - 1), low)
      atHigh == Minus(Plus(x, Modulus - 1), BeyondHigh)
  IN  Reduce(word[k] + Below(k, atHigh, opened[2]) - Below(k, atLow, opened[1]) + Public(k))

Eval(p) ==
  /\ step = "asked"
  /\ out[p] = <<>>
  /\ out' = [out EXCEPT ![p] = <<Answer(p)>>]
  /\ UNCHANGED <<order, r, low, high, word, x, opened, step>>

IntervalInit ==
  /\ order \in Orders
  /\ r \in Number /\ low \in Number /\ high \in Number
  /\ word = [k \in Party |-> 0]
  /\ x = 0 /\ opened = <<0, 0>>
  /\ out = [p \in Party |-> <<>>]
  /\ step = "new"

IntervalDone == (\A p \in Party : out[p] # <<>>) /\ UNCHANGED intervalVars

IntervalNext == Gen \/ Ask \/ (\E p \in Party : Eval(p)) \/ IntervalDone

IntervalSpec == IntervalInit /\ [][IntervalNext]_intervalVars

-----------------------------------------------------------------------------
IntervalTypeOK ==
  /\ order \in Orders
  /\ {r, low, high, x} \subseteq Number
  /\ word \in [Party -> Group]
  /\ opened \in Group \X Group
  /\ out \in [Party -> {<<>>} \cup {<<g>> : g \in Group}]
  /\ step \in {"new", "dealt", "asked"}

(* The answers add up to whether x - r lies between the bounds, wherever   *)
(* the ring wraps: x may have, the masked bounds may have, and q + 1 does  *)
(* for the largest upper bound.  A lower bound above the upper one is not  *)
(* refused; the interval then goes around (ic.rs:20-133, 158-271).         *)
Contains(v) ==
  IF low <= high THEN low <= v /\ v <= high ELSE low <= v \/ v <= high

AnswerIsContainment ==
  (\A p \in Party : out[p] # <<>>) =>
    Reduce(out[0][1] + out[1][1]) = Bit(Contains(Minus(x, r)))
=============================================================================
