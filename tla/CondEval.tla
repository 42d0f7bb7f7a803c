------------------------------ MODULE CondEval ------------------------------
(***************************************************************************)
(* Conditional evaluation (condEval.rs): the parties hold bits c_0 and c_1 *)
(* and a masked value; they end with shares of whether the value is in the *)
(* lower half of the ring if their bits differ, and of 0 otherwise.        *)
(*                                                                         *)
(* The dealer makes the two keys of an interval gate, hides which is which *)
(* behind a bit t, and gives each party both of them under one-time pads   *)
(* of the other.  A party sends the pad its bit selects, and the place of  *)
(* the cipher the pad opens.  Two different bits make the parties evaluate *)
(* two different keys; equal bits make them evaluate the same one, whose   *)
(* answers cancel out in a group of order 2.                               *)
(*                                                                         *)
(* A pad is known by the party that owns it and the bit it is for; what a  *)
(* cipher holds under its pad is a key.  Under another pad it holds bytes  *)
(* that are no key, or that happen to be some key.                         *)
(***************************************************************************)
EXTENDS Interval

CONSTANTS
  Shares   \* what party 0's share of the mask may be

ASSUME CondEvalAssumption ==
  /\ Shares \subseteq Number
  /\ Modulus % 2 = 0

VARIABLES
  t, pi,     \* the dealer's bits: which key is which, the order of the ciphers
  alpha,     \* the parties' shares of the mask
  v,         \* the value, which nobody knows
  c,         \* the parties' bits
  letter,    \* what each party has sent: <<[pointer, pad]>>
  source,    \* whose letter each party took its pointer from
  result     \* each party's share of the answer

condVars == <<order, r, low, high, word, x, opened, out, step,
              t, pi, alpha, v, c, letter, source, result>>

Middle == Modulus \div 2

CondInit ==
  /\ IntervalInit
  /\ order = 2 /\ low = 0 /\ high = Middle - 1
  /\ t \in BOOLEAN
  /\ pi \in [Party -> BOOLEAN]
  /\ c \in [Party -> BOOLEAN]
  /\ v \in Number
  /\ \E share \in Shares : alpha = [p \in Party |-> IF p = 0 THEN share ELSE Minus(r, share)]
  /\ letter = [p \in Party |-> <<>>]
  /\ source = [p \in Party |-> p]
  /\ result = [p \in Party |-> <<>>]

(* CondEvalKey::gen, around the keys of the interval gate.                 *)
GenCond ==
  /\ Gen
  /\ UNCHANGED <<t, pi, alpha, v, c, letter, source, result>>

(* The key in the pair's order, and the pad it is under, for a bit.        *)
KeyFor(b) == IF b # t THEN 1 ELSE 0

(* The cipher at a place of party p's key: pi_p swaps the two.             *)
Cipher(p, place) ==
  LET b == place # pi[p]
  IN  [pad |-> <<Peer(p), b>>, key |-> KeyFor(b)]

(* The parties form the masked value from their shares of the mask.        *)
AskCond ==
  /\ AskFor(Plus(Plus(v, alpha[0]), alpha[1]))
  /\ UNCHANGED <<t, pi, alpha, v, c, letter, source, result>>

(* Slip: the order of a party's own ciphers, which the peer has to know.   *)
PointerOfOwn(p) == pi[p] # c[p]

(* The field pi of a party's key is the order of the peer's ciphers.       *)
Pointer(p) == pi[Peer(p)] # c[p]

SendLetter(p) ==
  /\ step = "asked"
  /\ letter[p] = <<>>
  /\ letter' = [letter EXCEPT ![p] = <<[pointer |-> Pointer(p), pad |-> <<p, c[p]>>]>>]
  /\ UNCHANGED <<intervalVars, t, pi, alpha, v, c, source, result>>

(* eval1 takes pointer and pad from the peer's letter, eval may be given   *)
(* the party's own pointer.  What does not decrypt to a key counts as 0,   *)
(* and bytes that happen to be a key give any answer.                      *)
EvalCond(p) ==
  /\ result[p] = <<>>
  /\ \A q \in Party : letter[q] # <<>>
  /\ \E q \in Party :
       LET cipher == Cipher(p, letter[q][1].pointer)
       IN  /\ source' = [source EXCEPT ![p] = q]
           /\ \E answer \in Group :
                /\ cipher.pad = letter[Peer(p)][1].pad => answer = Answer(cipher.key)
                /\ result' = [result EXCEPT ![p] = <<answer>>]
  /\ UNCHANGED <<intervalVars, t, pi, alpha, v, c, letter>>

CondDone == (\A p \in Party : result[p] # <<>>) /\ UNCHANGED condVars

CondNext == GenCond \/ AskCond \/ (\E p \in Party : SendLetter(p) \/ EvalCond(p)) \/ CondDone

CondSpec == CondInit /\ [][CondNext]_condVars

-----------------------------------------------------------------------------
CondTypeOK ==
  /\ IntervalTypeOK
  /\ {t, pi[0], pi[1], c[0], c[1]} \subseteq BOOLEAN
  /\ {v, alpha[0], alpha[1]} \subseteq Number
  /\ letter \in [Party -> {<<>>} \cup
       {<<[pointer |-> b, pad |-> <<p, b2>>]>> : b \in BOOLEAN, b2 \in BOOLEAN, p \in Party}]
  /\ source \in [Party -> Party]
  /\ result \in [Party -> {<<>>} \cup {<<g>> : g \in Group}]

(* The answers add up to "the bits differ and the value is in the lower    *)
(* half", whatever the dealer's bits, the pads and the masks are, for      *)
(* parties that take pointer and pad from the same letter; taking the      *)
(* pointer of their own gives the same as long as both orders and bits     *)
(* agree (condEval.rs:21-166, and its test at 176-200).                    *)
ConditionalAnswer ==
  ( /\ \A p \in Party : result[p] # <<>>
    /\ (\A p \in Party : source[p] = Peer(p)) \/ (pi[0] # c[1]) = (pi[1] # c[0]) )
  => Reduce(result[0][1] + result[1][1]) = Bit(c[0] # c[1] /\ v < Middle)
=============================================================================
