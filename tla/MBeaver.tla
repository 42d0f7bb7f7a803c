------------------------------ MODULE MBeaver ------------------------------
(***************************************************************************)
(* The conjunction of n shared bits with one opening (mbeaver.rs).  The    *)
(* dealer shares the products of all non-empty sets of n random bits; a    *)
(* set is known by its location, the number whose binary digits name its   *)
(* members, and the material lists 1 .. 2^n - 1.  The parties open the     *)
(* masked bits, extend them to the products of all sets, and each adds up  *)
(* opened products times its shares of the complements.                    *)
(*                                                                         *)
(* The behaviour is that of two parties that were dealt a block, with      *)
(* material for 2 to Dim bits, and take from it the entry for `entry` bits *)
(* to conjoin `bits` of them; the two numbers are the caller's.            *)
(***************************************************************************)
EXTENDS Parties, Binary, FiniteSets

CONSTANTS
  Dim,   \* the largest number of bits a block has material for
  Pads   \* the randomness of split: from a location to a bit

ASSUME MBeaverAssumption ==
  /\ Dim \in Nat \ {0, 1}
  /\ Pads \subseteq [1 .. Pow2[Dim] - 1 -> BOOLEAN]

VARIABLES
  bits, entry,  \* how many bits are conjoined, and with material for how many
  share,        \* each party's material
  value,        \* each party's shares of the bits
  masked,       \* the masked bits a party has opened, <<>> before
  bit           \* its share of the conjunction: "none", "mismatch", or "clear" or "set"

mbeaverVars == <<bits, entry, share, value, masked, bit>>

Locations(n) == 1 .. Pow2[n] - 1
Digits(loc)  == {i \in 0 .. Dim : Digit(loc, i)}
Top(loc)     == CHOOSE i \in Digits(loc) : \A j \in Digits(loc) : j <= i
Atom(i)      == Pow2[i]
Odd(S)       == Cardinality(S) % 2 = 1
Bits(n)      == [0 .. n - 1 -> BOOLEAN]

(* MBeaver::gen, from the random bits of the atoms.                        *)
Material(n, atoms) == [loc \in Locations(n) |-> \A i \in Digits(loc) : atoms[i]]

(* MBeaver::split: party 1's half is the pad.                              *)
SplitMaterial(material, pad) ==
  [p \in Party |-> [loc \in DOMAIN material |->
     IF p = 0 THEN material[loc] # pad[loc] ELSE pad[loc]]]

(* Slip: a location takes over the product of its other digits.            *)
ExtendedBelow(n, d) ==
  LET product[loc \in Locations(n)] ==
        IF loc = Atom(Top(loc)) THEN d[Top(loc)]
        ELSE product[loc - Atom(Top(loc))]
  IN  product

(* extendfrom: the locations above an atom are those below it, times it.   *)
Extended(n, d) ==
  LET product[loc \in Locations(n)] ==
        IF loc = Atom(Top(loc)) THEN d[Top(loc)]
        ELSE product[loc - Atom(Top(loc))] /\ d[Top(loc)]
  IN  product

(* Muls, on the extended bits; the complement of a location is a           *)
(* difference.  Only the server counts the product of all opened bits.     *)
Muls(n, delta, half, isServer) ==
  LET N     == Pow2[n] - 1
      terms == {loc \in 1 .. N - 1 : delta[loc] /\ half[N - loc]}
  IN  (isServer /\ delta[N]) # (half[N] # Odd(terms))

(* product: material for another number of bits is refused.                *)
ConjunctionShare(n, d, half, isServer) ==
  IF DOMAIN half # Locations(n) THEN "mismatch"
  ELSE IF Muls(n, Extended(n, d), half, isServer) THEN "set" ELSE "clear"

-----------------------------------------------------------------------------
(* MBeaverBlock::gen and split, the entry at index entry - 2.              *)
MBeaverInit ==
  /\ bits \in 2 .. Dim
  /\ entry \in bits .. Dim
  /\ \E atoms \in Bits(entry), pad \in Pads :
       share = SplitMaterial(Material(entry, atoms), pad)
  /\ value \in [Party -> Bits(bits)]
  /\ masked = [p \in Party |-> <<>>]
  /\ bit = [p \in Party |-> "none"]

(* A party masks its shares with the atoms of its half (Index) and opens   *)
(* the result.                                                             *)
OpenBits(p) ==
  /\ masked[p] = <<>>
  /\ masked' = [masked EXCEPT ![p] = <<[i \in 0 .. bits - 1 |->
                                          value[p][i] # share[p][Atom(i)]]>>]
  /\ UNCHANGED <<bits, entry, share, value, bit>>

(* Both have opened; each puts the bits together and takes the product.    *)
Conjoin(p) ==
  /\ bit[p] = "none"
  /\ \A q \in Party : masked[q] # <<>>
  /\ LET d == [i \in 0 .. bits - 1 |-> masked[0][1][i] # masked[1][1][i]]
     IN  bit' = [bit EXCEPT ![p] = ConjunctionShare(bits, d, share[p], p = 1)]
  /\ UNCHANGED <<bits, entry, share, value, masked>>

MBeaverDone == (\A p \in Party : bit[p] # "none") /\ UNCHANGED mbeaverVars

MBeaverNext == (\E p \in Party : OpenBits(p) \/ Conjoin(p)) \/ MBeaverDone

MBeaverSpec == MBeaverInit /\ [][MBeaverNext]_mbeaverVars

-----------------------------------------------------------------------------
MBeaverTypeOK ==
  /\ bits \in 2 .. Dim /\ entry \in bits .. Dim
  /\ share \in [Party -> [Locations(entry) -> BOOLEAN]]
  /\ value \in [Party -> Bits(bits)]
  /\ masked \in [Party -> {<<>>} \cup {<<d>> : d \in Bits(bits)}]
  /\ bit \in [Party -> {"none", "mismatch", "clear", "set"}]

(* The parties' bits differ exactly when all of the shared bits are set.   *)
(* With material for another number of bits both are told so, and neither  *)
(* takes a number of its own for an answer (mbeaver.rs:17-168).            *)
ConjunctionsRecombine ==
  (\A p \in Party : bit[p] # "none") =>
    IF bits = entry
    THEN /\ \A p \in Party : bit[p] # "mismatch"
         /\ bit[0] # bit[1] <=> \A i \in 0 .. bits - 1 : value[0][i] # value[1][i]
    ELSE \A p \in Party : bit[p] = "mismatch"
=============================================================================
