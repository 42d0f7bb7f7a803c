--------------------------- MODULE KeyTreeProofs ---------------------------
(***************************************************************************)
(* What the keys of libfss compute, for every depth, every group, every    *)
(* generator and all seeds: the two parties are where the dealer was while *)
(* the index follows the secret path, in the same state as soon as it      *)
(* leaves it, and what they output adds up to the function that was dealt. *)
(***************************************************************************)
EXTENDS KeyTree, TLAPS, WellFoundedInduction

-----------------------------------------------------------------------------
(* The group: its operations compute modulo Modulus.                       *)

(* Equality of what two integers reduce to.                                *)
Same(x, y) == x % Modulus = y % Modulus

LEMMA Reduced ==
  ASSUME NEW x \in Int
  PROVE  /\ x % Modulus \in Group
         /\ x % Modulus \in Int
         /\ x \div Modulus \in Int
         /\ x = Modulus * (x \div Modulus) + (x % Modulus)
BY KeyTreeAssumption DEF Group

LEMMA Remainder ==
  ASSUME NEW q \in Int, NEW r \in Group
  PROVE  (Modulus * q + r) % Modulus = r
BY KeyTreeAssumption DEF Group

LEMMA GroupInt ==
  ASSUME NEW x \in Group
  PROVE  x \in Int /\ x % Modulus = x
<1>1. x \in Int /\ 0 \in Int /\ Modulus \in Int
  BY KeyTreeAssumption DEF Group
<1>2. (Modulus * 0 + x) % Modulus = x
  BY <1>1, Remainder
<1>3. Modulus * 0 + x = x
  BY <1>1
<1> QED BY <1>1, <1>2, <1>3

LEMMA SameGroup ==
  ASSUME NEW x \in Group, NEW y \in Group, Same(x, y)
  PROVE  x = y
BY GroupInt DEF Same

LEMMA ZeroGroup == 0 \in Group
BY KeyTreeAssumption DEF Group

(* Two integers reduce to the same when they differ by one of these.       *)
Multiples == {Modulus * k : k \in Int}

LEMMA MultiplesClosed ==
  /\ Multiples \subseteq Int
  /\ \A a, b \in Multiples : a + b \in Multiples /\ a - b \in Multiples
<1>1. Modulus \in Int
  BY KeyTreeAssumption
<1>2. Multiples \subseteq Int
  BY <1>1 DEF Multiples
<1>3. ASSUME NEW a \in Multiples, NEW b \in Multiples
      PROVE  a + b \in Multiples /\ a - b \in Multiples
  <2>1. PICK j \in Int : a = Modulus * j
    BY DEF Multiples
  <2>2. PICK k \in Int : b = Modulus * k
    BY DEF Multiples
  <2>3. a + b = Modulus * (j + k) /\ a - b = Modulus * (j - k)
    BY <1>1, <2>1, <2>2
  <2>4. j + k \in Int /\ j - k \in Int
    OBVIOUS
  <2> QED BY <2>3, <2>4 DEF Multiples
<1> QED BY <1>2, <1>3

LEMMA MultipleSame ==
  ASSUME NEW x \in Int, NEW m \in Multiples
  PROVE  Same(x + m, x)
<1>1. PICK k \in Int : m = Modulus * k
  BY DEF Multiples
<1> DEFINE q == x \div Modulus
           r == x % Modulus
<1>2. q \in Int /\ r \in Group /\ r \in Int /\ x = Modulus * q + r
  BY Reduced
<1> HIDE DEF q
<1>3. x + Modulus * k = Modulus * (q + k) + r
  BY <1>2, KeyTreeAssumption
<1>4. q + k \in Int
  BY <1>2
<1>5. (Modulus * (q + k) + r) % Modulus = r
  BY <1>2, <1>4, Remainder
<1> QED BY <1>1, <1>3, <1>5 DEF Same

(* Reducing adds a multiple.                                               *)
LEMMA ReducedBy ==
  ASSUME NEW x \in Int
  PROVE  \E m \in Multiples : x % Modulus = x + m
<1>1. x \div Modulus \in Int /\ x % Modulus \in Int
  BY Reduced
<1>2. x = Modulus * (x \div Modulus) + (x % Modulus)
  BY Reduced
<1>3. PICK k \in Int : k = -(x \div Modulus)
  BY <1>1
<1>4. Modulus * k \in Multiples /\ Modulus * k \in Int
  BY KeyTreeAssumption DEF Multiples
<1>5. Modulus * k = -(Modulus * (x \div Modulus))
  BY <1>1, <1>3, KeyTreeAssumption
<1>6. x % Modulus = x + Modulus * k
  BY <1>1, <1>2, <1>4, <1>5, KeyTreeAssumption
<1> QED BY <1>4, <1>6

LEMMA Operations ==
  ASSUME NEW x \in Int, NEW y \in Int
  PROVE  /\ Plus(x, y) \in Group /\ \E m \in Multiples : Plus(x, y) = x + y + m
         /\ Minus(x, y) \in Group /\ \E m \in Multiples : Minus(x, y) = x - y + m
         /\ Negated(x) \in Group /\ \E m \in Multiples : Negated(x) = -x + m
<1>1. x + y \in Int /\ x - y \in Int /\ -x \in Int
  OBVIOUS
<1>2. Plus(x, y) = (x + y) % Modulus
  BY DEF Plus
<1>3. Minus(x, y) = (x - y) % Modulus
  BY DEF Minus
<1>4. Negated(x) = (-x) % Modulus
  BY DEF Negated
<1>5. Plus(x, y) \in Group /\ \E m \in Multiples : Plus(x, y) = x + y + m
  BY <1>1, <1>2, Reduced, ReducedBy
<1>6. Minus(x, y) \in Group /\ \E m \in Multiples : Minus(x, y) = x - y + m
  BY <1>1, <1>3, Reduced, ReducedBy
<1>7. Negated(x) \in Group /\ \E m \in Multiples : Negated(x) = -x + m
  BY <1>1, <1>4, Reduced, ReducedBy
<1> QED BY <1>5, <1>6, <1>7

(* Two elements that differ by a multiple are the same.                    *)
LEMMA Differ ==
  ASSUME NEW x \in Group, NEW y \in Group, NEW m \in Multiples, x = y + m
  PROVE  x = y
<1>1. Same(y + m, y)
  BY GroupInt, MultipleSame
<1> QED BY <1>1, SameGroup

(* An integer with a sign.                                                 *)
Sign(negative, x) == IF negative THEN -x ELSE x

LEMMA SignedBy ==
  ASSUME NEW negative \in BOOLEAN, NEW x \in Group
  PROVE  /\ Signed(negative, x) \in Group
         /\ \E m \in Multiples : Signed(negative, x) = Sign(negative, x) + m
<1>1. x \in Int /\ 0 \in Multiples
  <2>1. Modulus * 0 = 0
    BY KeyTreeAssumption
  <2>2. 0 \in Int
    OBVIOUS
  <2> QED BY <2>1, <2>2, GroupInt DEF Multiples
<1>2. CASE negative
  BY <1>1, <1>2, Operations DEF Signed, Sign
<1>3. CASE ~negative
  <2>1. x = x + 0
    BY <1>1
  <2> QED BY <1>1, <1>3, <2>1 DEF Signed, Sign
<1> QED BY <1>2, <1>3

LEMMA PartBy ==
  ASSUME NEW t \in BOOLEAN, NEW x \in Group, NEW w \in Group
  PROVE  /\ Part(t, x, w) \in Group
         /\ \E m \in Multiples : Part(t, x, w) = x + (IF t THEN w ELSE 0) + m
<1>1. x \in Int /\ w \in Int
  BY GroupInt
<1>2. PICK c : c = IF t THEN w ELSE 0
  OBVIOUS
<1>3. c \in Int
  BY <1>1, <1>2
<1>4. Part(t, x, w) = Plus(x, c)
  BY <1>2 DEF Part
<1>5. Plus(x, c) \in Group /\ \E m \in Multiples : Plus(x, c) = x + c + m
  BY <1>1, <1>3, Operations
<1> QED BY <1>2, <1>4, <1>5

-----------------------------------------------------------------------------
(* What both parties add at a level (or at the leaf), from the conversions *)
(* x0 and x1 and one word, the second party with its sign.                 *)
Both(o0, o1, h0, h1) == Plus(Plus(o0, Signed(0 = 1, h0)), Plus(o1, Signed(1 = 1, h1)))

(* It is their difference.                                                 *)
LEMMA BothBy ==
  ASSUME NEW o0 \in Group, NEW o1 \in Group, NEW h0 \in Group, NEW h1 \in Group
  PROVE  /\ Both(o0, o1, h0, h1) \in Group
         /\ \E m \in Multiples : Both(o0, o1, h0, h1) = Plus(o0, o1) + (h0 - h1) + m
<1>1. o0 \in Int /\ o1 \in Int /\ h0 \in Int /\ h1 \in Int
  BY GroupInt
<1>2. PICK s : s = Plus(o0, o1)
  OBVIOUS
<1>3. PICK a : a = Plus(o0, Signed(0 = 1, h0))
  OBVIOUS
<1>4. PICK n : n = Signed(1 = 1, h1)
  OBVIOUS
<1>5. PICK b : b = Plus(o1, n)
  OBVIOUS
<1>6. PICK m1 \in Multiples : s \in Group /\ s = o0 + o1 + m1
  BY <1>1, <1>2, Operations
<1>7. Signed(0 = 1, h0) = h0
  BY DEF Signed
<1>8. PICK m2 \in Multiples : a \in Group /\ a = o0 + h0 + m2
  BY <1>1, <1>3, <1>7, Operations
<1>9. n = Negated(h1)
  BY <1>4 DEF Signed
<1>10. PICK m3 \in Multiples : n \in Group /\ n = -h1 + m3
  BY <1>1, <1>9, Operations
<1>11. n \in Int /\ a \in Int /\ s \in Int
  BY <1>6, <1>8, <1>10, GroupInt
<1>12. PICK m4 \in Multiples : b \in Group /\ b = o1 + n + m4
  BY <1>1, <1>5, <1>11, Operations
<1>13. b \in Int
  BY <1>12, GroupInt
<1>14. PICK m5 \in Multiples : Plus(a, b) \in Group /\ Plus(a, b) = a + b + m5
  BY <1>11, <1>13, Operations
<1>15. m1 \in Int /\ m2 \in Int /\ m3 \in Int /\ m4 \in Int /\ m5 \in Int
  BY MultiplesClosed
<1>16. Plus(a, b) = s + (h0 - h1) + ((((m2 + m3) + m4) + m5) - m1)
  BY <1>1, <1>6, <1>8, <1>10, <1>12, <1>14, <1>15
<1>17. (((m2 + m3) + m4) + m5) - m1 \in Multiples
  BY MultiplesClosed
<1>18. Both(o0, o1, h0, h1) = Plus(a, b)
  BY <1>3, <1>4, <1>5 DEF Both
<1> QED BY <1>2, <1>14, <1>16, <1>17, <1>18

(* Parties in the same state add nothing.                                  *)
LEMMA SameState ==
  ASSUME NEW o0 \in Group, NEW o1 \in Group, NEW h \in Group
  PROVE  Both(o0, o1, h, h) = Plus(o0, o1)
<1>1. PICK m \in Multiples : Both(o0, o1, h, h) = Plus(o0, o1) + (h - h) + m
  BY BothBy
<1>2. h \in Int /\ m \in Int /\ o0 \in Int /\ o1 \in Int
  BY GroupInt, MultiplesClosed
<1>3. Plus(o0, o1) \in Group /\ Plus(o0, o1) \in Int
  BY <1>2, Operations, GroupInt
<1>4. Both(o0, o1, h, h) = Plus(o0, o1) + m
  BY <1>1, <1>2, <1>3
<1> QED BY <1>3, <1>4, BothBy, Differ

(* Parties with different control bits add the difference of their         *)
(* conversions, and the word with the sign of the second party's bit.      *)
LEMMA OtherBits ==
  ASSUME NEW o0 \in Group, NEW o1 \in Group, NEW x0 \in Group, NEW x1 \in Group,
         NEW t0 \in BOOLEAN, NEW t1 \in BOOLEAN, t0 # t1, NEW w \in Group
  PROVE  /\ Both(o0, o1, Part(t0, x0, w), Part(t1, x1, w)) \in Group
         /\ \E m \in Multiples : Both(o0, o1, Part(t0, x0, w), Part(t1, x1, w))
                                  = Plus(o0, o1) + (x0 - x1) + Sign(t1, w) + m
<1>1. PICK h0 : h0 = Part(t0, x0, w)
  OBVIOUS
<1>2. PICK h1 : h1 = Part(t1, x1, w)
  OBVIOUS
<1>3. PICK m0 \in Multiples : h0 \in Group /\ h0 = x0 + (IF t0 THEN w ELSE 0) + m0
  BY <1>1, PartBy
<1>4. PICK m1 \in Multiples : h1 \in Group /\ h1 = x1 + (IF t1 THEN w ELSE 0) + m1
  BY <1>2, PartBy
<1>5. PICK m2 \in Multiples : Both(o0, o1, h0, h1) = Plus(o0, o1) + (h0 - h1) + m2
  BY <1>3, <1>4, BothBy
<1>6. /\ m0 \in Int /\ m1 \in Int /\ m2 \in Int /\ x0 \in Int /\ x1 \in Int /\ w \in Int
      /\ o0 \in Int /\ o1 \in Int
  BY GroupInt, MultiplesClosed
<1>7. Plus(o0, o1) \in Int
  BY <1>6, Operations, GroupInt
<1>8. (IF t0 THEN w ELSE 0) - (IF t1 THEN w ELSE 0) = Sign(t1, w)
  BY <1>6 DEF Sign
<1>9. Sign(t1, w) \in Int /\ (IF t0 THEN w ELSE 0) \in Int /\ (IF t1 THEN w ELSE 0) \in Int
  BY <1>6 DEF Sign
<1>10. PICK c0 : c0 = IF t0 THEN w ELSE 0
  OBVIOUS
<1>11. PICK c1 : c1 = IF t1 THEN w ELSE 0
  OBVIOUS
<1>12. /\ c0 \in Int /\ c1 \in Int /\ c0 - c1 = Sign(t1, w)
       /\ h0 = x0 + c0 + m0 /\ h1 = x1 + c1 + m1
  BY <1>3, <1>4, <1>8, <1>9, <1>10, <1>11
<1>13. h0 - h1 = (x0 - x1) + Sign(t1, w) + (m0 - m1)
  BY <1>6, <1>9, <1>12
<1>14. m0 - m1 \in Multiples /\ (m0 - m1) + m2 \in Multiples
  BY MultiplesClosed
<1>15. h0 \in Int /\ h1 \in Int
  BY <1>3, <1>4, GroupInt
<1>16. Plus(o0, o1) + (h0 - h1) + m2
       = Plus(o0, o1) + (x0 - x1) + Sign(t1, w) + ((m0 - m1) + m2)
  BY <1>6, <1>7, <1>9, <1>13, <1>15
<1>17. Both(o0, o1, h0, h1) \in Group
  BY <1>3, <1>4, BothBy
<1> QED BY <1>1, <1>2, <1>5, <1>14, <1>16, <1>17
-----------------------------------------------------------------------------
(* The words.  A node is here the pair of the two parties' nodes.          *)

LEMMA PrgTypes ==
  ASSUME prg \in Prgs, NEW s \in Seed, NEW side \in BOOLEAN
  PROVE  /\ Child(s, side) \in Seed
         /\ Word(s) \in Group
         /\ Veed(s, side) \in Group
         /\ prg.next[s] \in Seed
<1>1. prg \in [child : [BOOLEAN -> [Seed -> Seed]], veed : [BOOLEAN -> [Seed -> Seed]],
               word : [Seed -> Group], next : [Seed -> Seed]]
  BY KeyTreeAssumption
<1>2. prg.veed[side][s] \in Seed
  BY <1>1
<1> QED BY <1>1, <1>2 DEF Child, Word, Veed

(* A word with the sign it is used with is what it was made to undo.       *)
LEMMA SignTwice ==
  ASSUME NEW t \in BOOLEAN, NEW g \in Group, NEW w \in Group, w = Signed(t, g)
  PROVE  \E m \in Multiples : Sign(t, w) = g + m
<1>1. PICK m1 \in Multiples : w = Sign(t, g) + m1
  BY SignedBy
<1>2. g \in Int /\ w \in Int /\ m1 \in Int
  BY GroupInt, MultiplesClosed
<1>3. CASE t
  <2>1. Sign(t, w) = g + (m1 - (m1 + m1))
    BY <1>1, <1>2, <1>3 DEF Sign
  <2>2. m1 - (m1 + m1) \in Multiples
    BY MultiplesClosed
  <2> QED BY <2>1, <2>2
<1>4. CASE ~t
  BY <1>1, <1>4 DEF Sign
<1> QED BY <1>3, <1>4

LEMMA GapBy ==
  ASSUME prg \in Prgs, NEW node \in [Party -> Node], NEW value \in Group
  PROVE  /\ Word(node[0].seed) \in Group /\ Word(node[1].seed) \in Group
         /\ Gap(node, value) \in Group
         /\ \E m \in Multiples :
              Gap(node, value) = value - Word(node[0].seed) + Word(node[1].seed) + m
<1>1. node[0].seed \in Seed /\ node[1].seed \in Seed
  BY DEF Party, Node
<1>2. PICK a : a = Word(node[0].seed)
  OBVIOUS
<1>3. PICK b : b = Word(node[1].seed)
  OBVIOUS
<1>4. a \in Group /\ b \in Group
  BY <1>1, <1>2, <1>3, PrgTypes
<1>5. a \in Int /\ b \in Int /\ value \in Int
  BY <1>4, GroupInt
<1>6. PICK c : c = Minus(value, a)
  OBVIOUS
<1>7. PICK m1 \in Multiples : c \in Group /\ c = value - a + m1
  BY <1>5, <1>6, Operations
<1>8. c \in Int /\ m1 \in Int
  BY <1>7, GroupInt, MultiplesClosed
<1>9. PICK m2 \in Multiples : Plus(c, b) \in Group /\ Plus(c, b) = c + b + m2
  BY <1>5, <1>8, Operations
<1>10. m2 \in Int /\ m1 + m2 \in Multiples
  BY MultiplesClosed
<1>11. Plus(c, b) = value - a + b + (m1 + m2)
  BY <1>5, <1>7, <1>8, <1>9, <1>10
<1>12. Gap(node, value) = Plus(c, b)
  BY <1>2, <1>3, <1>6 DEF Gap
<1> QED BY <1>2, <1>3, <1>4, <1>9, <1>10, <1>11, <1>12

LEMMA LostGapBy ==
  ASSUME prg \in Prgs, NEW node \in [Party -> Node], NEW v \in Group,
         NEW keep \in BOOLEAN
  PROVE  /\ \A side \in BOOLEAN : /\ Veed(node[0].seed, side) \in Group
                                   /\ Veed(node[1].seed, side) \in Group
         /\ LostGap(node, v, keep) \in Group
         /\ \E m \in Multiples :
              LostGap(node, v, keep) = (Veed(node[1].seed, ~keep) - Veed(node[0].seed, ~keep)) - v + m
<1>1. node[0].seed \in Seed /\ node[1].seed \in Seed
  BY DEF Party, Node
<1>2. \A side \in BOOLEAN : /\ Veed(node[0].seed, side) \in Group
                            /\ Veed(node[1].seed, side) \in Group
  BY <1>1, PrgTypes
<1>3. PICK a : a = Veed(node[0].seed, ~keep)
  OBVIOUS
<1>4. PICK b : b = Veed(node[1].seed, ~keep)
  OBVIOUS
<1>5. a \in Group /\ b \in Group
  BY <1>2, <1>3, <1>4
<1>6. a \in Int /\ b \in Int /\ v \in Int /\ 0 \in Int
  BY <1>5, GroupInt
<1>7. PICK c : c = Minus(0, v)
  OBVIOUS
<1>8. PICK m1 \in Multiples : c \in Group /\ c = 0 - v + m1
  BY <1>6, <1>7, Operations
<1>9. c \in Int /\ m1 \in Int
  BY <1>8, GroupInt, MultiplesClosed
<1>10. PICK d : d = Plus(c, b)
  OBVIOUS
<1>11. PICK m2 \in Multiples : d \in Group /\ d = c + b + m2
  BY <1>6, <1>9, <1>10, Operations
<1>12. d \in Int /\ m2 \in Int
  BY <1>11, GroupInt, MultiplesClosed
<1>13. PICK m3 \in Multiples : Minus(d, a) \in Group /\ Minus(d, a) = d - a + m3
  BY <1>6, <1>12, Operations
<1>14. m3 \in Int /\ (m1 + m2) + m3 \in Multiples
  BY MultiplesClosed
<1>15. Minus(d, a) = (b - a) - v + ((m1 + m2) + m3)
  BY <1>6, <1>8, <1>9, <1>11, <1>12, <1>13, <1>14
<1>16. LostGap(node, v, keep) = Minus(d, a)
  BY <1>3, <1>4, <1>7, <1>10 DEF LostGap
<1> QED BY <1>2, <1>3, <1>4, <1>13, <1>14, <1>15, <1>16

(* The word of a comparison undoes the lost side, and counts the value     *)
(* where the path turns right.                                             *)
LEMMA CompareWordBy ==
  ASSUME prg \in Prgs, NEW node \in [Party -> Node], NEW v \in Group,
         NEW keep \in BOOLEAN, NEW value \in Group
  PROVE  /\ CompareWord(node, v, keep, value) \in Group
         /\ \E m \in Multiples :
              Sign(node[1].t, CompareWord(node, v, keep, value))
                = LostGap(node, v, keep) + (IF keep THEN value ELSE 0) + m
<1>1. PICK t \in BOOLEAN : t = node[1].t
  BY DEF Party, Node
<1>2. PICK g : g = LostGap(node, v, keep)
  OBVIOUS
<1>3. g \in Group /\ g \in Int /\ value \in Int
  BY <1>2, LostGapBy, GroupInt
<1>4. PICK a : a = Signed(t, g)
  OBVIOUS
<1>5. PICK m1 \in Multiples : a \in Group /\ a = Sign(t, g) + m1
  BY <1>3, <1>4, SignedBy
<1>6. PICK c : c = IF keep THEN value ELSE 0
  OBVIOUS
<1>7. c \in Group /\ c \in Int
  BY <1>6, <1>3, ZeroGroup
<1>8. PICK b : b = IF keep THEN Signed(t, value) ELSE 0
  OBVIOUS
<1>9. \E m \in Multiples : b \in Group /\ b = Sign(t, c) + m
  <2>1. CASE keep
    BY <1>6, <1>8, <2>1, SignedBy
  <2>2. CASE ~keep
    <3>1. b = 0 /\ c = 0
      BY <1>6, <1>8, <2>2
    <3>2. Sign(t, c) = 0
      <4>1. CASE t = TRUE
        <5>1. Sign(t, c) = -c
          BY <4>1 DEF Sign
        <5>2. -c = 0 - c /\ 0 - 0 = 0
          BY <1>7
        <5> QED BY <3>1, <5>1, <5>2
      <4>2. CASE t = FALSE
        BY <3>1, <4>2 DEF Sign
      <4> QED BY <1>1, <4>1, <4>2
    <3>3. 0 \in Multiples
      <4>1. Modulus * 0 = 0 /\ 0 \in Int
        BY KeyTreeAssumption
      <4> QED BY <4>1 DEF Multiples
    <3>4. b = Sign(t, c) + 0
      BY <3>1, <3>2
    <3> QED BY <3>1, <3>3, <3>4, ZeroGroup
  <2> QED BY <2>1, <2>2
<1>10. PICK m2 \in Multiples : b \in Group /\ b = Sign(t, c) + m2
  BY <1>9
<1>11. a \in Int /\ b \in Int /\ m1 \in Int /\ m2 \in Int
  BY <1>5, <1>10, GroupInt, MultiplesClosed
<1>12. PICK w : w = Plus(a, b)
  OBVIOUS
<1>13. PICK m3 \in Multiples : w \in Group /\ w = a + b + m3
  BY <1>11, <1>12, Operations
<1>14. m3 \in Int /\ w \in Int
  BY <1>13, GroupInt, MultiplesClosed
<1>15. PICK n : n = (m1 + m2) + m3
  OBVIOUS
<1>16. n \in Multiples /\ n - (n + n) \in Multiples
  BY <1>15, MultiplesClosed
<1>17. n \in Int
  BY <1>16, MultiplesClosed
<1>18. \E m \in Multiples : Sign(t, w) = g + c + m
  <2>1. CASE t
    <3>1. Sign(t, w) = g + c + (n - (n + n))
      BY <1>3, <1>5, <1>7, <1>10, <1>11, <1>13, <1>14, <1>15, <1>17, <2>1 DEF Sign
    <3> QED BY <1>16, <3>1
  <2>2. CASE ~t
    <3>1. Sign(t, w) = g + c + n
      BY <1>3, <1>5, <1>7, <1>10, <1>11, <1>13, <1>14, <1>15, <1>17, <2>2 DEF Sign
    <3> QED BY <1>16, <3>1
  <2> QED BY <2>1, <2>2
<1>19. w = CompareWord(node, v, keep, value)
  BY <1>1, <1>2, <1>4, <1>8, <1>12 DEF CompareWord
<1> QED BY <1>1, <1>2, <1>6, <1>13, <1>18, <1>19

(* What the dealer goes on with.                                           *)
LEMMA CompareSumBy ==
  ASSUME prg \in Prgs, NEW node \in [Party -> Node], NEW v \in Group,
         NEW keep \in BOOLEAN, NEW w \in Group
  PROVE  /\ CompareSum(node, v, keep, w) \in Group
         /\ \E m \in Multiples :
              CompareSum(node, v, keep, w)
                = v + (Veed(node[0].seed, keep) - Veed(node[1].seed, keep)) + Sign(node[1].t, w) + m
<1>1. PICK t \in BOOLEAN : t = node[1].t
  BY DEF Party, Node
<1>2. PICK a : a = Veed(node[0].seed, keep)
  OBVIOUS
<1>3. PICK b : b = Veed(node[1].seed, keep)
  OBVIOUS
<1>4. a \in Group /\ b \in Group
  BY <1>2, <1>3, LostGapBy
<1>5. a \in Int /\ b \in Int /\ v \in Int /\ w \in Int
  BY <1>4, GroupInt
<1>6. PICK c : c = Minus(v, b)
  OBVIOUS
<1>7. PICK m1 \in Multiples : c \in Group /\ c = v - b + m1
  BY <1>5, <1>6, Operations
<1>8. PICK s : s = Signed(t, w)
  OBVIOUS
<1>9. PICK m2 \in Multiples : s \in Group /\ s = Sign(t, w) + m2
  BY <1>8, SignedBy
<1>10. c \in Int /\ s \in Int /\ m1 \in Int /\ m2 \in Int
  BY <1>7, <1>9, GroupInt, MultiplesClosed
<1>11. PICK d : d = Plus(c, a)
  OBVIOUS
<1>12. PICK m3 \in Multiples : d \in Group /\ d = c + a + m3
  BY <1>5, <1>10, <1>11, Operations
<1>13. d \in Int /\ m3 \in Int
  BY <1>12, GroupInt, MultiplesClosed
<1>14. PICK m4 \in Multiples : Plus(d, s) \in Group /\ Plus(d, s) = d + s + m4
  BY <1>10, <1>13, Operations
<1>15. m4 \in Int /\ ((m1 + m2) + m3) + m4 \in Multiples
  BY MultiplesClosed
<1>16. PICK g : g = Sign(t, w)
  OBVIOUS
<1>17. g \in Int
  BY <1>5, <1>16 DEF Sign
<1>18. Plus(d, s) = v + (a - b) + g + (((m1 + m2) + m3) + m4)
  BY <1>5, <1>7, <1>9, <1>10, <1>12, <1>13, <1>14, <1>15, <1>16, <1>17
<1>19. CompareSum(node, v, keep, w) = Plus(d, s)
  BY <1>1, <1>2, <1>3, <1>6, <1>8, <1>11 DEF CompareSum
<1> QED BY <1>1, <1>2, <1>3, <1>14, <1>15, <1>16, <1>18, <1>19
-----------------------------------------------------------------------------
(* One level, and the leaf.  The parties stand on the dealer's nodes, with *)
(* different control bits.                                                 *)

(* On the side that is kept they end with what the dealer keeps.           *)
LEMMA KeptLevel ==
  ASSUME prg \in Prgs, NEW node \in [Party -> Node], node[0].t # node[1].t,
         NEW keep \in BOOLEAN, NEW w \in Group, NEW o0 \in Group, NEW o1 \in Group
  PROVE  Both(o0, o1, Part(node[0].t, Veed(node[0].seed, keep), w),
                      Part(node[1].t, Veed(node[1].seed, keep), w))
         = CompareSum(node, Plus(o0, o1), keep, w)
<1>1. PICK v : v = Plus(o0, o1)
  OBVIOUS
<1>2. v \in Group /\ v \in Int /\ w \in Int
  BY <1>1, GroupInt, Operations
<1>3. PICK t0 \in BOOLEAN : t0 = node[0].t
  BY DEF Party, Node
<1>4. PICK t1 \in BOOLEAN : t1 = node[1].t
  BY DEF Party, Node
<1>5. PICK a : a = Veed(node[0].seed, keep)
  OBVIOUS
<1>6. PICK b : b = Veed(node[1].seed, keep)
  OBVIOUS
<1>7. a \in Group /\ b \in Group /\ a \in Int /\ b \in Int
  BY <1>2, <1>5, <1>6, LostGapBy, GroupInt
<1>8. PICK x : x = Both(o0, o1, Part(t0, a, w), Part(t1, b, w))
  OBVIOUS
<1>9. PICK m1 \in Multiples : x \in Group /\ x = v + (a - b) + Sign(t1, w) + m1
  BY <1>1, <1>3, <1>4, <1>7, <1>8, OtherBits
<1>10. PICK y : y = CompareSum(node, v, keep, w)
  OBVIOUS
<1>11. PICK m2 \in Multiples : y \in Group /\ y = v + (a - b) + Sign(t1, w) + m2
  BY <1>2, <1>4, <1>5, <1>6, <1>10, CompareSumBy
<1>12. m1 \in Int /\ m2 \in Int /\ m1 - m2 \in Multiples /\ x \in Int /\ y \in Int
  BY <1>9, <1>11, GroupInt, MultiplesClosed
<1>13. Sign(t1, w) \in Int
  BY <1>2 DEF Sign
<1>14. x = y + (m1 - m2)
  BY <1>2, <1>7, <1>9, <1>11, <1>12, <1>13
<1>15. x = y
  BY <1>9, <1>11, <1>12, <1>14, Differ
<1> QED BY <1>1, <1>3, <1>4, <1>5, <1>6, <1>8, <1>10, <1>15

(* On the side that is lost they end with the comparison's result.         *)
LEMMA LostLevel ==
  ASSUME prg \in Prgs, NEW node \in [Party -> Node], node[0].t # node[1].t,
         NEW keep \in BOOLEAN, NEW value \in Group, NEW o0 \in Group, NEW o1 \in Group,
         NEW w, w = CompareWord(node, Plus(o0, o1), keep, value)
  PROVE  Both(o0, o1, Part(node[0].t, Veed(node[0].seed, ~keep), w),
                      Part(node[1].t, Veed(node[1].seed, ~keep), w))
         = IF keep THEN value ELSE 0
<1>1. PICK v : v = Plus(o0, o1)
  OBVIOUS
<1>2. v \in Group /\ v \in Int
  BY <1>1, GroupInt, Operations
<1>3. PICK t0 \in BOOLEAN : t0 = node[0].t
  BY DEF Party, Node
<1>4. PICK t1 \in BOOLEAN : t1 = node[1].t
  BY DEF Party, Node
<1>5. PICK a : a = Veed(node[0].seed, ~keep)
  OBVIOUS
<1>6. PICK b : b = Veed(node[1].seed, ~keep)
  OBVIOUS
<1>7. a \in Group /\ b \in Group /\ a \in Int /\ b \in Int
  BY <1>2, <1>5, <1>6, LostGapBy, GroupInt
<1>8. PICK c : c = IF keep THEN value ELSE 0
  OBVIOUS
<1>9. c \in Group /\ c \in Int
  BY <1>8, ZeroGroup, GroupInt
<1>10. PICK g : g = LostGap(node, v, keep)
  OBVIOUS
<1>11. PICK m1 \in Multiples : g \in Group /\ g = (b - a) - v + m1
  BY <1>2, <1>5, <1>6, <1>10, LostGapBy
<1>12. PICK m2 \in Multiples : w \in Group /\ Sign(t1, w) = g + c + m2
  BY <1>1, <1>2, <1>4, <1>8, <1>10, CompareWordBy
<1>13. PICK x : x = Both(o0, o1, Part(t0, a, w), Part(t1, b, w))
  OBVIOUS
<1>14. PICK m3 \in Multiples : x \in Group /\ x = v + (a - b) + Sign(t1, w) + m3
  BY <1>1, <1>3, <1>4, <1>7, <1>12, <1>13, OtherBits
<1>15. m1 \in Int /\ m2 \in Int /\ m3 \in Int /\ g \in Int /\ (m1 + m2) + m3 \in Multiples
  BY <1>11, GroupInt, MultiplesClosed
<1>16. x = c + ((m1 + m2) + m3)
  BY <1>2, <1>7, <1>9, <1>11, <1>12, <1>14, <1>15
<1>17. x = c
  BY <1>9, <1>14, <1>15, <1>16, Differ
<1> QED BY <1>3, <1>4, <1>5, <1>6, <1>8, <1>13, <1>17

(* A word made from a gap adds the value.                                  *)
LEMMA LeafLevel ==
  ASSUME prg \in Prgs, NEW node \in [Party -> Node], node[0].t # node[1].t,
         NEW value \in Group, NEW o0 \in Group, NEW o1 \in Group,
         NEW w, w = Signed(node[1].t, Gap(node, value))
  PROVE  Both(o0, o1, Part(node[0].t, Word(node[0].seed), w),
                      Part(node[1].t, Word(node[1].seed), w))
         = Plus(Plus(o0, o1), value)
<1>1. PICK v : v = Plus(o0, o1)
  OBVIOUS
<1>2. v \in Group /\ v \in Int /\ value \in Int
  BY <1>1, GroupInt, Operations
<1>3. PICK t0 \in BOOLEAN : t0 = node[0].t
  BY DEF Party, Node
<1>4. PICK t1 \in BOOLEAN : t1 = node[1].t
  BY DEF Party, Node
<1>5. PICK a : a = Word(node[0].seed)
  OBVIOUS
<1>6. PICK b : b = Word(node[1].seed)
  OBVIOUS
<1>7. PICK g : g = Gap(node, value)
  OBVIOUS
<1>8. PICK m1 \in Multiples : a \in Group /\ b \in Group /\ g \in Group /\ g = value - a + b + m1
  BY <1>5, <1>6, <1>7, GapBy
<1>9. w \in Group
  BY <1>4, <1>7, <1>8, SignedBy
<1>10. PICK m2 \in Multiples : Sign(t1, w) = g + m2
  BY <1>4, <1>7, <1>8, <1>9, SignTwice
<1>11. PICK x : x = Both(o0, o1, Part(t0, a, w), Part(t1, b, w))
  OBVIOUS
<1>18. a \in Group /\ b \in Group /\ t0 # t1
  BY <1>3, <1>4, <1>8
<1>12. PICK m3 \in Multiples : x \in Group /\ x = v + (a - b) + Sign(t1, w) + m3
  BY <1>1, <1>9, <1>11, <1>18, OtherBits
<1>13. PICK y : y = Plus(v, value)
  OBVIOUS
<1>14. PICK m4 \in Multiples : y \in Group /\ y = v + value + m4
  BY <1>2, <1>13, Operations
<1>15. /\ m1 \in Int /\ m2 \in Int /\ m3 \in Int /\ m4 \in Int
       /\ a \in Int /\ b \in Int /\ g \in Int
       /\ ((m1 + m2) + m3) - m4 \in Multiples
  BY <1>8, GroupInt, MultiplesClosed
<1>16. x = y + (((m1 + m2) + m3) - m4)
  BY <1>2, <1>8, <1>10, <1>12, <1>14, <1>15
<1>17. x = y
  BY <1>12, <1>14, <1>15, <1>16, Differ
<1> QED BY <1>1, <1>3, <1>4, <1>5, <1>6, <1>11, <1>13, <1>17

LEMMA PlusFacts ==
  /\ \A v \in Group : Plus(0, v) = v /\ Plus(v, Negated(v)) = 0 /\ Negated(v) \in Group
  /\ Plus(0, 0) = 0
<1>1. ASSUME NEW v \in Group
      PROVE  Plus(0, v) = v /\ Plus(v, Negated(v)) = 0 /\ Negated(v) \in Group
  <2>1. v \in Int /\ v % Modulus = v /\ 0 \in Int /\ 0 + v = v
    BY GroupInt
  <2>2. Plus(0, v) = v
    BY <2>1 DEF Plus
  <2>3. PICK n : n = Negated(v)
    OBVIOUS
  <2>4. PICK m1 \in Multiples : n \in Group /\ n = -v + m1
    BY <2>1, <2>3, Operations
  <2>5. n \in Int /\ m1 \in Int
    BY <2>4, GroupInt, MultiplesClosed
  <2>6. PICK m2 \in Multiples : Plus(v, n) \in Group /\ Plus(v, n) = v + n + m2
    BY <2>1, <2>5, Operations
  <2>7. m2 \in Int /\ m1 + m2 \in Multiples
    BY MultiplesClosed
  <2>8. Plus(v, n) = 0 + (m1 + m2)
    BY <2>1, <2>4, <2>5, <2>6, <2>7
  <2>9. Plus(v, n) = 0
    BY <2>6, <2>7, <2>8, ZeroGroup, Differ
  <2> QED BY <2>2, <2>3, <2>4, <2>9
<1>2. 0 \in Group
  BY ZeroGroup
<1> QED BY <1>1, <1>2

-----------------------------------------------------------------------------
(* The fork: what the correction of a level does to two nodes that differ  *)
(* in their control bit.                                                   *)
LEMMA NodeTypes ==
  ASSUME prg \in Prgs, NEW node \in Node, NEW side \in BOOLEAN,
         NEW cw, cw.seed \in Seed, cw.bits \in [BOOLEAN -> BOOLEAN]
  PROVE  /\ Down(node, side, cw) \in Node
         /\ Renewed(node) \in Node
         /\ Renewed(node).t = node.t
<1>1. node.seed \in Seed /\ node.t \in BOOLEAN
  BY DEF Node
<1>2. Child(node.seed, side) \in Seed /\ prg.next[node.seed] \in Seed
  BY <1>1, PrgTypes
<1>3. XorSeed(Child(node.seed, side), cw.seed) \in Seed
  BY <1>2 DEF XorSeed, Seed
<1>4. Down(node, side, cw) \in Node
  BY <1>2, <1>3 DEF Down, Node, Xor, Tau
<1>5. [node EXCEPT !.seed = prg.next[@]] = [node EXCEPT !.seed = prg.next[node.seed]]
  OBVIOUS
<1>6. Renewed(node) \in Node /\ Renewed(node).t = node.t
  BY <1>1, <1>2, <1>5 DEF Renewed, Node
<1> QED BY <1>4, <1>6

LEMMA XorThree ==
  ASSUME NEW a, NEW b
  PROVE  XorSeed(a, XorSeed(a, b)) = b /\ XorSeed(b, XorSeed(a, b)) = a
<1>1. ASSUME NEW x PROVE x \in XorSeed(a, XorSeed(a, b)) <=> x \in b
  BY DEF XorSeed
<1>2. ASSUME NEW x PROVE x \in XorSeed(b, XorSeed(a, b)) <=> x \in a
  BY DEF XorSeed
<1>3. XorSeed(a, XorSeed(a, b)) = b
  BY <1>1
<1>4. XorSeed(b, XorSeed(a, b)) = a
  BY <1>2
<1> QED BY <1>3, <1>4

LEMMA Fork ==
  ASSUME prg \in Prgs, NEW node \in [Party -> Node], node[0].t # node[1].t,
         NEW keep \in BOOLEAN, NEW cw,
         cw.seed = Correction(node, keep).seed, cw.bits = Correction(node, keep).bits
  PROVE  /\ cw.seed \in Seed /\ cw.bits \in [BOOLEAN -> BOOLEAN]
         /\ Down(node[0], keep, cw).t # Down(node[1], keep, cw).t
         /\ Down(node[0], ~keep, cw) = Down(node[1], ~keep, cw)
<1>1. /\ node[0].seed \in Seed /\ node[1].seed \in Seed
      /\ node[0].t \in BOOLEAN /\ node[1].t \in BOOLEAN
  BY DEF Party, Node
<1>2. PICK a : a = Child(node[0].seed, ~keep)
  OBVIOUS
<1>3. PICK b : b = Child(node[1].seed, ~keep)
  OBVIOUS
<1>4. a \in Seed /\ b \in Seed
  BY <1>1, <1>2, <1>3, PrgTypes
<1>5. cw.seed = XorSeed(a, b)
  BY <1>2, <1>3 DEF Correction
<1>6. cw.bits = [side \in BOOLEAN |-> side = keep]
  <2>1. \A side \in BOOLEAN : Xor(Xor(TRUE, TRUE), side = keep) = (side = keep)
    BY DEF Xor
  <2> QED BY <2>1 DEF Correction, Tau
<1>7. cw.seed \in Seed
  BY <1>4, <1>5 DEF XorSeed, Seed
<1>8. cw.bits \in [BOOLEAN -> BOOLEAN]
  BY <1>6
<1>9. cw.bits[keep] = TRUE /\ cw.bits[~keep] = FALSE
  BY <1>6
<1>10. Down(node[0], keep, cw).t # Down(node[1], keep, cw).t
  BY <1>1, <1>9 DEF Down, Tau, Xor
<1>11. Down(node[0], ~keep, cw).t = TRUE /\ Down(node[1], ~keep, cw).t = TRUE
  BY <1>1, <1>9 DEF Down, Tau, Xor
<1>12. XorSeed(a, cw.seed) = b /\ XorSeed(b, cw.seed) = a
  BY <1>5, XorThree
<1>13. Down(node[0], ~keep, cw).seed = Down(node[1], ~keep, cw).seed
  <2>1. Down(node[0], ~keep, cw).seed = IF node[0].t THEN XorSeed(a, cw.seed) ELSE a
    BY <1>2 DEF Down
  <2>2. Down(node[1], ~keep, cw).seed = IF node[1].t THEN XorSeed(b, cw.seed) ELSE b
    BY <1>3 DEF Down
  <2> QED BY <1>1, <1>12, <2>1, <2>2
<1>14. Down(node[0], ~keep, cw) = Down(node[1], ~keep, cw)
  <2>1. \A n : Down(n, ~keep, cw) = [seed |-> Down(n, ~keep, cw).seed, t |-> Down(n, ~keep, cw).t]
    BY DEF Down
  <2> QED BY <1>11, <1>13, <2>1
<1> QED BY <1>7, <1>8, <1>10, <1>14
-----------------------------------------------------------------------------
(* The invariant.  What is dealt never changes; every level the dealer has *)
(* put behind it, and every level a party has, is what the code makes of   *)
(* the one before.                                                         *)
Key ==
  /\ kind \in Kinds /\ prg \in Prgs
  /\ alpha \in [1 .. Depth -> BOOLEAN] /\ values \in [1 .. Depth -> Values]
  /\ kind # "idpf" => \A i, j \in 1 .. Depth : values[i] = values[j]

(* Under the dealer's nodes, before the seeds are renewed.                 *)
Below(node, keep, cw) == [p \in Party |-> Down(node[p], keep, cw)]

WordFor(here, keep, value, cw) ==
  CASE kind = "dpf" -> 0
    [] kind = "dcf" -> CompareWord(here.node, here.v, keep, value)
    [] kind = "idpf" -> LET below == Below(here.node, keep, cw)
                        IN  Signed(below[1].t, Gap(below, value))

(* One level of the dealer: from here to next, with the correction cw.     *)
DealtBy(here, next, keep, value, cw) ==
  /\ cw.seed = Correction(here.node, keep).seed
  /\ cw.bits = Correction(here.node, keep).bits
  /\ cw.word = WordFor(here, keep, value, cw)
  /\ next.node = [p \in Party |-> Renewed(Below(here.node, keep, cw)[p])]
  /\ next.v = IF kind = "dcf" THEN CompareSum(here.node, here.v, keep, cw.word) ELSE 0

Dealt(i) == DealtBy(path[i], path[i + 1], alpha[i], values[i], words[i])

(* The word at the leaf.                                                   *)
LastBy(here, next, keep, value, cw, w) ==
  LET below == Below(here.node, keep, cw)
  IN  w = Signed(below[1].t, Gap(below, IF kind = "dcf" THEN Negated(next.v) ELSE value))

AtLast == LastBy(path[Depth], path[Depth + 1], alpha[Depth], values[Depth], words[Depth], last)

DealInv ==
  /\ Len(path) = Len(words) + 1
  /\ Len(words) <= Depth
  /\ dealing = "on" => Len(words) < Depth
  /\ dealing = "done" => Len(words) = Depth /\ (kind # "idpf" => AtLast)
  /\ path[1].v = 0
  /\ \A i \in 1 .. Len(path) : path[i].node[0].t # path[i].node[1].t
  /\ \A i \in 1 .. Len(words) : Dealt(i)

(* What a party adds at a level, and at the leaf below it.                 *)
Here(here, side, cw) == Part(here.node.t, Veed(here.node.seed, side), cw.word)

Leaf(here, side, cw, w) ==
  LET under == Down(here.node, side, cw)
  IN  Part(under.t, Word(under.seed), IF kind = "idpf" THEN cw.word ELSE w)

Inner(p, here, side, cw) ==
  IF kind = "dcf" THEN Plus(here.out, Signed(p = 1, Here(here, side, cw))) ELSE 0

(* One level of a party.                                                   *)
WentBy(p, here, next, side, cw, w, atLeaf) ==
  /\ next.node = Renewed(Down(here.node, side, cw))
  /\ next.out = IF kind = "idpf" \/ atLeaf
                THEN Plus(Inner(p, here, side, cw), Signed(p = 1, Leaf(here, side, cw, w)))
                ELSE Inner(p, here, side, cw)

Went(p, i) == WentBy(p, run[p][i], run[p][i + 1], idx[i], words[i], last, AtLeaf(i))

RunInv ==
  /\ idx # <<>> => dealing = "done" /\ Len(idx) <= Depth
  /\ \A p \in Party : /\ 1 <= Len(run[p]) /\ Len(run[p]) <= Len(idx) + 1
                      /\ run[p][1] = [node |-> path[1].node[p], out |-> 0]
                      /\ \A i \in 1 .. Len(run[p]) - 1 : Went(p, i)

KeyInv == Key /\ TypeOK /\ DealInv /\ RunInv

(* The operators of a level depend on the key alone.                       *)
LEMMA DealtNext ==
  ASSUME UNCHANGED key, NEW i, NEW here, NEW next, NEW cw,
         path'[i] = here, path'[i + 1] = next, words'[i] = cw,
         DealtBy(here, next, alpha[i], values[i], cw)
  PROVE  Dealt(i)'
<1>1. kind' = kind /\ prg' = prg /\ alpha' = alpha /\ values' = values
  BY DEF key
<1> QED
  BY <1>1
  DEF Dealt, DealtBy, WordFor, Below, Down, Renewed, Correction, Gap, LostGap, CompareWord,
      CompareSum, Child, Word, Veed, Tau

LEMMA AtLastNext ==
  ASSUME UNCHANGED key, NEW here, NEW next, NEW cw,
         path'[Depth] = here, path'[Depth + 1] = next, words'[Depth] = cw,
         LastBy(here, next, alpha[Depth], values[Depth], cw, last')
  PROVE  AtLast'
<1>1. kind' = kind /\ prg' = prg /\ alpha' = alpha /\ values' = values
  BY DEF key
<1> QED
  BY <1>1 DEF AtLast, LastBy, Below, Down, Gap, Child, Word, Tau

LEMMA WentNext ==
  ASSUME UNCHANGED key, NEW p, NEW i, NEW here, NEW next, NEW side, NEW cw, NEW atLeaf,
         run'[p][i] = here, run'[p][i + 1] = next, idx'[i] = side, words'[i] = cw,
         AtLeaf(i)' = atLeaf, WentBy(p, here, next, side, cw, last', atLeaf)
  PROVE  Went(p, i)'
<1>1. kind' = kind /\ prg' = prg /\ alpha' = alpha /\ values' = values
  BY DEF key
<1> QED
  BY <1>1
  DEF Went, WentBy, Inner, Leaf, Here, AtLeaf, Down, Renewed, Child, Word, Veed, Tau

(* What a level of the dealer yields, whatever its panics.                 *)
LEMMA DealtTypes ==
  ASSUME Key, NEW here \in [node : [Party -> Node], v : Group],
         here.node[0].t # here.node[1].t,
         NEW next, NEW keep \in BOOLEAN, NEW value \in Group, NEW cw,
         DealtBy(here, next, keep, value, cw)
  PROVE  /\ cw.seed \in Seed /\ cw.bits \in [BOOLEAN -> BOOLEAN] /\ cw.word \in Group
         /\ Below(here.node, keep, cw) \in [Party -> Node]
         /\ Below(here.node, keep, cw)[0].t # Below(here.node, keep, cw)[1].t
         /\ next.node \in [Party -> Node] /\ next.v \in Group
         /\ next.node[0].t # next.node[1].t
<1>1. prg \in Prgs /\ kind \in {"dpf", "dcf", "idpf"}
  BY KeyTreeAssumption DEF Key
<1>2. PICK node \in [Party -> Node] : node = here.node
  OBVIOUS
<1>3. here.v \in Group /\ node[0].t # node[1].t
  BY <1>2
<1>4. cw.seed = Correction(node, keep).seed /\ cw.bits = Correction(node, keep).bits
  BY <1>2 DEF DealtBy
<1>5. /\ cw.seed \in Seed /\ cw.bits \in [BOOLEAN -> BOOLEAN]
      /\ Down(node[0], keep, cw).t # Down(node[1], keep, cw).t
  BY <1>1, <1>3, <1>4, Fork
<1>6. PICK below : below = Below(node, keep, cw)
  OBVIOUS
<1>7. \A p \in Party : node[p] \in Node /\ Down(node[p], keep, cw) \in Node
  BY <1>1, <1>5, NodeTypes
<1>8. below \in [Party -> Node] /\ \A p \in Party : below[p] = Down(node[p], keep, cw)
  BY <1>6, <1>7 DEF Below
<1>9. below[0].t # below[1].t /\ below[1].t \in BOOLEAN
  BY <1>5, <1>8 DEF Party, Node
<1>10. \A p \in Party : Renewed(below[p]) \in Node /\ Renewed(below[p]).t = below[p].t
  BY <1>1, <1>5, <1>8, NodeTypes
<1>11. next.node = [p \in Party |-> Renewed(below[p])]
  BY <1>2, <1>6 DEF DealtBy
<1>12. next.node \in [Party -> Node] /\ next.node[0].t # next.node[1].t
  <2>1. next.node \in [Party -> Node]
    BY <1>10, <1>11
  <2>2. next.node[0] = Renewed(below[0]) /\ next.node[1] = Renewed(below[1])
    BY <1>11 DEF Party
  <2>3. Renewed(below[0]).t = below[0].t /\ Renewed(below[1]).t = below[1].t
    BY <1>10 DEF Party
  <2> QED BY <1>9, <2>1, <2>2, <2>3
<1>13. cw.word \in Group
  <2>1. cw.word = WordFor(here, keep, value, cw)
    BY DEF DealtBy
  <2>2. CASE kind = "dpf"
    BY <2>1, <2>2, ZeroGroup DEF WordFor
  <2>3. CASE kind = "dcf"
    <3>1. cw.word = CompareWord(node, here.v, keep, value)
      BY <1>2, <2>1, <2>3 DEF WordFor
    <3> QED BY <1>1, <1>3, <3>1, CompareWordBy
  <2>4. CASE kind = "idpf"
    <3>1. cw.word = Signed(below[1].t, Gap(below, value))
      BY <1>2, <1>6, <2>1, <2>4 DEF WordFor
    <3>2. Gap(below, value) \in Group
      BY <1>1, <1>8, GapBy
    <3> QED BY <1>9, <3>1, <3>2, SignedBy
  <2> QED BY <1>1, <2>2, <2>3, <2>4
<1>14. next.v \in Group
  <2>1. next.v = IF kind = "dcf" THEN CompareSum(node, here.v, keep, cw.word) ELSE 0
    BY <1>2 DEF DealtBy
  <2>2. CompareSum(node, here.v, keep, cw.word) \in Group
    BY <1>1, <1>3, <1>13, CompareSumBy
  <2> QED BY <2>1, <2>2, ZeroGroup
<1> QED BY <1>2, <1>5, <1>6, <1>8, <1>9, <1>12, <1>13, <1>14

LEMMA DealtLevel ==
  ASSUME Key, TypeOK, DealInv, DealLevel
  PROVE  LET level == Len(words) + 1
         IN  /\ dealing = "on" /\ UNCHANGED <<key, idx, run, panicked>>
             /\ \/ dealing' = "panicked" /\ UNCHANGED <<path, words, last>>
                \/ \E next, cw :
                     /\ path' = Append(path, next) /\ words' = Append(words, cw)
                     /\ next = [node |-> next.node, v |-> next.v]
                     /\ cw = [seed |-> cw.seed, bits |-> cw.bits, word |-> cw.word]
                     /\ DealtBy(path[level], next, alpha[level], values[level], cw)
                     /\ IF level = Depth /\ kind # "idpf"
                        THEN LastBy(path[level], next, alpha[level], values[level], cw, last')
                        ELSE last' = last
                     /\ dealing' = IF level = Depth THEN "done" ELSE dealing
<1> DEFINE level == Len(words) + 1
<1>1. dealing = "on" /\ UNCHANGED <<key, idx, run, panicked>>
  BY DEF DealLevel
<1>2. PICK keep : keep = alpha[level]
  OBVIOUS
<1>3. PICK node : node = path[level].node
  OBVIOUS
<1>4. PICK v : v = path[level].v
  OBVIOUS
<1>5. PICK value : value = values[level]
  OBVIOUS
<1>6. PICK cor : cor = Correction(node, keep)
  OBVIOUS
<1>7. PICK below : below = [p \in Party |-> Down(node[p], keep, cor)]
  OBVIOUS
<1>8. PICK word : word = CASE kind = "dpf" -> 0
                           [] kind = "dcf" -> CompareWord(node, v, keep, value)
                           [] kind = "idpf" -> Signed(below[1].t, Gap(below, value))
  OBVIOUS
<1>9. PICK sum : sum = IF kind = "dcf" THEN CompareSum(node, v, keep, word) ELSE 0
  OBVIOUS
<1>10. PICK leaf : leaf = Gap(below, IF kind = "dcf" THEN Negated(sum) ELSE value)
  OBVIOUS
<1>11. PICK cw : cw = [seed |-> cor.seed, bits |-> cor.bits, word |-> word]
  OBVIOUS
<1>12. PICK next : next = [node |-> [p \in Party |-> Renewed(below[p])], v |-> sum]
  OBVIOUS
<1>13. \/ dealing' = "panicked" /\ UNCHANGED <<path, words, last>>
       \/ /\ words' = Append(words, cw)
          /\ path' = Append(path, next)
          /\ last' = IF level = Depth /\ kind # "idpf" THEN Signed(below[1].t, leaf) ELSE last
          /\ dealing' = IF level = Depth THEN "done" ELSE dealing
  BY <1>2, <1>3, <1>4, <1>5, <1>6, <1>7, <1>8, <1>9, <1>10, <1>11, <1>12 DEF DealLevel
<1>14. below = Below(node, keep, cw)
  <2>1. \A n : Down(n, keep, cor) = Down(n, keep, cw)
    BY <1>11 DEF Down
  <2> QED BY <1>7, <2>1 DEF Below
<1>15. DealtBy(path[level], next, alpha[level], values[level], cw)
  BY <1>2, <1>3, <1>4, <1>5, <1>6, <1>8, <1>9, <1>11, <1>12, <1>14 DEF DealtBy, WordFor
<1>16. LastBy(path[level], next, alpha[level], values[level], cw, Signed(below[1].t, leaf))
  BY <1>2, <1>3, <1>5, <1>10, <1>12, <1>14 DEF LastBy
<1>17. /\ next = [node |-> next.node, v |-> next.v]
       /\ cw = [seed |-> cw.seed, bits |-> cw.bits, word |-> cw.word]
  BY <1>11, <1>12
<1> HIDE DEF level
<1>18. CASE dealing' = "panicked" /\ UNCHANGED <<path, words, last>>
  BY <1>1, <1>18
<1>19. CASE /\ words' = Append(words, cw)
            /\ path' = Append(path, next)
            /\ last' = IF level = Depth /\ kind # "idpf" THEN Signed(below[1].t, leaf) ELSE last
            /\ dealing' = IF level = Depth THEN "done" ELSE dealing
  <2>1. IF level = Depth /\ kind # "idpf"
        THEN LastBy(path[level], next, alpha[level], values[level], cw, last')
        ELSE last' = last
    <3>1. CASE level = Depth /\ kind # "idpf"
      <4>1. last' = Signed(below[1].t, leaf)
        BY <1>19, <3>1
      <4> QED BY <1>16, <3>1, <4>1
    <3>2. CASE ~(level = Depth /\ kind # "idpf")
      BY <1>19, <3>2
    <3> QED BY <3>1, <3>2
  <2> QED BY <1>1, <1>15, <1>17, <1>19, <2>1 DEF level
<1> QED BY <1>13, <1>18, <1>19

LEMMA Elements ==
  ASSUME NEW S, NEW s \in Seq(S)
  PROVE  Len(s) \in Nat /\ \A k \in 1 .. Len(s) : s[k] \in S
OBVIOUS

LEMMA EmptyTypes ==
  /\ <<>> \in Seq(BOOLEAN)
  /\ <<>> \in Seq([seed : Seed, bits : [BOOLEAN -> BOOLEAN], word : Group])
  /\ Len(<<>>) = 0
OBVIOUS

(* Of one element no level has been left.                                  *)
LEMMA One ==
  ASSUME NEW s, Len(s) = 1
  PROVE  /\ \A i \in 1 .. Len(s) - 1 : FALSE
         /\ \A n \in {0} : 1 <= Len(s) /\ Len(s) <= n + 1
<1>1. Len(s) - 1 = 0 /\ 0 + 1 = 1
  OBVIOUS
<1> QED BY <1>1

LEMMA InitKeyInv == Init => KeyInv
<1> SUFFICES ASSUME Init PROVE KeyInv
  OBVIOUS
<1>1. Key
  BY DEF Init, Key
<1>2. PICK seed \in [Party -> Seed] :
        /\ path = <<[node |-> [p \in Party |-> Root(p, seed[p])], v |-> 0]>>
        /\ run = [p \in Party |-> <<[node |-> Root(p, seed[p]), out |-> 0]>>]
  BY DEF Init
<1>3. words = <<>> /\ last = 0 /\ dealing = "on" /\ idx = <<>> /\ panicked = {}
  BY DEF Init
<1>4. \A p \in Party : Root(p, seed[p]) \in Node /\ Root(p, seed[p]).t = (p = 1)
  BY DEF Root, Node
<1>5. [p \in Party |-> Root(p, seed[p])] \in [Party -> Node]
  BY <1>4
<1>6. TypeOK
  <2>1. path \in Seq([node : [Party -> Node], v : Group])
    BY <1>2, <1>5, ZeroGroup
  <2>2. run \in [Party -> Seq([node : Node, out : Group])]
    BY <1>2, <1>4, ZeroGroup
  <2> QED BY <1>3, <2>1, <2>2, ZeroGroup, EmptyTypes DEF TypeOK
<1>7. DealInv
  <2>1. Len(path) = 1 /\ Len(words) = 0 /\ path[1].v = 0
    BY <1>2, <1>3
  <2>2. path[1].node[0].t # path[1].node[1].t
    BY <1>2, <1>4 DEF Party
  <2> QED BY <1>3, <2>1, <2>2, KeyTreeAssumption DEF DealInv
<1>8. RunInv
  <2>1. \A p \in Party : Len(run[p]) = 1 /\ run[p][1] = [node |-> path[1].node[p], out |-> 0]
    BY <1>2
  <2>2. Len(idx) = 0
    BY <1>3, EmptyTypes
  <2>3. \A p \in Party : \A i \in 1 .. Len(run[p]) - 1 : FALSE
    BY <2>1, One
  <2>4. \A p \in Party : 1 <= Len(run[p]) /\ Len(run[p]) <= Len(idx) + 1
    BY <2>1, <2>2, One
  <2> QED BY <1>3, <2>1, <2>3, <2>4 DEF RunInv
<1> QED BY <1>1, <1>6, <1>7, <1>8 DEF KeyInv

(* The dealer's next level.  Nobody has asked yet, so no party has moved.  *)
LEMMA StepDeal ==
  ASSUME KeyInv, DealLevel
  PROVE  KeyInv'
<1> DEFINE level == Len(words) + 1
<1>1. Key /\ TypeOK /\ DealInv /\ RunInv
  BY DEF KeyInv
<1>2. dealing = "on" /\ UNCHANGED <<key, idx, run, panicked>>
  BY <1>1, DealtLevel
<1>3. Key'
  BY <1>1, <1>2 DEF Key, key
<1>4. idx = <<>> /\ idx' = <<>>
  BY <1>1, <1>2 DEF RunInv
<1>5. Len(words) < Depth /\ Len(words) \in Nat /\ Len(path) = level /\ level \in 1 .. Depth
  BY <1>1, <1>2, KeyTreeAssumption DEF DealInv, TypeOK
<1>6. alpha[level] \in BOOLEAN /\ values[level] \in Group
  BY <1>1, <1>5, KeyTreeAssumption DEF Key
<1>7. path[level] \in [node : [Party -> Node], v : Group]
  <2>1. path \in Seq([node : [Party -> Node], v : Group])
    BY <1>1 DEF TypeOK
  <2>2. level \in 1 .. Len(path)
    BY <1>5
  <2> QED BY <2>1, <2>2, Elements
<1>8. path[level].node[0].t # path[level].node[1].t
  BY <1>1, <1>5 DEF DealInv
<1>9. ASSUME path'[1] = path[1] PROVE RunInv'
  <2>1. \A p \in Party : Len(run[p]) \in Nat
    BY <1>1 DEF TypeOK
  <2>2. Len(idx) = 0 /\ Len(idx') = 0 /\ run' = run
    BY <1>2, <1>4, EmptyTypes
  <2>3. \A p \in Party : 1 <= Len(run[p]) /\ Len(run[p]) <= Len(idx) + 1
    BY <1>1 DEF RunInv
  <2>4. \A p \in Party : Len(run'[p]) = 1
    <3> SUFFICES ASSUME NEW p \in Party PROVE Len(run'[p]) = 1
      OBVIOUS
    <3>1. PICK n : n = Len(run[p])
      OBVIOUS
    <3>2. n \in Nat /\ 1 <= n /\ n <= 0 + 1
      BY <2>1, <2>2, <2>3, <3>1
    <3>3. n = 1
      BY <3>2
    <3> QED BY <2>2, <3>1, <3>3
  <2>5. \A p \in Party : run'[p][1] = [node |-> path'[1].node[p], out |-> 0]
    BY <1>1, <1>9, <2>2 DEF RunInv
  <2>6. \A p \in Party : \A i \in 1 .. Len(run'[p]) - 1 : FALSE
    BY <2>4, One
  <2>7. \A p \in Party : \A i \in 1 .. Len(run'[p]) - 1 : Went(p, i)'
    BY <2>6
  <2>8. \A p \in Party : 1 <= Len(run'[p]) /\ Len(run'[p]) <= Len(idx') + 1
    BY <2>2, <2>4, One
  <2> QED BY <1>4, <2>5, <2>7, <2>8 DEF RunInv
<1>10. CASE dealing' = "panicked" /\ UNCHANGED <<path, words, last>>
  <2>1. TypeOK'
    BY <1>1, <1>2, <1>10 DEF TypeOK
  <2>2. ASSUME NEW i \in 1 .. Len(words) PROVE Dealt(i)'
    <3>1. DealtBy(path[i], path[i + 1], alpha[i], values[i], words[i])
      BY <1>1 DEF DealInv, Dealt
    <3> QED BY <1>2, <1>10, <3>1, DealtNext
  <2>3. DealInv'
    BY <1>1, <1>10, <2>2 DEF DealInv
  <2> QED BY <1>3, <1>9, <1>10, <2>1, <2>3 DEF KeyInv
<1>11. CASE dealing' # "panicked" \/ ~(UNCHANGED <<path, words, last>>)
  <2>1. PICK next, cw :
          /\ path' = Append(path, next) /\ words' = Append(words, cw)
          /\ next = [node |-> next.node, v |-> next.v]
          /\ cw = [seed |-> cw.seed, bits |-> cw.bits, word |-> cw.word]
          /\ DealtBy(path[level], next, alpha[level], values[level], cw)
          /\ IF level = Depth /\ kind # "idpf"
             THEN LastBy(path[level], next, alpha[level], values[level], cw, last')
             ELSE last' = last
          /\ dealing' = IF level = Depth THEN "done" ELSE dealing
    BY <1>1, <1>11, DealtLevel
  <2> HIDE DEF level
  <2>2. /\ cw.seed \in Seed /\ cw.bits \in [BOOLEAN -> BOOLEAN] /\ cw.word \in Group
        /\ Below(path[level].node, alpha[level], cw) \in [Party -> Node]
        /\ Below(path[level].node, alpha[level], cw)[1].t \in BOOLEAN
        /\ next.node \in [Party -> Node] /\ next.v \in Group
        /\ next.node[0].t # next.node[1].t
    <3>1. /\ cw.seed \in Seed /\ cw.bits \in [BOOLEAN -> BOOLEAN] /\ cw.word \in Group
          /\ Below(path[level].node, alpha[level], cw) \in [Party -> Node]
          /\ next.node \in [Party -> Node] /\ next.v \in Group
          /\ next.node[0].t # next.node[1].t
      BY <1>1, <1>6, <1>7, <1>8, <2>1, DealtTypes
    <3> QED BY <3>1 DEF Party, Node
  <2>3. next \in [node : [Party -> Node], v : Group]
    BY <2>1, <2>2
  <2>4. cw \in [seed : Seed, bits : [BOOLEAN -> BOOLEAN], word : Group]
    BY <2>1, <2>2
  <2>5. last' \in Group
    <3>1. CASE level = Depth /\ kind # "idpf"
      <4>1. PICK below : below = Below(path[level].node, alpha[level], cw)
        OBVIOUS
      <4>2. PICK value : value = IF kind = "dcf" THEN Negated(next.v) ELSE values[level]
        OBVIOUS
      <4>3. value \in Group
        BY <1>6, <2>2, <4>2, PlusFacts
      <4>4. last' = Signed(below[1].t, Gap(below, value))
        BY <2>1, <3>1, <4>1, <4>2 DEF LastBy
      <4>5. prg \in Prgs
        BY <1>1 DEF Key
      <4> QED BY <2>2, <4>1, <4>3, <4>4, <4>5, GapBy, SignedBy
    <3>2. CASE ~(level = Depth /\ kind # "idpf")
      BY <1>1, <2>1, <3>2 DEF TypeOK
    <3> QED BY <3>1, <3>2
  <2>6. dealing' \in {"on", "done"}
    BY <1>2, <2>1
  <2>7. path' \in Seq([node : [Party -> Node], v : Group])
    BY <1>1, <2>1, <2>3 DEF TypeOK
  <2>8. words' \in Seq([seed : Seed, bits : [BOOLEAN -> BOOLEAN], word : Group])
    BY <1>1, <2>1, <2>4 DEF TypeOK
  <2>9. TypeOK'
    BY <1>1, <1>2, <2>5, <2>6, <2>7, <2>8 DEF TypeOK
  <2>10. /\ Len(words') = level /\ Len(path') = level + 1
         /\ \A i \in 1 .. level : path'[i] = path[i]
         /\ path'[level + 1] = next
         /\ words'[level] = cw
         /\ \A i \in 1 .. Len(words) : words'[i] = words[i]
    BY <1>1, <1>5, <2>1 DEF TypeOK, level
  <2>11. 1 \in 1 .. level /\ level \in Nat
    BY <1>5
  <2>12. ASSUME NEW i \in 1 .. level PROVE Dealt(i)'
    <3>1. CASE i = level
      BY <1>2, <2>1, <2>10, <3>1, DealtNext
    <3>2. CASE i # level
      <4>1. i \in 1 .. Len(words) /\ i \in 1 .. level /\ i + 1 \in 1 .. level
        BY <1>5, <3>2 DEF level
      <4>2. DealtBy(path[i], path[i + 1], alpha[i], values[i], words[i])
        BY <1>1, <4>1 DEF DealInv, Dealt
      <4> QED BY <1>2, <2>10, <4>1, <4>2, DealtNext
    <3> QED BY <3>1, <3>2
  <2>13. \A i \in 1 .. level + 1 : path'[i].node[0].t # path'[i].node[1].t
    <3>1. ASSUME NEW i \in 1 .. level + 1 PROVE path'[i].node[0].t # path'[i].node[1].t
      <4>1. CASE i = level + 1
        BY <2>2, <2>10, <4>1
      <4>2. CASE i # level + 1
        <5>1. i \in 1 .. level /\ i \in 1 .. Len(path)
          BY <1>5, <2>11, <4>2
        <5> QED BY <1>1, <2>10, <5>1 DEF DealInv
      <4> QED BY <4>1, <4>2
    <3> QED BY <3>1
  <2>14. dealing' = "on" => level < Depth
    BY <1>5, <2>1, KeyTreeAssumption
  <2>15. dealing' = "done" => level = Depth
    BY <1>2, <2>1
  <2>16. ASSUME dealing' = "done", kind' # "idpf" PROVE AtLast'
    <3>1. level = Depth /\ kind # "idpf"
      BY <1>2, <2>15, <2>16 DEF key
    <3>2. Depth \in 1 .. level
      BY <1>5, <3>1
    <3>3. path'[Depth] = path[level] /\ path'[Depth + 1] = next /\ words'[Depth] = cw
      BY <2>10, <3>1, <3>2
    <3>4. LastBy(path[level], next, alpha[Depth], values[Depth], cw, last')
      BY <2>1, <3>1
    <3> QED BY <1>2, <3>3, <3>4, AtLastNext
  <2>17. path'[1].v = 0
    BY <1>1, <2>10, <2>11 DEF DealInv
  <2>18. level <= Depth
    BY <1>5
  <2>19. DealInv'
    BY <2>10, <2>12, <2>13, <2>14, <2>15, <2>16, <2>17, <2>18 DEF DealInv
  <2>20. RunInv'
    BY <1>9, <2>10, <2>11
  <2> QED BY <1>3, <2>9, <2>19, <2>20 DEF KeyInv
<1> QED BY <1>10, <1>11

(* Once dealt, the key stays what it is.                                   *)
LEMMA DealKept ==
  ASSUME Key, DealInv, UNCHANGED <<key, deal>>
  PROVE  Key' /\ DealInv'
<1>1. UNCHANGED key /\ path' = path /\ words' = words /\ last' = last /\ dealing' = dealing
  BY DEF deal
<1>2. kind' = kind
  BY <1>1 DEF key
<1>3. Key'
  BY <1>1 DEF Key, key
<1>4. ASSUME NEW i \in 1 .. Len(words) PROVE Dealt(i)'
  <2>1. DealtBy(path[i], path[i + 1], alpha[i], values[i], words[i])
    BY DEF DealInv, Dealt
  <2> QED BY <1>1, <2>1, DealtNext
<1>5. ASSUME AtLast PROVE AtLast'
  <2>1. LastBy(path[Depth], path[Depth + 1], alpha[Depth], values[Depth], words[Depth], last')
    BY <1>1, <1>5 DEF AtLast
  <2> QED BY <1>1, <2>1, AtLastNext
<1>6. DealInv'
  BY <1>1, <1>2, <1>4, <1>5 DEF DealInv
<1> QED BY <1>3, <1>6

LEMMA StutterKey ==
  ASSUME KeyInv, UNCHANGED vars
  PROVE  KeyInv'
<1>1. UNCHANGED <<key, deal>> /\ UNCHANGED <<path, words, last, dealing, idx, run, panicked>>
  BY DEF vars, deal
<1>2. Key' /\ DealInv'
  BY <1>1, DealKept DEF KeyInv
<1>3. TypeOK'
  BY <1>1 DEF KeyInv, TypeOK
<1>4. ASSUME NEW p \in Party, NEW i \in 1 .. Len(run[p]) - 1 PROVE Went(p, i)'
  <2>1. WentBy(p, run[p][i], run[p][i + 1], idx[i], words[i], last', AtLeaf(i))
    BY <1>1 DEF KeyInv, RunInv, Went
  <2>2. AtLeaf(i)' = AtLeaf(i)
    BY <1>1 DEF AtLeaf
  <2> QED BY <1>1, <2>1, <2>2, WentNext
<1>5. RunInv'
  BY <1>1, <1>4 DEF KeyInv, RunInv
<1> QED BY <1>2, <1>3, <1>5 DEF KeyInv

LEMMA StepAsk ==
  ASSUME KeyInv, Ask
  PROVE  KeyInv'
<1>1. /\ UNCHANGED <<key, deal>> /\ UNCHANGED <<path, words, last, dealing, run, panicked>>
      /\ dealing = "done" /\ idx = <<>>
  BY DEF Ask, deal
<1>2. PICK n \in 1 .. Depth : idx' \in [1 .. n -> BOOLEAN]
  BY DEF Ask
<1>3. n \in Nat /\ n <= Depth
  BY <1>2, KeyTreeAssumption
<1>4. idx' \in Seq(BOOLEAN) /\ Len(idx') = n
  BY <1>2, <1>3
<1>5. Key' /\ DealInv'
  BY <1>1, DealKept DEF KeyInv
<1>6. TypeOK'
  BY <1>1, <1>4 DEF KeyInv, TypeOK
<1>7. ASSUME NEW p \in Party PROVE Len(run'[p]) = 1
  <2>1. PICK k : k = Len(run[p])
    OBVIOUS
  <2>4. run[p] \in Seq([node : Node, out : Group])
    BY DEF KeyInv, TypeOK
  <2>5. Len(idx) = 0 /\ 1 <= Len(run[p]) /\ Len(run[p]) <= Len(idx) + 1
    BY <1>1, EmptyTypes DEF KeyInv, RunInv
  <2>2. k \in Nat /\ 1 <= k /\ k <= 0 + 1
    BY <2>1, <2>4, <2>5, Elements
  <2>3. k = 1
    BY <2>2
  <2> QED BY <1>1, <2>1, <2>3
<1>8. \A p \in Party : \A i \in 1 .. Len(run'[p]) - 1 : Went(p, i)'
  BY <1>7, One
<1>9. 1 <= 1 /\ 1 <= n + 1
  BY <1>3
<1>10. \A p \in Party : 1 <= Len(run'[p]) /\ Len(run'[p]) <= Len(idx') + 1
  BY <1>4, <1>7, <1>9
<1>11. RunInv'
  BY <1>1, <1>3, <1>4, <1>8, <1>10 DEF KeyInv, RunInv
<1> QED BY <1>5, <1>6, <1>11 DEF KeyInv

LEMMA WentTypes ==
  ASSUME Key, NEW p \in Party, NEW here \in [node : Node, out : Group],
         NEW next, NEW side \in BOOLEAN, NEW atLeaf \in BOOLEAN, NEW w \in Group,
         NEW cw \in [seed : Seed, bits : [BOOLEAN -> BOOLEAN], word : Group],
         WentBy(p, here, next, side, cw, w, atLeaf)
  PROVE  /\ next.node \in Node /\ next.out \in Group
         /\ Down(here.node, side, cw) \in Node
         /\ Here(here, side, cw) \in Group /\ Leaf(here, side, cw, w) \in Group
         /\ Inner(p, here, side, cw) \in Group
<1>1. /\ prg \in Prgs /\ here.node \in Node /\ here.out \in Group
      /\ cw.seed \in Seed /\ cw.bits \in [BOOLEAN -> BOOLEAN] /\ cw.word \in Group
  BY DEF Key
<1>2. PICK under : under = Down(here.node, side, cw)
  OBVIOUS
<1>3. under \in Node /\ Renewed(under) \in Node
  BY <1>1, <1>2, NodeTypes
<1>4. /\ here.node.seed \in Seed /\ here.node.t \in BOOLEAN
      /\ under.seed \in Seed /\ under.t \in BOOLEAN
  BY <1>1, <1>3 DEF Node
<1>5. Veed(here.node.seed, side) \in Group /\ Word(under.seed) \in Group
  BY <1>1, <1>4, PrgTypes
<1>6. Here(here, side, cw) \in Group
  BY <1>1, <1>4, <1>5, PartBy DEF Here
<1>7. PICK wd : wd = IF kind = "idpf" THEN cw.word ELSE w
  OBVIOUS
<1>8. wd \in Group
  BY <1>1, <1>7
<1>9. Leaf(here, side, cw, w) = Part(under.t, Word(under.seed), wd)
  BY <1>2, <1>7 DEF Leaf
<1>10. Leaf(here, side, cw, w) \in Group
  BY <1>4, <1>5, <1>8, <1>9, PartBy
<1>11. \A x, y \in Group : \A n \in BOOLEAN : Plus(x, Signed(n, y)) \in Group
  <2>1. ASSUME NEW x \in Group, NEW y \in Group, NEW n \in BOOLEAN
        PROVE  Plus(x, Signed(n, y)) \in Group
    <3>1. PICK z : z = Signed(n, y)
      OBVIOUS
    <3>2. z \in Group /\ z \in Int /\ x \in Int
      BY <3>1, SignedBy, GroupInt
    <3> QED BY <3>1, <3>2, Operations
  <2> QED BY <2>1
<1>12. Inner(p, here, side, cw) \in Group
  BY <1>1, <1>6, <1>11, ZeroGroup DEF Inner
<1>13. next.out \in Group
  <2>1. Plus(Inner(p, here, side, cw), Signed(p = 1, Leaf(here, side, cw, w))) \in Group
    BY <1>10, <1>11, <1>12
  <2>2. \/ next.out = Plus(Inner(p, here, side, cw), Signed(p = 1, Leaf(here, side, cw, w)))
        \/ next.out = Inner(p, here, side, cw)
    BY DEF WentBy
  <2> QED BY <1>12, <2>1, <2>2
<1>14. next.node \in Node
  BY <1>2, <1>3 DEF WentBy
<1> QED BY <1>2, <1>3, <1>6, <1>10, <1>12, <1>13, <1>14

LEMMA WentLevel ==
  ASSUME NEW p \in Party, EvalLevel(p)
  PROVE  LET level == Len(run[p])
         IN  /\ UNCHANGED <<key, deal, idx>> /\ level <= Len(idx)
             /\ \/ UNCHANGED run /\ panicked' = panicked \cup {p}
                \/ /\ UNCHANGED panicked
                   /\ \E next :
                        /\ run' = [run EXCEPT ![p] = Append(@, next)]
                        /\ next = [node |-> next.node, out |-> next.out]
                        /\ WentBy(p, run[p][level], next, idx[level], words[level], last,
                                  AtLeaf(level))
<1> DEFINE level == Len(run[p])
<1>1. UNCHANGED <<key, deal, idx>> /\ level <= Len(idx)
  BY DEF EvalLevel
<1>2. PICK cw : cw = words[level]
  OBVIOUS
<1>3. PICK side : side = idx[level]
  OBVIOUS
<1>4. PICK here : here = run[p][level]
  OBVIOUS
<1>5. PICK under : under = Down(here.node, side, cw)
  OBVIOUS
<1>6. PICK part : part = Part(here.node.t, Veed(here.node.seed, side), cw.word)
  OBVIOUS
<1>7. PICK leaf : leaf = Part(under.t, Word(under.seed), IF kind = "idpf" THEN cw.word ELSE last)
  OBVIOUS
<1>8. PICK sum : sum = IF kind = "dcf" THEN Plus(here.out, Signed(p = 1, part)) ELSE 0
  OBVIOUS
<1>9. PICK next : next = [node |-> Renewed(under),
                          out  |-> IF kind = "idpf" \/ AtLeaf(level)
                                   THEN Plus(sum, Signed(p = 1, leaf)) ELSE sum]
  OBVIOUS
<1>10. \/ UNCHANGED run /\ panicked' = panicked \cup {p}
       \/ UNCHANGED panicked /\ run' = [run EXCEPT ![p] = Append(@, next)]
  BY <1>2, <1>3, <1>4, <1>5, <1>6, <1>7, <1>8, <1>9 DEF EvalLevel
<1>11. WentBy(p, run[p][level], next, idx[level], words[level], last, AtLeaf(level))
  <2>1. Inner(p, here, side, cw) = sum
    BY <1>6, <1>8 DEF Inner, Here
  <2>2. Leaf(here, side, cw, last) = leaf
    BY <1>5, <1>7 DEF Leaf
  <2>3. WentBy(p, here, next, side, cw, last, AtLeaf(level))
    BY <1>5, <1>9, <2>1, <2>2 DEF WentBy
  <2> QED BY <1>2, <1>3, <1>4, <2>3
<1>12. next = [node |-> next.node, out |-> next.out]
  BY <1>9
<1> QED BY <1>1, <1>10, <1>11, <1>12

LEMMA StepEval ==
  ASSUME KeyInv, NEW p \in Party, EvalLevel(p)
  PROVE  KeyInv'
<1> DEFINE level == Len(run[p])
<1>1. Key /\ TypeOK /\ DealInv /\ RunInv
  BY DEF KeyInv
<1>2. /\ UNCHANGED <<key, deal, idx>> /\ UNCHANGED key /\ level <= Len(idx)
      /\ UNCHANGED <<path, words, last, dealing>> /\ idx' = idx
  BY WentLevel DEF deal
<1>3. Key' /\ DealInv'
  BY <1>1, <1>2, DealKept
<1>4. \A i : AtLeaf(i)' = AtLeaf(i)
  BY <1>2 DEF AtLeaf
<1>5. run \in [Party -> Seq([node : Node, out : Group])]
  BY <1>1 DEF TypeOK
<1>6. level \in Nat /\ 1 <= level /\ Len(idx) \in Nat
  <2>1. run[p] \in Seq([node : Node, out : Group]) /\ idx \in Seq(BOOLEAN)
    BY <1>1, <1>5 DEF TypeOK
  <2>2. Len(run[p]) \in Nat /\ Len(idx) \in Nat
    BY <2>1, Elements
  <2> QED BY <1>1, <2>2 DEF RunInv
<1>7. idx # <<>>
  BY <1>2, <1>6, EmptyTypes
<1>8. dealing = "done" /\ Len(idx) <= Depth /\ Len(words) = Depth /\ Depth \in Nat
  BY <1>1, <1>7, KeyTreeAssumption DEF RunInv, DealInv
<1>9. ASSUME NEW q \in Party, NEW i \in 1 .. Len(run[q]) - 1,
             run'[q][i] = run[q][i], run'[q][i + 1] = run[q][i + 1]
      PROVE  Went(q, i)'
  <2>1. WentBy(q, run[q][i], run[q][i + 1], idx[i], words[i], last', AtLeaf(i))
    BY <1>1, <1>2 DEF RunInv, Went
  <2> QED BY <1>2, <1>4, <1>9, <2>1, WentNext
<1>10. CASE UNCHANGED run /\ panicked' = panicked \cup {p}
  <2>1. TypeOK'
    BY <1>1, <1>2, <1>10 DEF TypeOK
  <2>2. RunInv'
    BY <1>1, <1>2, <1>9, <1>10 DEF RunInv
  <2> QED BY <1>3, <2>1, <2>2 DEF KeyInv
<1>11. CASE ~(UNCHANGED run /\ panicked' = panicked \cup {p})
  <2>1. PICK next :
          /\ run' = [run EXCEPT ![p] = Append(@, next)]
          /\ next = [node |-> next.node, out |-> next.out]
          /\ WentBy(p, run[p][level], next, idx[level], words[level], last, AtLeaf(level))
    BY <1>11, WentLevel
  <2>2. UNCHANGED panicked
    BY <1>11, WentLevel
  <2> HIDE DEF level
  <2>3. level \in 1 .. Len(run[p]) /\ level \in 1 .. Len(idx) /\ level \in 1 .. Len(words)
    BY <1>2, <1>6, <1>8 DEF level
  <2>4. run[p][level] \in [node : Node, out : Group]
    BY <1>5, <2>3, Elements
  <2>5. idx[level] \in BOOLEAN
    BY <1>1, <2>3, Elements DEF TypeOK
  <2>6. words[level] \in [seed : Seed, bits : [BOOLEAN -> BOOLEAN], word : Group]
    BY <1>1, <2>3, Elements DEF TypeOK
  <2>7. next \in [node : Node, out : Group]
    <3>1. last \in Group /\ AtLeaf(level) \in BOOLEAN
      BY <1>1 DEF TypeOK, AtLeaf
    <3>2. next.node \in Node /\ next.out \in Group
      BY <1>1, <2>1, <2>4, <2>5, <2>6, <3>1, WentTypes
    <3> QED BY <2>1, <3>2
  <2>8. run' \in [Party -> Seq([node : Node, out : Group])]
    <3>1. run[p] \in Seq([node : Node, out : Group])
      BY <1>5
    <3>2. Append(run[p], next) \in Seq([node : Node, out : Group])
      BY <2>7, <3>1
    <3>3. run' = [run EXCEPT ![p] = Append(run[p], next)]
      BY <2>1
    <3> QED BY <1>5, <3>2, <3>3
  <2>9. TypeOK'
    BY <1>1, <1>2, <2>2, <2>8 DEF TypeOK
  <2>10. /\ \A q \in Party \ {p} : run'[q] = run[q]
         /\ Len(run'[p]) = level + 1 /\ run'[p][level + 1] = next
         /\ \A i \in 1 .. level : run'[p][i] = run[p][i]
    BY <1>5, <2>1, <2>7 DEF level
  <2>11. 1 \in 1 .. level /\ Len(run[p]) = level /\ level \in Nat
    BY <1>6 DEF level
  <2>12. ASSUME NEW q \in Party, NEW i \in 1 .. Len(run'[q]) - 1 PROVE Went(q, i)'
    <3>1. CASE q # p
      BY <1>9, <2>10, <3>1
    <3>2. CASE q = p /\ i # level
      <4>1. i \in 1 .. level - 1 /\ i \in 1 .. level /\ i + 1 \in 1 .. level
        BY <2>10, <2>11, <3>2
      <4> QED BY <1>9, <2>10, <2>11, <3>2, <4>1
    <3>3. CASE q = p /\ i = level
      <4>1. level \in 1 .. level
        BY <2>11, <2>3
      <4>2. run'[p][level] = run[p][level]
        BY <2>10, <4>1
      <4>3. WentBy(p, run[p][level], next, idx[level], words[level], last', AtLeaf(level))
        BY <1>2, <2>1
      <4> QED BY <1>2, <1>4, <2>10, <3>3, <4>2, <4>3, WentNext
    <3> QED BY <3>1, <3>2, <3>3
  <2>13. ASSUME NEW q \in Party
         PROVE  /\ 1 <= Len(run'[q]) /\ Len(run'[q]) <= Len(idx') + 1
                /\ run'[q][1] = [node |-> path'[1].node[q], out |-> 0]
    <3>1. CASE q # p
      BY <1>1, <1>2, <2>10, <3>1 DEF RunInv
    <3>2. CASE q = p
      <4>1. 1 <= Len(run'[p]) /\ Len(run'[p]) <= Len(idx') + 1
        BY <1>2, <1>6, <2>3, <2>10, <2>11
      <4>2. run'[p][1] = [node |-> path'[1].node[p], out |-> 0]
        BY <1>1, <1>2, <2>10, <2>11 DEF RunInv
      <4> QED BY <3>2, <4>1, <4>2
    <3> QED BY <3>1, <3>2
  <2>14. RunInv'
    BY <1>1, <1>2, <2>12, <2>13 DEF RunInv
  <2> QED BY <1>3, <2>9, <2>14 DEF KeyInv
<1> QED BY <1>10, <1>11

LEMMA KeyInvariant == Spec => []KeyInv
<1>1. KeyInv /\ [Next]_vars => KeyInv'
  <2> SUFFICES ASSUME KeyInv, [Next]_vars PROVE KeyInv'
    OBVIOUS
  <2>1. CASE DealLevel
    BY <2>1, StepDeal
  <2>2. CASE Ask
    BY <2>2, StepAsk
  <2>3. ASSUME NEW p \in Party, EvalLevel(p) PROVE KeyInv'
    BY <2>3, StepEval
  <2>4. CASE Rest
    BY <2>4, StutterKey DEF Rest
  <2>5. CASE UNCHANGED vars
    BY <2>5, StutterKey
  <2> QED BY <2>1, <2>2, <2>3, <2>4, <2>5 DEF Next
<1> QED BY <1>1, InitKeyInv, PTL DEF Spec

(* Seeds stay seeds, control bits bits, and every word and output an       *)
(* element of the group, through the arithmetic of every kind of key       *)
(* (gen and eval of dpf.rs, dcf.rs and idpf.rs).                           *)
THEOREM KeysAreTyped == Spec => []TypeOK
<1>1. KeyInv => TypeOK
  BY DEF KeyInv
<1> QED BY <1>1, KeyInvariant, PTL

-----------------------------------------------------------------------------
(* On the path and off it.                                                 *)
LEMMA Least ==
  ASSUME NEW S, S \subseteq Nat, S # {}
  PROVE  \E m \in S : \A k \in S : m <= k
<1> DEFINE R == OpToRel(<, Nat)
<1>1. IsWellFoundedOn(R, Nat)
  BY NatLessThanWellFounded
<1>2. \A a \in Nat : \A b \in Nat : a < b => <<a, b>> \in R
  BY DEF OpToRel
<1> HIDE DEF R
<1>3. PICK m \in S : \A k \in S : ~(<<k, m>> \in R)
  BY <1>1, WFMin
<1>4. \A k \in S : ~(k < m)
  BY <1>2, <1>3
<1> QED BY <1>3, <1>4

(* Off the path nobody comes back to it; on it, the next side decides.     *)
LEMMA PathStep ==
  ASSUME NEW i \in Nat \ {0}
  PROVE  /\ OnPath(0)
         /\ ~Before(0)
         /\ OnPath(i) <=> OnPath(i - 1) /\ idx[i] = alpha[i]
         /\ ~OnPath(i - 1) => (Before(i) <=> Before(i - 1))
         /\ OnPath(i - 1) => (Before(i) <=> ~idx[i] /\ alpha[i])
<1>1. OnPath(0) /\ ~Before(0)
  BY DEF OnPath, Before
<1>2. i \in 1 .. i /\ i - 1 \in Nat
  OBVIOUS
<1>3. \A k : k \in 1 .. i <=> k \in 1 .. i - 1 \/ k = i
  BY <1>2
<1>4. OnPath(i) <=> OnPath(i - 1) /\ idx[i] = alpha[i]
  BY <1>2, <1>3 DEF OnPath
<1>5. ASSUME ~OnPath(i - 1) PROVE Before(i) <=> Before(i - 1)
  <2>1. ~(\A j \in 1 .. i - 1 : idx[j] = alpha[j])
    BY <1>5 DEF OnPath
  <2> QED BY <1>3, <2>1 DEF Before
<1>6. ASSUME OnPath(i - 1) PROVE Before(i) <=> ~idx[i] /\ alpha[i]
  <2>1. \A j \in 1 .. i - 1 : idx[j] = alpha[j]
    BY <1>6 DEF OnPath
  <2>2. ASSUME Before(i) PROVE ~idx[i] /\ alpha[i]
    <3>1. PICK k \in 1 .. i : ~idx[k] /\ alpha[k]
      BY <2>2 DEF Before
    <3>2. ~(k \in 1 .. i - 1)
      BY <2>1, <3>1
    <3>3. k = i
      BY <1>3, <3>2
    <3> QED BY <3>1, <3>3
  <2>3. ASSUME ~idx[i], alpha[i] PROVE Before(i)
    BY <1>2, <2>1, <2>3 DEF Before
  <2> QED BY <2>2, <2>3
<1> QED BY <1>1, <1>4, <1>5, <1>6

(* Both parties have come to level i, and what is known of it.             *)
LEMMA LevelFacts ==
  ASSUME KeyInv, NEW i \in 1 .. Len(idx), Reached(i)
  PROVE  /\ Reached(i - 1) /\ i \in Nat \ {0} /\ i \in 1 .. Depth /\ dealing = "done"
         /\ Dealt(i) /\ \A p \in Party : Went(p, i)
         /\ idx[i] \in BOOLEAN /\ alpha[i] \in BOOLEAN /\ values[i] \in Group
         /\ path[i] \in [node : [Party -> Node], v : Group]
         /\ path[i].node[0].t # path[i].node[1].t
         /\ words[i] \in [seed : Seed, bits : [BOOLEAN -> BOOLEAN], word : Group]
         /\ \A p \in Party : run[p][i] \in [node : Node, out : Group]
         /\ last \in Group /\ prg \in Prgs
<1>1. Key /\ TypeOK /\ DealInv /\ RunInv
  BY DEF KeyInv
<1>2. idx \in Seq(BOOLEAN) /\ Len(idx) \in Nat /\ i \in Nat \ {0} /\ idx # <<>>
  <2>1. idx \in Seq(BOOLEAN) /\ Len(idx) \in Nat
    BY <1>1, Elements DEF TypeOK
  <2>2. i \in Nat \ {0}
    BY <2>1
  <2>3. 1 <= Len(idx)
    BY <2>1
  <2> QED BY <2>1, <2>2, <2>3, EmptyTypes
<1>3. dealing = "done" /\ Len(idx) <= Depth /\ Len(words) = Depth /\ Len(path) = Depth + 1
  BY <1>1, <1>2 DEF RunInv, DealInv
<1>4. i \in 1 .. Depth /\ i \in 1 .. Len(words) /\ i \in 1 .. Len(path)
  BY <1>2, <1>3, KeyTreeAssumption
<1>5. Dealt(i) /\ path[i].node[0].t # path[i].node[1].t
  BY <1>1, <1>4 DEF DealInv
<1>6. ASSUME NEW p \in Party
      PROVE  Went(p, i) /\ i - 1 < Len(run[p]) /\ run[p][i] \in [node : Node, out : Group]
  <2>1. run[p] \in Seq([node : Node, out : Group]) /\ Len(run[p]) \in Nat
    BY <1>1, Elements DEF TypeOK
  <2>2. i < Len(run[p])
    BY DEF Reached
  <2>3. i \in 1 .. Len(run[p]) - 1 /\ i \in 1 .. Len(run[p]) /\ i - 1 < Len(run[p])
    BY <1>2, <2>1, <2>2
  <2>4. Went(p, i)
    BY <1>1, <2>3 DEF RunInv
  <2> QED BY <2>1, <2>3, <2>4, Elements
<1>7. Reached(i - 1)
  BY <1>6 DEF Reached
<1>8. idx[i] \in BOOLEAN
  BY <1>2, Elements
<1>9. alpha[i] \in BOOLEAN /\ values[i] \in Group /\ prg \in Prgs
  BY <1>1, <1>4, KeyTreeAssumption DEF Key
<1>10. path[i] \in [node : [Party -> Node], v : Group]
  BY <1>1, <1>4, Elements DEF TypeOK
<1>11. words[i] \in [seed : Seed, bits : [BOOLEAN -> BOOLEAN], word : Group]
  BY <1>1, <1>4, Elements DEF TypeOK
<1>12. last \in Group
  BY <1>1 DEF TypeOK
<1> QED BY <1>2, <1>3, <1>4, <1>5, <1>6, <1>7, <1>8, <1>9, <1>10, <1>11, <1>12

(* Where the two parties are.                                              *)
Diverged(i) ==
  IF OnPath(i) THEN \A p \in Party : run[p][i + 1].node = path[i + 1].node[p]
  ELSE run[0][i + 1].node = run[1][i + 1].node

Under(p, i) == Down(run[p][i].node, idx[i], words[i])

(* One level: the same node leads to the same node, and from the dealer's  *)
(* nodes the side that is kept leads to the dealer's, the other to one.    *)
LEMMA DivergeStep ==
  ASSUME KeyInv, NEW i \in 1 .. Len(idx), Reached(i), Diverged(i - 1)
  PROVE  /\ Diverged(i)
         /\ OnPath(i) => \A p \in Party :
              Under(p, i) = Below(path[i].node, alpha[i], words[i])[p]
         /\ ~OnPath(i) => Under(0, i) = Under(1, i)
<1>1. /\ i \in Nat \ {0} /\ Dealt(i) /\ \A p \in Party : Went(p, i)
      /\ idx[i] \in BOOLEAN /\ alpha[i] \in BOOLEAN /\ prg \in Prgs
      /\ path[i] \in [node : [Party -> Node], v : Group]
      /\ path[i].node[0].t # path[i].node[1].t
  BY LevelFacts
<1>2. (i - 1) + 1 = i
  BY <1>1
<1>3. \A p \in Party : run[p][i + 1].node = Renewed(Under(p, i))
  BY <1>1 DEF Went, WentBy, Under
<1>4. 0 \in Party /\ 1 \in Party
  BY DEF Party
<1>5. CASE ~OnPath(i - 1)
  <2>1. ~OnPath(i)
    BY <1>1, <1>5, PathStep
  <2>2. run[0][i].node = run[1][i].node
    BY <1>2, <1>5 DEF Diverged
  <2>3. Under(0, i) = Under(1, i)
    BY <2>2 DEF Under
  <2>4. run[0][i + 1].node = run[1][i + 1].node
    BY <1>3, <1>4, <2>3
  <2> QED BY <2>1, <2>3, <2>4 DEF Diverged
<1>6. CASE OnPath(i - 1)
  <2>1. \A p \in Party : run[p][i].node = path[i].node[p]
    BY <1>2, <1>6 DEF Diverged
  <2>2. CASE idx[i] = alpha[i]
    <3>1. OnPath(i)
      BY <1>1, <1>6, <2>2, PathStep
    <3>2. PICK below : below = Below(path[i].node, alpha[i], words[i])
      OBVIOUS
    <3>3. \A p \in Party : Under(p, i) = below[p]
      BY <2>1, <2>2, <3>2 DEF Under, Below
    <3>4. path[i + 1].node = [p \in Party |-> Renewed(below[p])]
      BY <1>1, <3>2 DEF Dealt, DealtBy
    <3>5. \A p \in Party : run[p][i + 1].node = path[i + 1].node[p]
      BY <1>3, <3>3, <3>4
    <3> QED BY <3>1, <3>2, <3>3, <3>5 DEF Diverged
  <2>3. CASE idx[i] # alpha[i]
    <3>1. ~OnPath(i)
      BY <1>1, <2>3, PathStep
    <3>2. idx[i] = ~alpha[i]
      BY <1>1, <2>3
    <3>3. PICK node \in [Party -> Node] : node = path[i].node
      BY <1>1
    <3>4. /\ words[i].seed = Correction(node, alpha[i]).seed
          /\ words[i].bits = Correction(node, alpha[i]).bits
      BY <1>1, <3>3 DEF Dealt, DealtBy
    <3>5. Down(node[0], ~alpha[i], words[i]) = Down(node[1], ~alpha[i], words[i])
      BY <1>1, <3>3, <3>4, Fork
    <3>6. Under(0, i) = Under(1, i)
      BY <1>4, <2>1, <3>2, <3>3, <3>5 DEF Under
    <3>7. run[0][i + 1].node = run[1][i + 1].node
      BY <1>3, <1>4, <3>6
    <3> QED BY <3>1, <3>6, <3>7 DEF Diverged
  <2> QED BY <2>2, <2>3
<1> QED BY <1>5, <1>6

LEMMA AllDiverged ==
  ASSUME KeyInv, NEW n \in 0 .. Len(idx), Reached(n)
  PROVE  Diverged(n)
<1> DEFINE bad == {i \in 0 .. Len(idx) : Reached(i) /\ ~Diverged(i)}
<1>1. SUFFICES ASSUME bad # {} PROVE FALSE
  OBVIOUS
<1>2. Len(idx) \in Nat
  BY Elements DEF KeyInv, TypeOK
<1>3. bad \subseteq Nat
  BY <1>2
<1>4. PICK m \in bad : \A k \in bad : m <= k
  BY <1>1, <1>3, Least
<1>5. m \in 0 .. Len(idx) /\ Reached(m) /\ ~Diverged(m) /\ m \in Nat
  BY <1>2, <1>4
<1>6. CASE m = 0
  <2>1. OnPath(0)
    BY PathStep
  <2>2. ASSUME NEW p \in Party PROVE run[p][1].node = path[1].node[p]
    <3>1. run[p][1] = [node |-> path[1].node[p], out |-> 0]
      BY DEF KeyInv, RunInv
    <3> QED BY <3>1
  <2>3. 0 + 1 = 1
    OBVIOUS
  <2>4. Diverged(0)
    BY <2>1, <2>2, <2>3 DEF Diverged
  <2> QED BY <1>5, <1>6, <2>4
<1>7. CASE m # 0
  <2>1. m \in 1 .. Len(idx) /\ m - 1 \in 0 .. Len(idx) /\ ~(m <= m - 1)
    BY <1>2, <1>5, <1>7
  <2>2. Reached(m - 1)
    BY <1>5, <2>1, LevelFacts
  <2>3. Diverged(m - 1)
    BY <1>4, <2>1, <2>2
  <2>4. Diverged(m)
    BY <1>5, <2>1, <2>3, DivergeStep
  <2> QED BY <1>5, <2>4
<1> QED BY <1>6, <1>7

LEMMA InvPathsDiverge ==
  ASSUME KeyInv
  PROVE  PathsDiverge
<1> SUFFICES ASSUME NEW i \in 1 .. Len(idx), Reached(i)
             PROVE  IF OnPath(i)
                    THEN Node2(i) = path[i + 1].node /\ Node2(i)[0].t # Node2(i)[1].t
                    ELSE Node2(i)[0] = Node2(i)[1]
  BY DEF PathsDiverge
<1>1. Len(idx) \in Nat /\ i \in Nat
  BY Elements DEF KeyInv, TypeOK
<1>2. i \in 0 .. Len(idx)
  BY <1>1
<1>3. Diverged(i)
  BY <1>2, AllDiverged
<1>4. Node2(i) = [p \in Party |-> run[p][i + 1].node]
  BY DEF Node2
<1>5. Node2(i)[0] = run[0][i + 1].node /\ Node2(i)[1] = run[1][i + 1].node
  BY <1>4 DEF Party
<1>6. CASE OnPath(i)
  <2>1. \A p \in Party : run[p][i + 1].node = path[i + 1].node[p]
    BY <1>3, <1>6 DEF Diverged
  <2>2. i + 1 \in 1 .. Len(path)
    <3>1. i \in 1 .. Depth /\ dealing = "done"
      BY LevelFacts
    <3>2. Len(path) = Depth + 1
      BY <3>1 DEF KeyInv, DealInv
    <3> QED BY <1>1, <3>1, <3>2, KeyTreeAssumption
  <2>3. path[i + 1] \in [node : [Party -> Node], v : Group]
    BY <2>2, Elements DEF KeyInv, TypeOK
  <2>4. path[i + 1].node \in [Party -> Node]
    BY <2>3
  <2>5. Node2(i) = path[i + 1].node
    BY <1>4, <2>1, <2>4
  <2>6. path[i + 1].node[0].t # path[i + 1].node[1].t
    BY <2>2 DEF KeyInv, DealInv
  <2> QED BY <1>6, <2>5, <2>6
<1>7. CASE ~OnPath(i)
  BY <1>3, <1>5, <1>7 DEF Diverged
<1> QED BY <1>6, <1>7

(* The two parties stand on the dealer's nodes while the index follows the *)
(* path, with control bits that differ, and on one and the same node from  *)
(* the moment it leaves it, for every generator, every pair of seeds and   *)
(* every index (gen_cor_word and eval of dpf.rs, dcf.rs and idpf.rs).      *)
THEOREM PathsAlwaysDiverge == Spec => []PathsDiverge
BY KeyInvariant, InvPathsDiverge, PTL

-----------------------------------------------------------------------------
(* What the outputs add up to.                                             *)
InnerAt(p, i) == Inner(p, run[p][i], idx[i], words[i])
LeafAt(p, i)  == Leaf(run[p][i], idx[i], words[i], last)

(* What a comparison has come to.                                          *)
Target(i) ==
  IF OnPath(i) THEN path[i + 1].v ELSE IF Before(i) THEN values[1] ELSE 0

LEMMA OutFacts ==
  ASSUME KeyInv, NEW i \in 1 .. Len(idx), Reached(i)
  PROVE  /\ \A p \in Party :
              /\ run[p][i + 1].out
                 = IF kind = "idpf" \/ AtLeaf(i)
                   THEN Plus(InnerAt(p, i), Signed(p = 1, LeafAt(p, i))) ELSE InnerAt(p, i)
              /\ InnerAt(p, i) \in Group /\ LeafAt(p, i) \in Group
              /\ Here(run[p][i], idx[i], words[i]) \in Group /\ Under(p, i) \in Node
<1> SUFFICES ASSUME NEW p \in Party
             PROVE  /\ run[p][i + 1].out
                       = IF kind = "idpf" \/ AtLeaf(i)
                         THEN Plus(InnerAt(p, i), Signed(p = 1, LeafAt(p, i))) ELSE InnerAt(p, i)
                    /\ InnerAt(p, i) \in Group /\ LeafAt(p, i) \in Group
                    /\ Here(run[p][i], idx[i], words[i]) \in Group /\ Under(p, i) \in Node
  OBVIOUS
<1>1. /\ Went(p, i) /\ idx[i] \in BOOLEAN /\ last \in Group
      /\ words[i] \in [seed : Seed, bits : [BOOLEAN -> BOOLEAN], word : Group]
      /\ run[p][i] \in [node : Node, out : Group]
  BY LevelFacts
<1>2. WentBy(p, run[p][i], run[p][i + 1], idx[i], words[i], last, AtLeaf(i))
  BY <1>1 DEF Went
<1>3. AtLeaf(i) \in BOOLEAN /\ Key
  BY DEF AtLeaf, KeyInv
<1>4. /\ Down(run[p][i].node, idx[i], words[i]) \in Node
      /\ Here(run[p][i], idx[i], words[i]) \in Group
      /\ Leaf(run[p][i], idx[i], words[i], last) \in Group
      /\ Inner(p, run[p][i], idx[i], words[i]) \in Group
  <2>1. PICK here \in [node : Node, out : Group] : here = run[p][i]
    BY <1>1
  <2>2. PICK next : next = run[p][i + 1]
    OBVIOUS
  <2>3. PICK side \in BOOLEAN : side = idx[i]
    BY <1>1
  <2>4. PICK cw \in [seed : Seed, bits : [BOOLEAN -> BOOLEAN], word : Group] : cw = words[i]
    BY <1>1
  <2>5. PICK atLeaf \in BOOLEAN : atLeaf = AtLeaf(i)
    BY <1>3
  <2>6. PICK w \in Group : w = last
    BY <1>1
  <2>7. WentBy(p, here, next, side, cw, w, atLeaf)
    BY <1>2, <2>1, <2>2, <2>3, <2>4, <2>5, <2>6
  <2>8. /\ Down(here.node, side, cw) \in Node
        /\ Here(here, side, cw) \in Group
        /\ Leaf(here, side, cw, w) \in Group
        /\ Inner(p, here, side, cw) \in Group
    BY <1>3, <2>7, WentTypes
  <2> QED BY <2>1, <2>3, <2>4, <2>6, <2>8
<1>5. run[p][i + 1].out
      = IF kind = "idpf" \/ AtLeaf(i)
        THEN Plus(InnerAt(p, i), Signed(p = 1, LeafAt(p, i))) ELSE InnerAt(p, i)
  BY <1>2 DEF WentBy, InnerAt, LeafAt
<1> QED BY <1>4, <1>5 DEF InnerAt, LeafAt, Under

(* A level of a comparison takes what the parties have to what they must   *)
(* have next.                                                              *)
LEMMA InnerStep ==
  ASSUME KeyInv, kind = "dcf", NEW i \in 1 .. Len(idx), Reached(i), Sum(i - 1) = Target(i - 1)
  PROVE  Plus(InnerAt(0, i), InnerAt(1, i)) = Target(i)
<1>1. /\ Reached(i - 1) /\ i \in Nat \ {0} /\ i \in 1 .. Depth /\ Dealt(i)
      /\ idx[i] \in BOOLEAN /\ alpha[i] \in BOOLEAN /\ values[i] \in Group /\ prg \in Prgs
      /\ path[i] \in [node : [Party -> Node], v : Group]
      /\ path[i].node[0].t # path[i].node[1].t
      /\ words[i] \in [seed : Seed, bits : [BOOLEAN -> BOOLEAN], word : Group]
  BY LevelFacts
<1>2. 0 \in Party /\ 1 \in Party /\ (i - 1) + 1 = i
  BY <1>1 DEF Party
<1>3. /\ run[0][i] \in [node : Node, out : Group] /\ run[1][i] \in [node : Node, out : Group]
      /\ Here(run[0][i], idx[i], words[i]) \in Group
      /\ Here(run[1][i], idx[i], words[i]) \in Group
  BY <1>2, LevelFacts, OutFacts
<1>4. PICK o0 \in Group : o0 = run[0][i].out
  BY <1>3
<1>5. PICK o1 \in Group : o1 = run[1][i].out
  BY <1>3
<1>6. PICK h0 \in Group : h0 = Here(run[0][i], idx[i], words[i])
  BY <1>3
<1>7. PICK h1 \in Group : h1 = Here(run[1][i], idx[i], words[i])
  BY <1>3
<1>8. Plus(InnerAt(0, i), InnerAt(1, i)) = Both(o0, o1, h0, h1)
  <2>1. InnerAt(0, i) = Plus(o0, Signed(0 = 1, h0))
    BY <1>4, <1>6 DEF InnerAt, Inner
  <2>2. InnerAt(1, i) = Plus(o1, Signed(1 = 1, h1))
    BY <1>5, <1>7 DEF InnerAt, Inner
  <2> QED BY <2>1, <2>2 DEF Both
<1>9. Plus(o0, o1) = Target(i - 1)
  BY <1>2, <1>4, <1>5 DEF Sum
<1>10. i - 1 \in 0 .. Len(idx)
  <2>1. Len(idx) \in Nat
    BY Elements DEF KeyInv, TypeOK
  <2> QED BY <1>1, <2>1
<1>11. Diverged(i - 1)
  BY <1>1, <1>10, AllDiverged
<1>12. CASE ~OnPath(i - 1)
  <2>1. run[0][i].node = run[1][i].node
    BY <1>2, <1>11, <1>12 DEF Diverged
  <2>2. h0 = h1
    BY <1>6, <1>7, <2>1 DEF Here
  <2>3. Both(o0, o1, h0, h1) = Plus(o0, o1)
    BY <2>2, SameState
  <2>4. ~OnPath(i) /\ (Before(i) <=> Before(i - 1))
    BY <1>1, <1>12, PathStep
  <2>5. Target(i) = Target(i - 1)
    BY <1>12, <2>4 DEF Target
  <2> QED BY <1>8, <1>9, <2>3, <2>5
<1>13. CASE OnPath(i - 1)
  <2>1. run[0][i].node = path[i].node[0] /\ run[1][i].node = path[i].node[1]
    BY <1>2, <1>11, <1>13 DEF Diverged
  <2>2. PICK node \in [Party -> Node] : node = path[i].node
    BY <1>1
  <2>3. PICK w \in Group : w = words[i].word
    BY <1>1
  <2>4. /\ h0 = Part(node[0].t, Veed(node[0].seed, idx[i]), w)
        /\ h1 = Part(node[1].t, Veed(node[1].seed, idx[i]), w)
    BY <1>6, <1>7, <2>1, <2>2, <2>3 DEF Here
  <2>5. Plus(o0, o1) = path[i].v
    BY <1>2, <1>9, <1>13 DEF Target
  <2>6. w = CompareWord(node, Plus(o0, o1), alpha[i], values[i])
    BY <1>1, <2>2, <2>3, <2>5 DEF Dealt, DealtBy, WordFor
  <2>7. node[0].t # node[1].t
    BY <1>1, <2>2
  <2>8. CASE idx[i] = alpha[i]
    <3>1. OnPath(i)
      BY <1>1, <1>13, <2>8, PathStep
    <3>2. Both(o0, o1, h0, h1) = CompareSum(node, Plus(o0, o1), alpha[i], w)
      BY <1>1, <2>4, <2>7, <2>8, KeptLevel
    <3>3. path[i + 1].v = CompareSum(node, path[i].v, alpha[i], w)
      BY <1>1, <2>2, <2>3 DEF Dealt, DealtBy
    <3>4. Target(i) = path[i + 1].v
      BY <3>1 DEF Target
    <3> QED BY <1>8, <2>5, <3>2, <3>3, <3>4
  <2>9. CASE idx[i] # alpha[i]
    <3>1. idx[i] = ~alpha[i] /\ ~OnPath(i)
      BY <1>1, <2>9, PathStep
    <3>2. Before(i) <=> alpha[i]
      BY <1>1, <1>13, <3>1, PathStep
    <3>3. PICK value \in Group : value = values[i]
      BY <1>1
    <3>4. Both(o0, o1, h0, h1) = IF alpha[i] THEN value ELSE 0
      BY <1>1, <2>4, <2>6, <2>7, <3>1, <3>3, LostLevel
    <3>5. values[i] = values[1]
      <4>1. \A j, k \in 1 .. Depth : values[j] = values[k]
        BY DEF KeyInv, Key
      <4>2. 1 \in 1 .. Depth
        BY <1>1, KeyTreeAssumption
      <4> QED BY <1>1, <4>1, <4>2
    <3>6. Target(i) = IF alpha[i] THEN value ELSE 0
      BY <3>1, <3>2, <3>3, <3>5 DEF Target
    <3> QED BY <1>8, <3>4, <3>6
  <2> QED BY <2>8, <2>9
<1> QED BY <1>12, <1>13

LEMMA AllSums ==
  ASSUME KeyInv, kind = "dcf", NEW n \in 0 .. Len(idx) - 1, Reached(n)
  PROVE  Sum(n) = Target(n)
<1> DEFINE bad == {i \in 0 .. Len(idx) - 1 : Reached(i) /\ Sum(i) # Target(i)}
<1>1. SUFFICES ASSUME bad # {} PROVE FALSE
  OBVIOUS
<1>2. Len(idx) \in Nat
  BY Elements DEF KeyInv, TypeOK
<1>3. bad \subseteq Nat
  BY <1>2
<1>4. PICK m \in bad : \A k \in bad : m <= k
  BY <1>1, <1>3, Least
<1>5. m \in 0 .. Len(idx) - 1 /\ Reached(m) /\ Sum(m) # Target(m) /\ m \in Nat
  BY <1>2, <1>4
<1>6. CASE m = 0
  <2>1. OnPath(0)
    BY PathStep
  <2>2. ASSUME NEW p \in Party PROVE run[p][1].out = 0
    <3>1. run[p][1] = [node |-> path[1].node[p], out |-> 0]
      BY DEF KeyInv, RunInv
    <3> QED BY <3>1
  <2>3. 0 + 1 = 1 /\ 0 \in Party /\ 1 \in Party
    BY DEF Party
  <2>4. Sum(0) = Plus(0, 0)
    BY <2>2, <2>3 DEF Sum
  <2>5. Target(0) = 0
    BY <2>1, <2>3 DEF Target, KeyInv, DealInv
  <2> QED BY <1>5, <1>6, <2>4, <2>5, PlusFacts
<1>7. CASE m # 0
  <2>1. m \in 1 .. Len(idx) /\ m - 1 \in 0 .. Len(idx) - 1 /\ ~(m <= m - 1) /\ m # Len(idx)
    BY <1>2, <1>5, <1>7
  <2>2. Reached(m - 1)
    BY <1>5, <2>1, LevelFacts
  <2>3. Sum(m - 1) = Target(m - 1)
    BY <1>4, <2>1, <2>2
  <2>4. Plus(InnerAt(0, m), InnerAt(1, m)) = Target(m)
    BY <1>5, <2>1, <2>3, InnerStep
  <2>5. ~AtLeaf(m) /\ 0 \in Party /\ 1 \in Party
    BY <2>1 DEF AtLeaf, Party
  <2>6. run[0][m + 1].out = InnerAt(0, m) /\ run[1][m + 1].out = InnerAt(1, m)
    BY <1>5, <2>1, <2>5, OutFacts
  <2>7. Sum(m) = Target(m)
    BY <2>4, <2>6 DEF Sum
  <2> QED BY <1>5, <2>7
<1> QED BY <1>6, <1>7

LEMMA InvSumsFollow ==
  ASSUME KeyInv
  PROVE  SumsFollow
<1> SUFFICES ASSUME kind = "dcf", NEW i \in 1 .. Len(idx) - 1, Reached(i)
             PROVE  Sum(i) = Target(i)
  BY DEF SumsFollow, Target
<1>1. Len(idx) \in Nat
  BY Elements DEF KeyInv, TypeOK
<1>2. i \in 0 .. Len(idx) - 1
  BY <1>1
<1> QED BY <1>2, AllSums

LEMMA InvOutputsRecombine ==
  ASSUME KeyInv
  PROVE  OutputsRecombine
<1> DEFINE n == Len(idx)
<1> SUFFICES ASSUME \A p \in Party : Done(p), n = Depth \/ kind = "idpf" \/ ~OnPath(n)
             PROVE  Sum(n) = CASE kind = "dcf" -> IF Before(n) THEN values[1] ELSE 0
                               [] OTHER -> IF OnPath(n) THEN values[n] ELSE 0
  BY DEF OutputsRecombine
<1>1. idx # <<>> /\ idx \in Seq(BOOLEAN)
  BY DEF Done, Party, KeyInv, TypeOK
<1>2. n \in Nat /\ n # 0
  BY <1>1
<1>3. n \in 1 .. n /\ n \in 0 .. n /\ n - 1 \in 0 .. n - 1 /\ n - 1 \in 0 .. n /\ n \in Nat \ {0}
  BY <1>2
<1>4. Reached(n)
  <2>1. \A p \in Party : Len(run[p]) = n + 1
    BY DEF Done
  <2>2. n < n + 1
    BY <1>2
  <2> QED BY <2>1, <2>2 DEF Reached
<1> HIDE DEF n
<1>5. n \in 1 .. Len(idx) /\ n \in 0 .. Len(idx) /\ n - 1 \in 0 .. Len(idx) - 1 /\ n - 1 \in 0 .. Len(idx)
  BY <1>3 DEF n
<1>6. /\ Reached(n - 1) /\ n \in 1 .. Depth /\ dealing = "done" /\ Dealt(n) /\ prg \in Prgs
      /\ idx[n] \in BOOLEAN /\ alpha[n] \in BOOLEAN /\ values[n] \in Group /\ last \in Group
      /\ path[n] \in [node : [Party -> Node], v : Group]
      /\ path[n].node[0].t # path[n].node[1].t
      /\ words[n] \in [seed : Seed, bits : [BOOLEAN -> BOOLEAN], word : Group]
  BY <1>4, <1>5, LevelFacts
<1>7. 0 \in Party /\ 1 \in Party /\ AtLeaf(n) /\ kind \in {"dpf", "dcf", "idpf"}
  BY KeyTreeAssumption DEF Party, AtLeaf, n, KeyInv, Key
<1>8. PICK i0 \in Group : i0 = InnerAt(0, n)
  BY <1>4, <1>5, <1>7, OutFacts
<1>9. PICK i1 \in Group : i1 = InnerAt(1, n)
  BY <1>4, <1>5, <1>7, OutFacts
<1>10. PICK l0 \in Group : l0 = LeafAt(0, n)
  BY <1>4, <1>5, <1>7, OutFacts
<1>11. PICK l1 \in Group : l1 = LeafAt(1, n)
  BY <1>4, <1>5, <1>7, OutFacts
<1>12. Sum(n) = Both(i0, i1, l0, l1)
  <2>1. /\ run[0][n + 1].out = Plus(i0, Signed(0 = 1, l0))
        /\ run[1][n + 1].out = Plus(i1, Signed(1 = 1, l1))
    BY <1>4, <1>5, <1>7, <1>8, <1>9, <1>10, <1>11, OutFacts
  <2> QED BY <2>1 DEF Sum, Both
<1>13. Plus(i0, i1) = IF kind = "dcf" THEN Target(n) ELSE 0
  <2>1. CASE kind = "dcf"
    <3>1. Sum(n - 1) = Target(n - 1)
      BY <1>5, <1>6, <2>1, AllSums
    <3> QED BY <1>4, <1>5, <1>8, <1>9, <2>1, <3>1, InnerStep
  <2>2. CASE kind # "dcf"
    <3>1. i0 = 0 /\ i1 = 0
      BY <1>8, <1>9, <2>2 DEF InnerAt, Inner
    <3> QED BY <2>2, <3>1, PlusFacts
  <2> QED BY <2>1, <2>2
<1>14. Diverged(n - 1)
  BY <1>5, <1>6, AllDiverged
<1>15. CASE ~OnPath(n)
  <2>1. Under(0, n) = Under(1, n)
    BY <1>4, <1>5, <1>14, <1>15, DivergeStep
  <2>2. l0 = l1
    BY <1>10, <1>11, <2>1 DEF LeafAt, Leaf, Under
  <2>3. Sum(n) = Plus(i0, i1)
    BY <1>12, <2>2, SameState
  <2> QED BY <1>13, <1>15, <2>3 DEF Target
<1>16. CASE OnPath(n)
  <2>1. n = Depth \/ kind = "idpf"
    BY <1>16
  <2>2. ~Before(n)
    BY <1>3, <1>16, PathStep
  <2>3. PICK below : below = Below(path[n].node, alpha[n], words[n])
    OBVIOUS
  <2>4. Under(0, n) = below[0] /\ Under(1, n) = below[1]
    BY <1>4, <1>5, <1>7, <1>14, <1>16, <2>3, DivergeStep
  <2>5. below \in [Party -> Node] /\ below[0].t # below[1].t
    <3>1. Key
      BY DEF KeyInv
    <3>2. DealtBy(path[n], path[n + 1], alpha[n], values[n], words[n])
      BY <1>6 DEF Dealt
    <3>3. PICK here \in [node : [Party -> Node], v : Group] : here = path[n]
      BY <1>6
    <3>4. PICK next : next = path[n + 1]
      OBVIOUS
    <3>5. PICK keep \in BOOLEAN : keep = alpha[n]
      BY <1>6
    <3>6. PICK value \in Group : value = values[n]
      BY <1>6
    <3>7. PICK cw : cw = words[n]
      OBVIOUS
    <3>8. DealtBy(here, next, keep, value, cw) /\ here.node[0].t # here.node[1].t
      BY <1>6, <3>2, <3>3, <3>4, <3>5, <3>6, <3>7
    <3>9. /\ Below(here.node, keep, cw) \in [Party -> Node]
          /\ Below(here.node, keep, cw)[0].t # Below(here.node, keep, cw)[1].t
      BY <3>1, <3>8, DealtTypes
    <3> QED BY <2>3, <3>3, <3>5, <3>7, <3>9
  <2>6. PICK w : w = IF kind = "idpf" THEN words[n].word ELSE last
    OBVIOUS
  <2>7. /\ l0 = Part(below[0].t, Word(below[0].seed), w)
        /\ l1 = Part(below[1].t, Word(below[1].seed), w)
    BY <1>10, <1>11, <2>4, <2>6 DEF LeafAt, Leaf, Under
  <2>8. PICK value : value = IF kind = "dcf" THEN Negated(path[n + 1].v) ELSE values[n]
    OBVIOUS
  <2>9. path[n + 1].v \in Group
    <3>1. n + 1 \in 1 .. Len(path)
      <4>1. Len(path) = Depth + 1
        BY <1>6 DEF KeyInv, DealInv
      <4> QED BY <1>6, <4>1, KeyTreeAssumption
    <3>2. path[n + 1] \in [node : [Party -> Node], v : Group]
      BY <3>1, Elements DEF KeyInv, TypeOK
    <3> QED BY <3>2
  <2>10. value \in Group
    BY <1>6, <2>8, <2>9, PlusFacts
  <2>11. w = Signed(below[1].t, Gap(below, value))
    <3>1. CASE kind = "idpf"
      <4>1. words[n].word = Signed(below[1].t, Gap(below, values[n]))
        BY <1>6, <2>3, <3>1 DEF Dealt, DealtBy, WordFor
      <4> QED BY <2>6, <2>8, <3>1, <4>1
    <3>2. CASE kind # "idpf"
      <4>1. n = Depth
        BY <2>1, <3>2
      <4>2. AtLast
        BY <1>6, <3>2 DEF KeyInv, DealInv
      <4>3. last = Signed(below[1].t, Gap(below, value))
        BY <2>3, <2>8, <4>1, <4>2 DEF AtLast, LastBy
      <4> QED BY <2>6, <3>2, <4>3
    <3> QED BY <3>1, <3>2
  <2>12. Sum(n) = Plus(Plus(i0, i1), value)
    BY <1>6, <1>12, <2>5, <2>7, <2>10, <2>11, LeafLevel
  <2>13. CASE kind = "dcf"
    <3>1. Plus(i0, i1) = path[n + 1].v
      BY <1>13, <1>16, <2>13 DEF Target
    <3>2. Sum(n) = 0
      BY <2>8, <2>9, <2>12, <2>13, <3>1, PlusFacts
    <3> QED BY <2>2, <2>13, <3>2
  <2>14. CASE kind # "dcf"
    <3>1. Sum(n) = values[n]
      BY <1>6, <1>13, <2>8, <2>12, <2>14, PlusFacts
    <3> QED BY <1>16, <2>14, <3>1
  <2> QED BY <2>13, <2>14
<1> QED BY <1>15, <1>16

(* What the parties of a comparison have is together what the dealer has   *)
(* while the index follows the bound, and the final result as soon as it   *)
(* leaves it (dcf.rs:46-64, 146-160).                                      *)
THEOREM SumsAlwaysFollow == Spec => []SumsFollow
BY KeyInvariant, InvSumsFollow, PTL

(* The two outputs add up to the function that was dealt, at every index,  *)
(* for every value and every pair of seeds, in every build that does not   *)
(* panic on the way (gen and eval of dpf.rs, dcf.rs and idpf.rs).          *)
THEOREM KeysRecombine == Spec => []OutputsRecombine
BY KeyInvariant, InvOutputsRecombine, PTL
=============================================================================
