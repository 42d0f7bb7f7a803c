---------------------------- MODULE LibfssProofs ----------------------------
(***************************************************************************)
(* The gates of libfss, for every ring, group, mask and randomness, and    *)
(* the stream all randomness is drawn from.  Each has variables of its     *)
(* own; the keys are the business of KeyTreeProofs.                        *)
(*                                                                         *)
(* Products (beavertuple.rs): the inductive invariant says what a share of *)
(* a product is made of, the differences both parties opened for that      *)
(* product, and no later or earlier ones, although the tuple stores only   *)
(* one pair of them.                                                       *)
(*                                                                         *)
(* Intervals (ic.rs): the seven comparisons add up to the answer as plain  *)
(* integers, which is linear arithmetic once the wraps of Plus and Minus   *)
(* are told apart; and what the two parties compute adds up to that sum    *)
(* but for multiples of the order.                                         *)
(*                                                                         *)
(* Conditional evaluation (condEval.rs) is built on intervals, and so is   *)
(* its invariant: every step that touches the interval's variables is one  *)
(* of the interval's own.                                                  *)
(*                                                                         *)
(* Conjunctions (mbeaver.rs): the two parties count, together, the pairs   *)
(* of a set of opened bits and the complement of masks that are all set;   *)
(* that their number is odd exactly if each bit is set is shown from the   *)
(* least number of bits for which it is not.                               *)
(*                                                                         *)
(* Matrices (qmatrix.rs): numbers are told apart by their digits, and the  *)
(* detour over a byte and the count from the last row and column flip the  *)
(* digits of the row by the query.                                         *)
(*                                                                         *)
(* The key stream (prg.rs): the invariant is about one number, the place   *)
(* of the byte that comes next.  What was delivered lies before it, what   *)
(* is buffered follows it, and all between the buffer and the counter was  *)
(* skipped.                                                                *)
(***************************************************************************)
EXTENDS MCGadgets, RingTheorems, SequenceTheorems, FiniteSetTheorems,
        WellFoundedInduction

LEMMA PeerOf ==
  ASSUME NEW p \in Party
  PROVE  Peer(p) \in Party /\ Peer(p) # p /\ Peer(Peer(p)) = p
BY DEF Party, Peer

-----------------------------------------------------------------------------
(* The facts of RingTheorems about the one ring of the gadgets.            *)
Same(f, g) == f % Modulus = g % Modulus

LEMMA FixedModulus ==
  /\ Modulus \in Moduli /\ Ring = Z(Modulus)
  /\ \A f, g : Same(f, g) <=> Congruent(Modulus, f, g)
BY RingAssumption DEF Moduli, Ring, Same, Congruent

LEMMA SameAdd ==
  ASSUME NEW u \in Int, NEW w \in Int, NEW f \in Int, NEW g \in Int, Same(u, f), Same(w, g)
  PROVE  Same(u + w, f + g)
BY FixedModulus, CongruentAdd

LEMMA SameMul ==
  ASSUME NEW u \in Int, NEW w \in Int, NEW f \in Int, NEW g \in Int, Same(u, f), Same(w, g)
  PROVE  Same(u * w, f * g)
BY FixedModulus, CongruentMul

LEMMA SameSub ==
  ASSUME NEW u \in Int, NEW w \in Int, NEW f \in Int, NEW g \in Int, Same(u, f), Same(w, g)
  PROVE  Same(u - w, f - g)
BY FixedModulus, CongruentSub

LEMMA FromRawRing ==
  ASSUME NEW f \in Int
  PROVE  FromRaw(f) \in Ring
BY FixedModulus, ZRawIn DEF FromRaw

LEMMA RingInt ==
  ASSUME NEW f \in Ring
  PROVE  f \in Int /\ FromRaw(f) = f
BY FixedModulus, ZInt DEF FromRaw

LEMMA ZeroRing == 0 \in Ring
BY FixedModulus, ZZero

LEMMA SameRing ==
  ASSUME NEW f \in Ring, NEW g \in Ring, Same(f, g)
  PROVE  f = g
BY FixedModulus, ZSame

LEMMA Operations ==
  ASSUME NEW f \in Int, NEW g \in Int
  PROVE  /\ RAdd(f, g) \in Ring /\ RAdd(f, g) \in Int /\ Same(RAdd(f, g), f + g)
         /\ RSub(f, g) \in Ring /\ RSub(f, g) \in Int /\ Same(RSub(f, g), f - g)
         /\ RMul(f, g) \in Ring /\ RMul(f, g) \in Int /\ Same(RMul(f, g), f * g)
BY FixedModulus, ZOperations DEF RAdd, RSub, RMul

LEMMA RingHalves ==
  ASSUME NEW f \in Ring, NEW mask \in Ring
  PROVE  /\ Share(Modulus, f, mask)[1] \in Ring
         /\ Share(Modulus, f, mask)[2] \in Ring
         /\ RAdd(Share(Modulus, f, mask)[1], Share(Modulus, f, mask)[2]) = f
BY FixedModulus, HalvesRecombine DEF RAdd

LEMMA BeaverRing ==
  ASSUME NEW f \in Int, NEW g \in Int, NEW a \in Int, NEW b \in Int,
         NEW h \in Int, NEW d \in Int, NEW e \in Int,
         Same(h, a * b), Same(d, f - a), Same(e, g - b)
  PROVE  Same(d * b + e * a + h + d * e, f * g)
BY FixedModulus, BeaverIdentity

LEMMA OpenedRing ==
  ASSUME NEW f \in Ring, NEW g \in Ring, NEW m \in Ring, NEW k \in Ring
  PROVE  /\ RAdd(RSub(f, m), RSub(g, k)) \in Ring
         /\ Same(RAdd(RSub(f, m), RSub(g, k)), RAdd(f, g) - RAdd(m, k))
BY FixedModulus, OpenedFactor DEF RAdd, RSub

-----------------------------------------------------------------------------
(* Arithmetic.                                                             *)

(* What a share of a product comes to.                                     *)
LEMMA ShareComesTo ==
  ASSUME NEW p \in Party, NEW d \in Ring, NEW e \in Ring, NEW h \in Half
  PROVE  /\ ShareOfProduct(p, d, e, h) \in Ring
         /\ Same(ShareOfProduct(p, d, e, h),
                 (IF p = server THEN d * e ELSE 0) + d * h.b + e * h.a + h.ab)
<1> DEFINE f  == IF p = server THEN RMul(d, e) ELSE 0
           g  == IF p = server THEN d * e ELSE 0
           du == RMul(d, h.b)
           ev == RMul(e, h.a)
           w  == RAdd(f, du)
           z  == RAdd(w, ev)
<1>1. d \in Int /\ e \in Int /\ h.a \in Int /\ h.b \in Int /\ h.ab \in Int
  BY RingInt DEF Half
<1>2. /\ du \in Int /\ Same(du, d * h.b) /\ ev \in Int /\ Same(ev, e * h.a)
      /\ RMul(d, e) \in Int /\ Same(RMul(d, e), d * e)
  BY <1>1, Operations
<1>3. f \in Int /\ g \in Int /\ Same(f, g)
  BY <1>1, <1>2 DEF Same
<1>4. d * h.b \in Int /\ e * h.a \in Int /\ Same(h.ab, h.ab)
  BY <1>1 DEF Same
<1> HIDE DEF f, g, du, ev
<1>5. w \in Int /\ Same(w, g + d * h.b)
  <2>1. w \in Int /\ Same(w, f + du)
    BY <1>2, <1>3, Operations
  <2>2. Same(f + du, g + d * h.b)
    BY <1>2, <1>3, <1>4, SameAdd
  <2> QED BY <2>1, <2>2 DEF Same
<1> HIDE DEF w
<1>6. z \in Int /\ Same(z, g + d * h.b + e * h.a)
  <2>1. z \in Int /\ Same(z, w + ev)
    BY <1>2, <1>5, Operations
  <2>2. g + d * h.b \in Int
    BY <1>3, <1>4
  <2>3. Same(w + ev, (g + d * h.b) + e * h.a)
    BY <1>2, <1>4, <1>5, <2>2, SameAdd
  <2> QED BY <2>1, <2>3 DEF Same
<1> HIDE DEF z
<1>7. RAdd(z, h.ab) \in Ring /\ Same(RAdd(z, h.ab), g + d * h.b + e * h.a + h.ab)
  <2>1. RAdd(z, h.ab) \in Ring /\ Same(RAdd(z, h.ab), z + h.ab)
    BY <1>1, <1>6, Operations
  <2>2. g + d * h.b + e * h.a \in Int
    BY <1>3, <1>4
  <2>3. Same(z + h.ab, (g + d * h.b + e * h.a) + h.ab)
    BY <1>1, <1>4, <1>6, <2>2, SameAdd
  <2> QED BY <2>1, <2>3 DEF Same
<1>8. ShareOfProduct(p, d, e, h) = RAdd(z, h.ab)
  BY DEF ShareOfProduct, f, du, ev, w, z
<1> QED BY <1>7, <1>8 DEF g

(* The halves [s] and [h] belong to one tuple.                             *)
Fit(s, h) == RAdd(s.ab, h.ab) = RMul(RAdd(s.a, h.a), RAdd(s.b, h.b))

(* With both parties' differences and halves that fit, the shares of the   *)
(* two parties add up to the product, whichever of them is the server      *)
(* (beavertuple.rs:77-129).                                                *)
THEOREM SharesMultiply ==
  ASSUME NEW s \in Half, NEW h \in Half, Fit(s, h), server \in Party,
         NEW x0 \in Ring, NEW x1 \in Ring, NEW y0 \in Ring, NEW y1 \in Ring,
         NEW d, d = RAdd(RSub(x0, s.a), RSub(x1, h.a)),
         NEW e, e = RAdd(RSub(y0, s.b), RSub(y1, h.b))
  PROVE  RAdd(ShareOfProduct(0, d, e, s), ShareOfProduct(1, d, e, h))
           = RMul(RAdd(x0, x1), RAdd(y0, y1))
<1> DEFINE xs  == RAdd(x0, x1)
           ys  == RAdd(y0, y1)
           a  == RAdd(s.a, h.a)
           b  == RAdd(s.b, h.b)
           cab  == RAdd(s.ab, h.ab)
           f0 == IF 0 = server THEN d * e ELSE 0
           f1 == IF 1 = server THEN d * e ELSE 0
           m0 == f0 + d * s.b + e * s.a + s.ab
           m1 == f1 + d * h.b + e * h.a + h.ab
           z0 == ShareOfProduct(0, d, e, s)
           z1 == ShareOfProduct(1, d, e, h)
<1>1. /\ s.a \in Ring /\ s.b \in Ring /\ s.ab \in Ring
      /\ h.a \in Ring /\ h.b \in Ring /\ h.ab \in Ring
  BY DEF Half
<1>2. /\ s.a \in Int /\ s.b \in Int /\ s.ab \in Int
      /\ h.a \in Int /\ h.b \in Int /\ h.ab \in Int
      /\ x0 \in Int /\ x1 \in Int /\ y0 \in Int /\ y1 \in Int
  BY <1>1, RingInt
<1>3. /\ xs \in Int /\ ys \in Int
      /\ a \in Int /\ Same(a, s.a + h.a)
      /\ b \in Int /\ Same(b, s.b + h.b)
      /\ cab \in Int /\ Same(cab, s.ab + h.ab)
  BY <1>2, Operations
<1>4. d \in Ring /\ Same(d, xs - a) /\ e \in Ring /\ Same(e, ys - b)
  <2>1. /\ RAdd(RSub(x0, s.a), RSub(x1, h.a)) \in Ring
        /\ Same(RAdd(RSub(x0, s.a), RSub(x1, h.a)), RAdd(x0, x1) - RAdd(s.a, h.a))
    BY <1>1, OpenedRing
  <2>2. /\ RAdd(RSub(y0, s.b), RSub(y1, h.b)) \in Ring
        /\ Same(RAdd(RSub(y0, s.b), RSub(y1, h.b)), RAdd(y0, y1) - RAdd(s.b, h.b))
    BY <1>1, OpenedRing
  <2> QED BY <2>1, <2>2
<1>5. d \in Int /\ e \in Int
  BY <1>4, RingInt
<1>6. Same(cab, a * b)
  <2>1. cab = RMul(a, b)
    BY DEF Fit
  <2>2. Same(RMul(a, b), a * b)
    BY <1>3, Operations
  <2> QED BY <2>1, <2>2
<1>7. z0 \in Ring /\ z0 \in Int /\ Same(z0, m0) /\ z1 \in Ring /\ z1 \in Int /\ Same(z1, m1)
  <2>1. 0 \in Party /\ 1 \in Party
    BY DEF Party
  <2>2. z0 \in Ring /\ Same(z0, m0)
    BY <1>4, <2>1, ShareComesTo
  <2>3. z1 \in Ring /\ Same(z1, m1)
    BY <1>4, <2>1, ShareComesTo
  <2> QED BY <2>2, <2>3, RingInt
<1>8. m0 + m1 = d * (s.b + h.b) + e * (s.a + h.a) + (s.ab + h.ab) + d * e
  <2>1. f0 + f1 = d * e /\ f0 \in Int /\ f1 \in Int
    BY <1>5 DEF Party
  <2> HIDE DEF f0, f1
  <2>2. /\ d * (s.b + h.b) = d * s.b + d * h.b /\ d * s.b \in Int /\ d * h.b \in Int
        /\ e * (s.a + h.a) = e * s.a + e * h.a /\ e * s.a \in Int /\ e * h.a \in Int
    BY <1>2, <1>5
  <2> QED BY <1>2, <2>1, <2>2
<1>9. m0 \in Int /\ m1 \in Int
  BY <1>2, <1>5
<1> HIDE DEF xs, ys, a, b, cab, m0, m1, z0, z1
<1>10. Same(d * b + e * a + cab + d * e, xs * ys)
  BY <1>3, <1>4, <1>5, <1>6, BeaverRing
<1>11. Same(d * (s.b + h.b) + e * (s.a + h.a) + (s.ab + h.ab) + d * e, d * b + e * a + cab + d * e)
  <2>1. /\ Same(d, d) /\ Same(e, e) /\ Same(d * e, d * e) /\ d * e \in Int
        /\ Same(s.a + h.a, a) /\ Same(s.b + h.b, b) /\ Same(s.ab + h.ab, cab)
        /\ s.a + h.a \in Int /\ s.b + h.b \in Int /\ s.ab + h.ab \in Int
    BY <1>2, <1>3, <1>5 DEF Same
  <2>2. Same(d * (s.b + h.b), d * b) /\ Same(e * (s.a + h.a), e * a)
    BY <1>3, <1>5, <2>1, SameMul
  <2>3. /\ d * (s.b + h.b) \in Int /\ d * b \in Int
        /\ e * (s.a + h.a) \in Int /\ e * a \in Int
    BY <1>3, <1>5, <2>1
  <2>4. Same(d * (s.b + h.b) + e * (s.a + h.a), d * b + e * a)
    BY <2>2, <2>3, SameAdd
  <2>5. Same(d * (s.b + h.b) + e * (s.a + h.a) + (s.ab + h.ab), d * b + e * a + cab)
    BY <1>3, <2>1, <2>3, <2>4, SameAdd
  <2> QED BY <1>3, <2>1, <2>3, <2>5, SameAdd
<1>12. Same(z0 + z1, m0 + m1)
  BY <1>7, <1>9, SameAdd
<1>13. /\ RAdd(z0, z1) \in Ring /\ Same(RAdd(z0, z1), z0 + z1)
       /\ RMul(xs, ys) \in Ring /\ Same(RMul(xs, ys), xs * ys)
  BY <1>3, <1>7, Operations
<1>14. Same(RAdd(z0, z1), RMul(xs, ys))
  BY <1>8, <1>10, <1>11, <1>12, <1>13 DEF Same
<1>15. RAdd(z0, z1) = RMul(xs, ys)
  BY <1>13, <1>14, SameRing
<1> QED BY <1>15 DEF z0, z1, xs, ys
-----------------------------------------------------------------------------
(* The inductive invariant.                                                *)

(* The halves the parties hold belong to one tuple; using it changes only  *)
(* the differences stored in it.                                           *)
HalvesBelong == Fit(tuple[0], tuple[1])

(* A party opens one product at a time and closes it with the peer's help. *)
OneAtATime ==
  \A p \in Party :
    /\ Len(sent[p]) = Len(given[p])
    /\ Len(product[p]) \in {Len(given[p]), Len(given[p]) - 1}
    /\ Len(product[p]) <= Len(sent[Peer(p)])

(* What a party opened for product k are the differences of its factors.   *)
OpenedRight(p, k) ==
  /\ sent[p][k][1] = RSub(given[p][k][1], tuple[p].a)
  /\ sent[p][k][2] = RSub(given[p][k][2], tuple[p].b)

(* Until the product is closed the tuple stores what was opened for it.    *)
StoredRight(p) ==
  Len(product[p]) < Len(given[p]) =>
    /\ tuple[p].da = sent[p][Len(given[p])][1]
    /\ tuple[p].db = sent[p][Len(given[p])][2]

(* A share of product k is made of both parties' differences for it.       *)
ClosedRight(p, k) ==
  product[p][k] = ShareOfProduct(p, RAdd(sent[0][k][1], sent[1][k][1]),
                                    RAdd(sent[0][k][2], sent[1][k][2]), tuple[p])

TupleInv ==
  /\ TupleTypeOK
  /\ HalvesBelong
  /\ OneAtATime
  /\ \A p \in Party : \A k \in 1 .. Len(given[p]) : OpenedRight(p, k)
  /\ \A p \in Party : StoredRight(p)
  /\ \A p \in Party : \A k \in 1 .. Len(product[p]) : ClosedRight(p, k)

-----------------------------------------------------------------------------
(* The sum does not depend on the order.                                   *)
LEMMA SumEitherWay ==
  ASSUME NEW m \in Ring, NEW n \in Ring
  PROVE  RAdd(m, n) = RAdd(n, m)
<1>1. m \in Int /\ n \in Int
  BY RingInt
<1>2. m + n = n + m
  BY <1>1
<1> QED BY <1>2 DEF RAdd, ZAdd

LEMMA TupleInvInit == TupleInit => TupleInv
<1> SUFFICES ASSUME TupleInit PROVE TupleInv
  OBVIOUS
<1>1. PICK w \in Draws : tuple = [p \in Party |-> Generated(p, w)]
  BY DEF TupleInit
<1>2. w[1] \in Ring /\ w[2] \in Ring /\ w[3] \in Ring /\ w[4] \in Ring /\ w[5] \in Ring
  BY TupleAssumption
<1> DEFINE ab == RMul(RAdd(w[1], w[3]), RAdd(w[2], w[4]))
<1>3. ab \in Ring /\ RSub(ab, w[5]) \in Ring /\ RAdd(w[5], RSub(ab, w[5])) = ab
  <2>1. RAdd(w[1], w[3]) \in Int /\ RAdd(w[2], w[4]) \in Int
    BY <1>2, RingInt, Operations
  <2>2. ab \in Ring
    BY <2>1, Operations
  <2>3. /\ Share(Modulus, ab, w[5])[2] \in Ring
        /\ RAdd(Share(Modulus, ab, w[5])[1], Share(Modulus, ab, w[5])[2]) = ab
    BY <1>2, <2>2, RingHalves
  <2> QED BY <2>2, <2>3 DEF Share, RSub
<1> HIDE DEF ab
<1>4. /\ tuple[0] = [a |-> w[1], b |-> w[2], ab |-> w[5], da |-> 0, db |-> 0]
      /\ tuple[1] = [a |-> w[3], b |-> w[4], ab |-> RSub(ab, w[5]), da |-> 0, db |-> 0]
  BY <1>1 DEF Generated, Party, ab
<1>5. TupleTypeOK
  <2>1. 0 \in Ring
    BY ZeroRing
  <2>2. tuple[0] \in Half /\ tuple[1] \in Half
    BY <1>2, <1>3, <1>4, <2>1 DEF Half
  <2>3. tuple \in [Party -> Half]
    BY <1>1, <2>2 DEF Party
  <2> QED BY <2>3 DEF TupleTypeOK, TupleInit
<1>6. HalvesBelong
  BY <1>3, <1>4 DEF HalvesBelong, Fit, ab
<1>7. \A p \in Party : given[p] = <<>> /\ sent[p] = <<>> /\ product[p] = <<>>
  BY DEF TupleInit
<1>8. OneAtATime
  BY <1>7, PeerOf DEF OneAtATime
<1> QED BY <1>5, <1>6, <1>7, <1>8 DEF TupleInv, StoredRight

-----------------------------------------------------------------------------
(* Opening a product.                                                      *)
LEMMA OpenKeeps ==
  ASSUME TupleInv, NEW p \in Party, OpenProduct(p)
  PROVE  TupleInv'
<1>1. PICK f \in Factors :
        LET d == <<RSub(f[1], tuple[p].a), RSub(f[2], tuple[p].b)>>
        IN  /\ given' = [given EXCEPT ![p] = Append(@, f)]
            /\ tuple' = [tuple EXCEPT ![p].da = d[1], ![p].db = d[2]]
            /\ sent'  = [sent EXCEPT ![p] = Append(@, d)]
  BY DEF OpenProduct
<1> DEFINE d1 == RSub(f[1], tuple[p].a)
           d2 == RSub(f[2], tuple[p].b)
           n  == Len(given[p])
<1>2. Len(product[p]) = Len(given[p]) /\ server' = server /\ product' = product
  BY DEF OpenProduct
<1>3. /\ server \in Party
      /\ tuple \in [Party -> Half]
      /\ given \in [Party -> Seq(Ring \X Ring)]
      /\ sent \in [Party -> Seq(Ring \X Ring)]
      /\ product \in [Party -> Seq(Ring)]
  BY DEF TupleInv, TupleTypeOK
<1>4. f \in Ring \X Ring /\ f[1] \in Ring /\ f[2] \in Ring
  BY TupleAssumption
<1>5. d1 \in Ring /\ d2 \in Ring /\ <<d1, d2>> \in Ring \X Ring
  <2>1. tuple[p].a \in Ring /\ tuple[p].b \in Ring
    BY <1>3 DEF Half
  <2> QED BY <1>4, <2>1, RingInt, Operations
<1>6. /\ given' = [given EXCEPT ![p] = Append(given[p], f)]
      /\ sent' = [sent EXCEPT ![p] = Append(sent[p], <<d1, d2>>)]
      /\ tuple' = [tuple EXCEPT ![p] = [tuple[p] EXCEPT !.da = d1, !.db = d2]]
  BY <1>1, <1>3
<1> HIDE DEF d1, d2
<1>7. /\ given'[p] = Append(given[p], f) /\ sent'[p] = Append(sent[p], <<d1, d2>>)
      /\ tuple'[p] = [tuple[p] EXCEPT !.da = d1, !.db = d2]
      /\ \A i \in Party : i # p =>
           given'[i] = given[i] /\ sent'[i] = sent[i] /\ tuple'[i] = tuple[i]
  BY <1>3, <1>6
<1>8. /\ tuple[p] \in Half
      /\ tuple'[p] \in Half /\ tuple'[p].a = tuple[p].a /\ tuple'[p].b = tuple[p].b
      /\ tuple'[p].ab = tuple[p].ab /\ tuple'[p].da = d1 /\ tuple'[p].db = d2
  <2>1. tuple[p] \in Half
    BY <1>3
  <2> QED BY <1>5, <1>7, <2>1 DEF Half
<1>9. /\ \A i \in Party : Len(sent[i]) = Len(given[i])
      /\ n \in Nat /\ Len(sent[p]) = n /\ Len(given'[p]) = n + 1 /\ Len(sent'[p]) = n + 1
      /\ \A k \in 1 .. n : given'[p][k] = given[p][k] /\ sent'[p][k] = sent[p][k]
      /\ given'[p][n + 1] = f /\ sent'[p][n + 1] = <<d1, d2>>
  BY <1>3, <1>4, <1>5, <1>7 DEF TupleInv, OneAtATime
<1>10. TupleTypeOK'
  <2>1. given'[p] \in Seq(Ring \X Ring) /\ sent'[p] \in Seq(Ring \X Ring)
    BY <1>3, <1>4, <1>5, <1>7
  <2>2. given' \in [Party -> Seq(Ring \X Ring)] /\ sent' \in [Party -> Seq(Ring \X Ring)]
    BY <1>3, <1>6, <1>7, <2>1
  <2>3. tuple' \in [Party -> Half]
    BY <1>3, <1>6, <1>7, <1>8
  <2> QED BY <1>2, <1>3, <2>2, <2>3 DEF TupleTypeOK
<1>11. \A i \in Party : /\ tuple'[i].a = tuple[i].a
                         /\ tuple'[i].b = tuple[i].b
                         /\ tuple'[i].ab = tuple[i].ab
  BY <1>7, <1>8
<1>12. HalvesBelong'
  <2>1. 0 \in Party /\ 1 \in Party
    BY DEF Party
  <2>2. Fit(tuple[0], tuple[1])
    BY DEF TupleInv, HalvesBelong
  <2> QED BY <1>11, <2>1, <2>2 DEF HalvesBelong, Fit
<1>13. OneAtATime'
  <2> SUFFICES ASSUME NEW i \in Party
               PROVE  /\ Len(sent'[i]) = Len(given'[i])
                      /\ Len(product[i]) \in {Len(given'[i]), Len(given'[i]) - 1}
                      /\ Len(product[i]) <= Len(sent'[Peer(i)])
    BY <1>2 DEF OneAtATime
  <2>1. /\ Len(sent[i]) = Len(given[i])
        /\ Len(product[i]) \in {Len(given[i]), Len(given[i]) - 1}
        /\ Len(product[i]) <= Len(sent[Peer(i)])
        /\ Len(product[i]) \in Nat /\ Len(sent[Peer(i)]) \in Nat
        /\ Peer(i) \in Party /\ Peer(i) # i
    BY <1>3, PeerOf DEF TupleInv, OneAtATime
  <2>2. CASE i = p
    BY <1>2, <1>7, <1>9, <2>1, <2>2
  <2>3. CASE i # p
    <3>1. Peer(i) = p
      BY <2>3 DEF Party, Peer
    <3> QED BY <1>7, <1>9, <2>1, <2>3, <3>1
  <2> QED BY <2>2, <2>3
<1>14. \A i \in Party : \A k \in 1 .. Len(given'[i]) : OpenedRight(i, k)'
  <2> SUFFICES ASSUME NEW i \in Party, NEW k \in 1 .. Len(given'[i])
               PROVE  /\ sent'[i][k][1] = RSub(given'[i][k][1], tuple'[i].a)
                      /\ sent'[i][k][2] = RSub(given'[i][k][2], tuple'[i].b)
    BY DEF OpenedRight
  <2>1. \A j \in 1 .. Len(given[i]) :
          /\ sent[i][j][1] = RSub(given[i][j][1], tuple[i].a)
          /\ sent[i][j][2] = RSub(given[i][j][2], tuple[i].b)
    BY DEF TupleInv, OpenedRight
  <2>2. CASE i # p
    BY <1>7, <2>1, <2>2
  <2>3. CASE i = p /\ k \in 1 .. n
    BY <1>8, <1>9, <2>1, <2>3
  <2>4. CASE i = p /\ k = n + 1
    BY <1>8, <1>9, <2>4 DEF d1, d2
  <2>5. i = p => k \in 1 .. n \/ k = n + 1
    BY <1>9
  <2> QED BY <2>2, <2>3, <2>4, <2>5
<1>15. \A i \in Party : StoredRight(i)'
  <2> SUFFICES ASSUME NEW i \in Party, Len(product[i]) < Len(given'[i])
               PROVE  /\ tuple'[i].da = sent'[i][Len(given'[i])][1]
                      /\ tuple'[i].db = sent'[i][Len(given'[i])][2]
    BY <1>2 DEF StoredRight
  <2>1. CASE i = p
    BY <1>8, <1>9, <2>1
  <2>2. CASE i # p
    BY <1>7, <2>2 DEF TupleInv, StoredRight
  <2> QED BY <2>1, <2>2
<1>16. \A i \in Party : \A k \in 1 .. Len(product[i]) : ClosedRight(i, k)'
  <2> SUFFICES ASSUME NEW i \in Party, NEW k \in 1 .. Len(product[i])
               PROVE  ClosedRight(i, k)'
    BY <1>2
  <2>1. /\ Len(product[i]) <= Len(sent[i]) /\ Len(product[i]) <= Len(sent[Peer(i)])
        /\ Len(product[i]) \in Nat /\ Len(sent[i]) \in Nat /\ Len(sent[Peer(i)]) \in Nat
    BY <1>3, PeerOf DEF TupleInv, OneAtATime
  <2>2. \A j \in Party : k \in 1 .. Len(sent[j])
    BY <2>1 DEF Party, Peer
  <2>3. \A j \in Party : sent'[j][k] = sent[j][k]
    BY <1>7, <1>9, <2>2
  <2>4. product[i][k] = ShareOfProduct(i, RAdd(sent[0][k][1], sent[1][k][1]),
                                          RAdd(sent[0][k][2], sent[1][k][2]), tuple[i])
    BY DEF TupleInv, ClosedRight
  <2>5. 0 \in Party /\ 1 \in Party
    BY DEF Party
  <2> QED BY <1>2, <1>11, <2>3, <2>4, <2>5 DEF ClosedRight, ShareOfProduct
<1> QED BY <1>2, <1>10, <1>12, <1>13, <1>14, <1>15, <1>16 DEF TupleInv
(* Closing one: either way it is closed with the differences of this       *)
(* product, which is what the invariant is for.                            *)
LEMMA CloseAdds ==
  ASSUME TupleInv, NEW p \in Party, CloseStored(p) \/ CloseSummed(p)
  PROVE  LET k == Len(product[p]) + 1
             d == RAdd(sent[0][k][1], sent[1][k][1])
             e == RAdd(sent[0][k][2], sent[1][k][2])
         IN  /\ Closed(p, d, e)
             /\ k = Len(given[p]) /\ k <= Len(sent[Peer(p)])
             /\ d \in Ring /\ e \in Ring
<1> DEFINE k == Len(product[p]) + 1
           q == Peer(p)
           d == RAdd(sent[0][k][1], sent[1][k][1])
           e == RAdd(sent[0][k][2], sent[1][k][2])
<1>1. /\ sent \in [Party -> Seq(Ring \X Ring)] /\ given \in [Party -> Seq(Ring \X Ring)]
      /\ product \in [Party -> Seq(Ring)] /\ q \in Party
  BY PeerOf DEF TupleInv, TupleTypeOK
<1>2. Len(product[p]) < Len(given[p]) /\ Len(product[p]) < Len(sent[q])
  BY DEF CloseStored, CloseSummed, CanClose
<1>3. /\ Len(product[p]) \in Nat /\ Len(given[p]) \in Nat /\ Len(sent[q]) \in Nat
      /\ Len(sent[p]) = Len(given[p])
      /\ Len(product[p]) \in {Len(given[p]), Len(given[p]) - 1}
  BY <1>1 DEF TupleInv, OneAtATime
<1>4. k = Len(given[p]) /\ k <= Len(sent[q]) /\ k \in 1 .. Len(sent[p]) /\ k \in 1 .. Len(sent[q])
  BY <1>2, <1>3
<1> HIDE DEF k
<1>5. sent[p][k] \in Ring \X Ring /\ sent[q][k] \in Ring \X Ring
  BY <1>1, <1>4
<1>6. /\ sent[p][k][1] \in Ring /\ sent[p][k][2] \in Ring
      /\ sent[q][k][1] \in Ring /\ sent[q][k][2] \in Ring
  BY <1>5
<1>7. /\ RAdd(sent[p][k][1], sent[q][k][1]) = d
      /\ RAdd(sent[p][k][2], sent[q][k][2]) = e
  <2>1. CASE p = 0
    BY <2>1 DEF Peer
  <2>2. CASE p = 1
    <3>1. q = 0
      BY <2>2 DEF Peer
    <3> QED BY <1>6, <2>2, <3>1, SumEitherWay
  <2> QED BY <2>1, <2>2 DEF Party
<1>8. d \in Ring /\ e \in Ring
  BY <1>6, <1>7, RingInt, Operations
<1>9. tuple[p].da = sent[p][k][1] /\ tuple[p].db = sent[p][k][2]
  BY <1>2, <1>4 DEF TupleInv, StoredRight
<1> HIDE DEF d, e, q
<1>10. Closed(p, d, e)
  <2>1. CASE CloseStored(p)
    <3>1. Closed(p, RAdd(tuple[p].da, sent[q][k][1]), RAdd(tuple[p].db, sent[q][k][2]))
      BY <2>1 DEF CloseStored, k, q
    <3> QED BY <1>7, <1>9, <3>1
  <2>2. CASE CloseSummed(p)
    <3>1. Closed(p, RAdd(sent[p][k][1], sent[q][k][1]), RAdd(sent[p][k][2], sent[q][k][2]))
      BY <2>2 DEF CloseSummed, k, q
    <3> QED BY <1>7, <3>1
  <2> QED BY <2>1, <2>2
<1> QED BY <1>4, <1>8, <1>10 DEF k, d, e, q

LEMMA CloseKeeps ==
  ASSUME TupleInv, NEW p \in Party, CloseStored(p) \/ CloseSummed(p)
  PROVE  TupleInv'
<1> DEFINE k == Len(product[p]) + 1
           d == RAdd(sent[0][k][1], sent[1][k][1])
           e == RAdd(sent[0][k][2], sent[1][k][2])
           z == ShareOfProduct(p, d, e, tuple[p])
<1>1. /\ Closed(p, d, e) /\ k = Len(given[p]) /\ k <= Len(sent[Peer(p)])
      /\ d \in Ring /\ e \in Ring
  BY CloseAdds
<1>2. /\ server \in Party
      /\ tuple \in [Party -> Half]
      /\ product \in [Party -> Seq(Ring)]
      /\ Len(product[p]) \in Nat
  BY DEF TupleInv, TupleTypeOK
<1>3. tuple[p] \in Half
  BY <1>2
<1>4. z \in Ring
  BY <1>1, <1>3, ShareComesTo
<1> HIDE DEF z
<1>5. /\ server' = server /\ given' = given /\ sent' = sent
      /\ product' = [product EXCEPT ![p] = Append(product[p], z)]
      /\ tuple' = [tuple EXCEPT ![p] = [tuple[p] EXCEPT !.da = d, !.db = e]]
  BY <1>1, <1>2 DEF Closed, z
<1>6. /\ product'[p] = Append(product[p], z)
      /\ tuple'[p] = [tuple[p] EXCEPT !.da = d, !.db = e]
      /\ \A i \in Party : i # p => product'[i] = product[i] /\ tuple'[i] = tuple[i]
  BY <1>2, <1>5
<1> HIDE DEF d, e
<1>7. tuple'[p] \in Half
  BY <1>1, <1>3, <1>6 DEF Half
<1>8. \A i \in Party : /\ tuple'[i].a = tuple[i].a
                        /\ tuple'[i].b = tuple[i].b
                        /\ tuple'[i].ab = tuple[i].ab
  BY <1>3, <1>6 DEF Half
<1>9. /\ Len(product'[p]) = k /\ product'[p][k] = z
      /\ \A j \in 1 .. Len(product[p]) : product'[p][j] = product[p][j]
  BY <1>2, <1>4, <1>6
<1>10. TupleTypeOK'
  <2>1. product'[p] \in Seq(Ring)
    BY <1>2, <1>4, <1>6
  <2>2. product' \in [Party -> Seq(Ring)] /\ tuple' \in [Party -> Half]
    BY <1>2, <1>5, <1>6, <1>7, <2>1
  <2> QED BY <1>5, <2>2 DEF TupleTypeOK, TupleInv
<1>11. HalvesBelong'
  <2>1. 0 \in Party /\ 1 \in Party
    BY DEF Party
  <2>2. Fit(tuple[0], tuple[1])
    BY DEF TupleInv, HalvesBelong
  <2> QED BY <1>8, <2>1, <2>2 DEF HalvesBelong, Fit
<1>12. OneAtATime'
  <2> SUFFICES ASSUME NEW i \in Party
               PROVE  /\ Len(sent[i]) = Len(given[i])
                      /\ Len(product'[i]) \in {Len(given[i]), Len(given[i]) - 1}
                      /\ Len(product'[i]) <= Len(sent[Peer(i)])
    BY <1>5 DEF OneAtATime
  <2>1. CASE i = p
    BY <1>1, <1>9, <2>1 DEF TupleInv, OneAtATime
  <2>2. CASE i # p
    BY <1>6, <2>2 DEF TupleInv, OneAtATime
  <2> QED BY <2>1, <2>2
<1>13. \A i \in Party : \A j \in 1 .. Len(given'[i]) : OpenedRight(i, j)'
  BY <1>5, <1>8 DEF TupleInv, OpenedRight
<1>14. \A i \in Party : StoredRight(i)'
  <2> SUFFICES ASSUME NEW i \in Party, Len(product'[i]) < Len(given[i])
               PROVE  /\ tuple'[i].da = sent[i][Len(given[i])][1]
                      /\ tuple'[i].db = sent[i][Len(given[i])][2]
    BY <1>5 DEF StoredRight
  <2>1. i # p
    BY <1>1, <1>2, <1>9
  <2> QED BY <1>6, <2>1 DEF TupleInv, StoredRight
<1>15. \A i \in Party : \A j \in 1 .. Len(product'[i]) : ClosedRight(i, j)'
  <2> SUFFICES ASSUME NEW i \in Party, NEW j \in 1 .. Len(product'[i])
               PROVE  ClosedRight(i, j)'
    OBVIOUS
  <2> DEFINE dd == RAdd(sent[0][j][1], sent[1][j][1])
             de == RAdd(sent[0][j][2], sent[1][j][2])
  <2>1. product'[i][j] = ShareOfProduct(i, dd, de, tuple[i])
    <3>1. CASE i = p /\ j = k
      BY <1>9, <3>1 DEF z, d, e
    <3>2. CASE i # p \/ j # k
      <4>1. j \in 1 .. Len(product[i]) /\ product'[i][j] = product[i][j]
        BY <1>2, <1>6, <1>9, <3>2
      <4> QED BY <4>1 DEF TupleInv, ClosedRight
    <3> QED BY <3>1, <3>2
  <2> QED BY <1>5, <1>8, <2>1 DEF ClosedRight, ShareOfProduct
<1> QED BY <1>10, <1>11, <1>12, <1>13, <1>14, <1>15 DEF TupleInv

-----------------------------------------------------------------------------
LEMMA TupleInvStep == TupleInv /\ [TupleNext]_tupleVars => TupleInv'
<1> SUFFICES ASSUME TupleInv, [TupleNext]_tupleVars PROVE TupleInv'
  OBVIOUS
<1>1. ASSUME NEW p \in Party, OpenProduct(p) PROVE TupleInv'
  BY <1>1, OpenKeeps
<1>2. ASSUME NEW p \in Party, CloseStored(p) PROVE TupleInv'
  BY <1>2, CloseKeeps
<1>3. ASSUME NEW p \in Party, CloseSummed(p) PROVE TupleInv'
  BY <1>3, CloseKeeps
<1>4. ASSUME UNCHANGED tupleVars PROVE TupleInv'
  BY <1>4 DEF tupleVars, TupleInv, TupleTypeOK, HalvesBelong, Fit, OneAtATime,
       OpenedRight, StoredRight, ClosedRight, ShareOfProduct
<1> QED BY <1>1, <1>2, <1>3, <1>4 DEF TupleNext, TupleStep, TupleDone

LEMMA TupleInvGives == TupleInv => ProductsRecombine
<1> SUFFICES ASSUME TupleInv,
                    NEW k \in 1 .. Products,
                    \A p \in Party : k <= Len(product[p])
             PROVE  RAdd(product[0][k], product[1][k])
                      = RMul(RAdd(given[0][k][1], given[1][k][1]),
                             RAdd(given[0][k][2], given[1][k][2]))
  BY DEF ProductsRecombine
<1> DEFINE x0 == given[0][k][1]
           x1 == given[1][k][1]
           y0 == given[0][k][2]
           y1 == given[1][k][2]
           d  == RAdd(sent[0][k][1], sent[1][k][1])
           e  == RAdd(sent[0][k][2], sent[1][k][2])
<1>1. 0 \in Party /\ 1 \in Party /\ \A p \in Party : p = 0 \/ p = 1
  BY DEF Party
<1>2. /\ server \in Party
      /\ tuple[0] \in Half /\ tuple[1] \in Half /\ Fit(tuple[0], tuple[1])
  BY <1>1 DEF TupleInv, TupleTypeOK, HalvesBelong
<1>3. \A p \in Party : /\ given[p] \in Seq(Ring \X Ring) /\ Len(given[p]) \in Nat
                        /\ Len(product[p]) \in Nat
                        /\ k \in 1 .. Len(product[p]) /\ k \in 1 .. Len(given[p])
  <2> SUFFICES ASSUME NEW p \in Party
               PROVE  /\ given[p] \in Seq(Ring \X Ring) /\ Len(given[p]) \in Nat
                      /\ Len(product[p]) \in Nat
                      /\ k \in 1 .. Len(product[p]) /\ k \in 1 .. Len(given[p])
    OBVIOUS
  <2>1. given[p] \in Seq(Ring \X Ring) /\ product[p] \in Seq(Ring)
    BY DEF TupleInv, TupleTypeOK
  <2>2. Len(product[p]) \in {Len(given[p]), Len(given[p]) - 1}
    BY DEF TupleInv, OneAtATime
  <2>3. k \in Nat /\ 1 <= k /\ k <= Len(product[p])
    BY TupleAssumption
  <2> QED BY <2>1, <2>2, <2>3
<1>4. x0 \in Ring /\ x1 \in Ring /\ y0 \in Ring /\ y1 \in Ring
  <2>1. given[0][k] \in Ring \X Ring /\ given[1][k] \in Ring \X Ring
    BY <1>1, <1>3
  <2> QED BY <2>1
<1>5. /\ sent[0][k][1] = RSub(x0, tuple[0].a) /\ sent[0][k][2] = RSub(y0, tuple[0].b)
      /\ sent[1][k][1] = RSub(x1, tuple[1].a) /\ sent[1][k][2] = RSub(y1, tuple[1].b)
  BY <1>1, <1>3 DEF TupleInv, OpenedRight
<1>6. /\ d = RAdd(RSub(x0, tuple[0].a), RSub(x1, tuple[1].a))
      /\ e = RAdd(RSub(y0, tuple[0].b), RSub(y1, tuple[1].b))
  BY <1>5
<1>7. /\ product[0][k] = ShareOfProduct(0, d, e, tuple[0])
      /\ product[1][k] = ShareOfProduct(1, d, e, tuple[1])
  BY <1>1, <1>3 DEF TupleInv, ClosedRight
<1> HIDE DEF d, e, x0, x1, y0, y1
<1>8. RAdd(ShareOfProduct(0, d, e, tuple[0]), ShareOfProduct(1, d, e, tuple[1]))
        = RMul(RAdd(x0, x1), RAdd(y0, y1))
  BY <1>2, <1>4, <1>6, SharesMultiply
<1> QED BY <1>7, <1>8 DEF x0, x1, y0, y1

(* The two halves and everything opened and closed with them keep their    *)
(* shapes, ring elements throughout.                                       *)
THEOREM TupleKeepsType == TupleSpec => []TupleTypeOK
<1>1. TupleInv => TupleTypeOK
  BY DEF TupleInv
<1> QED BY <1>1, TupleInvInit, TupleInvStep, PTL DEF TupleSpec

(* A tuple of libfss can be used for one product after the other: the      *)
(* shares of each recombine, for every ring, whatever it was drawn from,   *)
(* whoever is the server, whichever way each party closes and although one *)
(* may be a product ahead (beavertuple.rs:33-129).                         *)
THEOREM ProductsAlwaysRecombine == TupleSpec => []ProductsRecombine
<1>1. TupleInit => TupleInv
  BY TupleInvInit
<1>2. TupleInv /\ [TupleNext]_tupleVars => TupleInv'
  BY TupleInvStep
<1>3. TupleInv => ProductsRecombine
  BY TupleInvGives
<1> QED BY <1>1, <1>2, <1>3, PTL DEF TupleSpec


-----------------------------------------------------------------------------
(* Where addition and subtraction of the ring wrap.                        *)
LEMMA PlusIs ==
  ASSUME NEW a \in Number, NEW b \in Number
  PROVE  Plus(a, b) = IF a + b < Modulus THEN a + b ELSE a + b - Modulus
<1>1. a \in Int /\ b \in Int /\ a + b \in Int /\ 1 \in Int /\ 0 \in Int
  BY IntervalAssumption, RingAssumption DEF Number
<1>2. CASE a + b < Modulus
  <2>1. a + b \in 0 .. Modulus - 1
    BY <1>1, <1>2, RingAssumption DEF Number
  <2>2. (Modulus * 0 + (a + b)) % Modulus = a + b
    BY <1>1, <2>1, Remainder, RingAssumption
  <2>3. Modulus * 0 + (a + b) = a + b
    BY <1>1, RingAssumption
  <2> QED BY <1>2, <2>2, <2>3 DEF Plus
<1>3. CASE ~(a + b < Modulus)
  <2>1. a + b - Modulus \in 0 .. Modulus - 1
    BY <1>1, <1>3, RingAssumption DEF Number
  <2>2. (Modulus * 1 + (a + b - Modulus)) % Modulus = a + b - Modulus
    BY <1>1, <2>1, Remainder, RingAssumption
  <2>3. Modulus * 1 + (a + b - Modulus) = a + b
    BY <1>1, RingAssumption
  <2> QED BY <1>3, <2>2, <2>3 DEF Plus
<1> QED BY <1>2, <1>3

LEMMA MinusIs ==
  ASSUME NEW a \in Number, NEW b \in Number
  PROVE  Minus(a, b) = IF a < b THEN a - b + Modulus ELSE a - b
<1>1. a \in Int /\ b \in Int /\ a - b \in Int /\ -1 \in Int /\ 0 \in Int
  BY IntervalAssumption, RingAssumption DEF Number
<1>2. CASE a < b
  <2>1. a - b + Modulus \in 0 .. Modulus - 1
    BY <1>1, <1>2, RingAssumption DEF Number
  <2>2. (Modulus * (-1) + (a - b + Modulus)) % Modulus = a - b + Modulus
    BY <1>1, <2>1, Remainder, RingAssumption
  <2>3. Modulus * (-1) + (a - b + Modulus) = a - b
    BY <1>1, RingAssumption
  <2> QED BY <1>2, <2>2, <2>3 DEF Minus
<1>3. CASE ~(a < b)
  <2>1. a - b \in 0 .. Modulus - 1
    BY <1>1, <1>3, RingAssumption DEF Number
  <2>2. (Modulus * 0 + (a - b)) % Modulus = a - b
    BY <1>1, <2>1, Remainder, RingAssumption
  <2>3. Modulus * 0 + (a - b) = a - b
    BY <1>1, RingAssumption
  <2> QED BY <1>3, <2>2, <2>3 DEF Minus
<1> QED BY <1>2, <1>3

LEMMA NumberFacts ==
  ASSUME NEW a \in Number, NEW b \in Number
  PROVE  Plus(a, b) \in Number /\ Minus(a, b) \in Number
<1>1. /\ a \in Int /\ 0 <= a /\ a < Modulus
      /\ b \in Int /\ 0 <= b /\ b < Modulus
  BY RingAssumption DEF Number
<1>2. Plus(a, b) \in Int /\ 0 <= Plus(a, b) /\ Plus(a, b) < Modulus
  BY <1>1, PlusIs, RingAssumption
<1>3. Minus(a, b) \in Int /\ 0 <= Minus(a, b) /\ Minus(a, b) < Modulus
  BY <1>1, MinusIs, RingAssumption
<1> QED BY <1>2, <1>3, RingAssumption DEF Number

-----------------------------------------------------------------------------
(* The comparisons of the gate over plain integers: [lo] and [hi] are the  *)
(* masked bounds, [bey] is the number beyond the upper bound, [atl] and    *)
(* [ath] are the points compared with [s], all of them where they wrap.    *)
LEMMA SevenComparisons ==
  ASSUME NEW n \in Int, n > 1,
         NEW mask \in 0 .. n - 1, NEW l \in 0 .. n - 1, NEW h \in 0 .. n - 1,
         NEW m \in 0 .. n - 1,
         NEW lo \in Int, lo = IF l + mask < n THEN l + mask ELSE l + mask - n,
         NEW hi \in Int, hi = IF h + mask < n THEN h + mask ELSE h + mask - n,
         NEW hi1 \in Int, hi1 = IF hi + 1 < n THEN hi + 1 ELSE hi + 1 - n,
         NEW bey \in Int, bey = IF h + 1 < n THEN h + 1 ELSE h + 1 - n,
         NEW a \in Int, a = IF m + (n - 1) < n THEN m + (n - 1) ELSE m + (n - 1) - n,
         NEW atl \in Int, atl = IF a < l THEN a - l + n ELSE a - l,
         NEW ath \in Int, ath = IF a < bey THEN a - bey + n ELSE a - bey,
         NEW s \in Int, s = IF mask < 1 THEN mask - 1 + n ELSE mask - 1,
         NEW val \in Int, val = IF m < mask THEN m - mask + n ELSE m - mask
  PROVE  (IF lo > hi THEN 1 ELSE 0) - (IF lo > l THEN 1 ELSE 0)
           + (IF hi1 > bey THEN 1 ELSE 0) + (IF hi = n - 1 THEN 1 ELSE 0)
           + (IF ath < s THEN 1 ELSE 0) - (IF atl < s THEN 1 ELSE 0)
           + (IF m > l THEN 1 ELSE 0) - (IF m > bey THEN 1 ELSE 0)
         = IF (IF l <= h THEN l <= val /\ val <= h ELSE l <= val \/ val <= h) THEN 1 ELSE 0
BY SMTT(120)

-----------------------------------------------------------------------------
(* The two points at which the secret comparison is evaluated.             *)
AtLow  == Minus(Plus(x, Modulus - 1), low)
AtHigh == Minus(Plus(x, Modulus - 1), BeyondHigh)

(* What the comparisons of the dealer and of the parties add up to.        *)
Total ==
  Correction + Bit(AtHigh < Minus(r, 1)) - Bit(AtLow < Minus(r, 1))
    + Bit(x > low) - Bit(x > BeyondHigh)

(* The comparisons add up to the answer, wherever the ring wraps.          *)
LEMMA TotalIsContainment ==
  ASSUME r \in Number, low \in Number, high \in Number, x \in Number
  PROVE  Total = Bit(Contains(Minus(x, r)))
<1> DEFINE top == Modulus - 1
           a   == Plus(x, top)
           lo  == Plus(low, r)
           hi  == Plus(high, r)
           hi1 == Plus(hi, 1)
           bey == Plus(high, 1)
           atl == Minus(a, low)
           ath == Minus(a, bey)
           s   == Minus(r, 1)
           val == Minus(x, r)
<1>1. /\ Modulus \in Int /\ Modulus > 1
      /\ r \in Int /\ 0 <= r /\ r < Modulus
      /\ low \in Int /\ 0 <= low /\ low < Modulus
      /\ high \in Int /\ 0 <= high /\ high < Modulus
      /\ x \in Int /\ 0 <= x /\ x < Modulus
  BY IntervalAssumption, RingAssumption DEF Number
<1>2. 1 \in Number /\ top \in Number
  BY IntervalAssumption, RingAssumption DEF Number
<1>3. a = IF x + top < Modulus THEN x + top ELSE x + top - Modulus
  BY <1>2, PlusIs
<1>4. lo = IF low + r < Modulus THEN low + r ELSE low + r - Modulus
  BY PlusIs
<1>5. hi = IF high + r < Modulus THEN high + r ELSE high + r - Modulus
  BY PlusIs
<1>6. bey = IF high + 1 < Modulus THEN high + 1 ELSE high + 1 - Modulus
  BY <1>2, PlusIs
<1>7. /\ a \in Number /\ lo \in Number /\ hi \in Number /\ bey \in Number
      /\ s \in Number /\ val \in Number
  BY <1>2, NumberFacts
<1>8. hi1 = IF hi + 1 < Modulus THEN hi + 1 ELSE hi + 1 - Modulus
  BY <1>2, <1>7, PlusIs
<1>9. atl = IF a < low THEN a - low + Modulus ELSE a - low
  BY <1>7, MinusIs
<1>10. ath = IF a < bey THEN a - bey + Modulus ELSE a - bey
  BY <1>7, MinusIs
<1>11. s = IF r < 1 THEN r - 1 + Modulus ELSE r - 1
  BY <1>2, MinusIs
<1>12. val = IF x < r THEN x - r + Modulus ELSE x - r
  BY MinusIs
<1>13. Total = Bit(lo > hi) - Bit(lo > low) + Bit(hi1 > bey) + Bit(hi = Modulus - 1)
                 + Bit(ath < s) - Bit(atl < s) + Bit(x > low) - Bit(x > bey)
  BY DEF Total, Correction, AtLow, AtHigh, BeyondHigh
<1>14. Contains(val) = IF low <= high THEN low <= val /\ val <= high ELSE low <= val \/ val <= high
  BY DEF Contains
<1>15. hi1 \in Number /\ atl \in Number /\ ath \in Number
  BY <1>2, <1>7, NumberFacts
<1> HIDE DEF a, lo, hi, hi1, bey, atl, ath, s, val
<1>16. /\ lo \in Int /\ hi \in Int /\ hi1 \in Int /\ bey \in Int /\ a \in Int
       /\ atl \in Int /\ ath \in Int /\ s \in Int /\ val \in Int
  BY <1>7, <1>15, RingAssumption DEF Number
<1>17. /\ r \in 0 .. Modulus - 1 /\ low \in 0 .. Modulus - 1
       /\ high \in 0 .. Modulus - 1 /\ x \in 0 .. Modulus - 1
  BY DEF Number
<1>18. a = IF x + (Modulus - 1) < Modulus THEN x + (Modulus - 1) ELSE x + (Modulus - 1) - Modulus
  BY <1>3 DEF top
<1>19. (IF lo > hi THEN 1 ELSE 0) - (IF lo > low THEN 1 ELSE 0)
         + (IF hi1 > bey THEN 1 ELSE 0) + (IF hi = Modulus - 1 THEN 1 ELSE 0)
         + (IF ath < s THEN 1 ELSE 0) - (IF atl < s THEN 1 ELSE 0)
         + (IF x > low THEN 1 ELSE 0) - (IF x > bey THEN 1 ELSE 0)
       = IF (IF low <= high THEN low <= val /\ val <= high ELSE low <= val \/ val <= high) THEN 1 ELSE 0
  BY <1>1, <1>4, <1>5, <1>6, <1>8, <1>9, <1>10, <1>11, <1>12, <1>16, <1>17, <1>18,
     SevenComparisons
<1>20. Total = Bit(Contains(val))
  BY <1>13, <1>14, <1>19 DEF Bit
<1> QED BY <1>20 DEF val
-----------------------------------------------------------------------------
(* The group of the answers.                                               *)
LEMMA ReduceWitness ==
  ASSUME NEW n \in Int, order \in Nat \ {0}
  PROVE  /\ Reduce(n) \in Group
         /\ \E k \in Int : Reduce(n) = n + order * k
<1> DEFINE q == n \div order
           m == n % order
<1>1. q \in Int /\ m \in 0 .. order - 1 /\ m \in Int /\ n = order * q + m
  BY Division
<1> HIDE DEF q, m
<1>2. -q \in Int /\ m = n + order * (-q)
  BY <1>1
<1>3. Reduce(n) = m
  BY DEF Reduce, m
<1> QED BY <1>1, <1>2, <1>3 DEF Group

LEMMA ReduceShift ==
  ASSUME NEW n \in Int, NEW k \in Int, order \in Nat \ {0}
  PROVE  Reduce(n + order * k) = Reduce(n)
BY Shift DEF Reduce

LEMMA ReduceSmall ==
  ASSUME NEW n \in {0, 1}, order \in Nat \ {0, 1}
  PROVE  Reduce(n) = n
<1>1. n \in 0 .. order - 1 /\ n \in Int /\ 0 \in Int
  OBVIOUS
<1>2. (order * 0 + n) % order = n
  BY <1>1, Remainder
<1>3. order * 0 + n = n
  BY <1>1
<1> QED BY <1>2, <1>3 DEF Reduce

LEMMA CorrectionInt ==
  Correction \in Int
BY DEF Correction, Bit

-----------------------------------------------------------------------------
(* The inductive invariant.                                                *)

(* Numbers stay numbers of the ring, and the order one of those allowed.   *)
IntervalRanges ==
  /\ order \in Orders
  /\ r \in Number /\ low \in Number /\ high \in Number /\ x \in Number

(* The keys' words are shares of the correction for these bounds.          *)
KeysDealt ==
  step # "new" =>
    \E half \in {0, 1} : word = [k \in Party |-> IF k = 0 THEN half ELSE SecondHalf(half, Correction)]

(* The shares of the opened comparisons are elements of the group.         *)
SharesOpened ==
  step = "asked" => opened[1] \in Group /\ opened[2] \in Group

(* A party that has answered has given what its key evaluates to.          *)
AnswersGiven ==
  /\ out \in [Party -> {<<>>} \cup {<<Answer(p)>> : p \in Party}]
  /\ \A p \in Party : out[p] # <<>> => step = "asked" /\ out[p] = <<Answer(p)>>

IntervalInv == IntervalRanges /\ KeysDealt /\ SharesOpened /\ AnswersGiven

LEMMA IntervalInvInit == IntervalInit => IntervalInv
<1> SUFFICES ASSUME IntervalInit PROVE IntervalInv
  OBVIOUS
<1>1. IntervalRanges
  BY IntervalAssumption, RingAssumption DEF IntervalInit, IntervalRanges, Number
<1>2. KeysDealt /\ SharesOpened
  BY DEF IntervalInit, KeysDealt, SharesOpened
<1>3. AnswersGiven
  BY DEF IntervalInit, AnswersGiven
<1> QED BY <1>1, <1>2, <1>3 DEF IntervalInv

(* Nothing that Answer depends on changes once a party may answer.         *)
LEMMA GenKeeps ==
  ASSUME IntervalInv, Gen
  PROVE  IntervalInv'
<1>1. IntervalRanges'
  BY DEF Gen, IntervalInv, IntervalRanges, Number
<1>2. SharesOpened'
  BY DEF Gen, SharesOpened
<1>3. KeysDealt'
  <2>1. Correction' = Correction
    BY DEF Gen, Correction, BeyondHigh
  <2>2. /\ \E half \in {0, 1} :
             word' = [k \in Party |-> IF k = 0 THEN half ELSE SecondHalf(half, Correction)]
        /\ order' = order
    BY DEF Gen
  <2> QED BY <2>1, <2>2 DEF KeysDealt, SecondHalf, Reduce
<1>4. AnswersGiven'
  <2>1. out' = out /\ \A p \in Party : out[p] = <<>>
    BY DEF Gen, IntervalInv, AnswersGiven
  <2>2. out' \in [Party -> {<<>>} \cup {<<Answer(p)'>> : p \in Party}]
    BY <2>1 DEF IntervalInv, AnswersGiven
  <2> QED BY <2>1, <2>2 DEF AnswersGiven
<1> QED BY <1>1, <1>2, <1>3, <1>4 DEF IntervalInv

LEMMA AskKeeps ==
  ASSUME IntervalInv, Ask
  PROVE  IntervalInv'
<1>1. PICK m \in Number : AskFor(m)
  BY DEF Ask
<1>2. IntervalRanges'
  BY <1>1 DEF AskFor, IntervalInv, IntervalRanges, Number
<1>3. SharesOpened'
  BY <1>1 DEF AskFor, SharesOpened, Group
<1>4. KeysDealt'
  <2>1. Correction' = Correction /\ order' = order /\ word' = word
    BY <1>1 DEF AskFor, Correction, BeyondHigh
  <2>2. step # "new"
    BY <1>1 DEF AskFor
  <2> QED BY <2>1, <2>2 DEF IntervalInv, KeysDealt, SecondHalf, Reduce
<1>5. AnswersGiven'
  <2>1. out' = out /\ \A p \in Party : out[p] = <<>>
    BY <1>1 DEF AskFor, IntervalInv, AnswersGiven
  <2>2. out' \in [Party -> {<<>>} \cup {<<Answer(p)'>> : p \in Party}]
    BY <2>1 DEF IntervalInv, AnswersGiven
  <2> QED BY <2>1, <2>2 DEF AnswersGiven
<1> QED BY <1>2, <1>3, <1>4, <1>5 DEF IntervalInv

LEMMA SameAnswers ==
  ASSUME UNCHANGED <<order, r, low, high, word, x, opened>>
  PROVE  \A p \in Party : Answer(p)' = Answer(p)
BY DEF Answer, Reduce, Below, Public, BeyondHigh

LEMMA EvalKeeps ==
  ASSUME IntervalInv, NEW p \in Party, Eval(p)
  PROVE  IntervalInv'
<1>1. UNCHANGED <<order, r, low, high, word, x, opened, step>> /\ step = "asked"
  BY DEF Eval
<1>2. out' = [out EXCEPT ![p] = <<Answer(p)>>]
  BY DEF Eval
<1>3. \A i \in Party : Answer(i)' = Answer(i)
  BY <1>1, SameAnswers
<1>4. IntervalRanges'
  BY <1>1 DEF IntervalInv, IntervalRanges, Number
<1>5. SharesOpened'
  BY <1>1 DEF IntervalInv, SharesOpened, Group
<1>6. KeysDealt'
  <2>1. Correction' = Correction
    BY <1>1 DEF Correction, BeyondHigh
  <2> QED BY <1>1, <2>1 DEF IntervalInv, KeysDealt, SecondHalf, Reduce
<1>7. AnswersGiven'
  <2>1. out' \in [Party -> {<<>>} \cup {<<Answer(i)'>> : i \in Party}]
    BY <1>2, <1>3 DEF IntervalInv, AnswersGiven
  <2>2. \A i \in Party : out'[i] # <<>> => step' = "asked" /\ out'[i] = <<Answer(i)'>>
    BY <1>1, <1>2, <1>3 DEF IntervalInv, AnswersGiven
  <2> QED BY <2>1, <2>2 DEF AnswersGiven
<1> QED BY <1>4, <1>5, <1>6, <1>7 DEF IntervalInv

LEMMA IntervalInvStep == IntervalInv /\ [IntervalNext]_intervalVars => IntervalInv'
<1> SUFFICES ASSUME IntervalInv, [IntervalNext]_intervalVars PROVE IntervalInv'
  OBVIOUS
<1>1. ASSUME UNCHANGED intervalVars PROVE IntervalInv'
  <2>1. /\ UNCHANGED <<order, r, low, high, word, x, opened>>
        /\ step' = step /\ out' = out
    BY <1>1 DEF intervalVars
  <2>2. \A p \in Party : Answer(p)' = Answer(p)
    BY <2>1, SameAnswers
  <2>3. Correction' = Correction
    BY <2>1 DEF Correction, BeyondHigh
  <2>4. IntervalRanges' /\ SharesOpened' /\ KeysDealt'
    BY <2>1, <2>3 DEF IntervalInv, IntervalRanges, SharesOpened, KeysDealt, Number, Group,
         SecondHalf, Reduce
  <2>5. AnswersGiven'
    BY <2>1, <2>2 DEF IntervalInv, AnswersGiven
  <2> QED BY <2>4, <2>5 DEF IntervalInv
<1> QED BY <1>1, GenKeeps, AskKeeps, EvalKeeps DEF IntervalNext, IntervalDone

-----------------------------------------------------------------------------
(* What the two parties compute adds up to Total but for multiples of the  *)
(* order.                                                                  *)
LEMMA AnswersAddUp ==
  ASSUME order \in Nat \ {0}, NEW half \in {0, 1},
         word = [k \in Party |-> IF k = 0 THEN half ELSE SecondHalf(half, Correction)],
         opened[1] \in Group, opened[2] \in Group
  PROVE  Reduce(Answer(0) + Answer(1)) = Reduce(Total)
<1> DEFINE h1 == opened[1]
           h2 == opened[2]
           bl == Bit(AtLow < Minus(r, 1))
           bh == Bit(AtHigh < Minus(r, 1))
           pu == Bit(x > low) - Bit(x > BeyondHigh)
           w1 == Reduce(Correction - half)
           s1 == Reduce(bl - h1)
           s2 == Reduce(bh - h2)
           a0 == Reduce(half + h2 - h1 + 0)
           a1 == Reduce(w1 + s2 - s1 + pu)
<1>1. /\ h1 \in Int /\ h2 \in Int /\ half \in Int /\ order \in Int
      /\ bl \in Int /\ bh \in Int /\ pu \in Int /\ Correction \in Int
  <2>1. h1 \in Int /\ h2 \in Int /\ half \in Int /\ order \in Int
    BY DEF Group
  <2>2. bl \in Int /\ bh \in Int /\ pu \in Int
    BY DEF Bit
  <2> QED BY <2>1, <2>2, CorrectionInt
<1>2. Answer(0) = a0
  BY DEF Answer, Below, Public, Party
<1>3. Answer(1) = a1
  BY DEF Answer, Below, Public, Party, SecondHalf, AtLow, AtHigh
<1>4. Total = Correction + bh - bl + pu
  BY <1>1 DEF Total
<1> HIDE DEF h1, h2, bl, bh, pu
<1>5. \A n \in Int : \E k \in Int : Reduce(n) = n + order * k
  BY ReduceWitness
<1>6. PICK k1 \in Int : w1 = (Correction - half) + order * k1
  <2>1. Correction - half \in Int
    BY <1>1
  <2> QED BY <1>5, <2>1
<1>7. PICK k2 \in Int : s1 = (bl - h1) + order * k2
  <2>1. bl - h1 \in Int
    BY <1>1
  <2> QED BY <1>5, <2>1
<1>8. PICK k3 \in Int : s2 = (bh - h2) + order * k3
  <2>1. bh - h2 \in Int
    BY <1>1
  <2> QED BY <1>5, <2>1
<1> HIDE DEF w1, s1, s2
<1>9. w1 \in Int /\ s1 \in Int /\ s2 \in Int
  BY <1>1, <1>6, <1>7, <1>8
<1>10. PICK k4 \in Int : a0 = (half + h2 - h1 + 0) + order * k4
  <2>1. half + h2 - h1 + 0 \in Int
    BY <1>1
  <2> QED BY <1>5, <2>1
<1>11. PICK k5 \in Int : a1 = (w1 + s2 - s1 + pu) + order * k5
  <2>1. w1 + s2 - s1 + pu \in Int
    BY <1>1, <1>9
  <2> QED BY <1>5, <2>1
<1> HIDE DEF a0, a1
<1>12. a0 + a1 = Total + order * (k1 + k3 - k2 + k4 + k5)
  <2>1. a0 + a1 = (Correction + bh - bl + pu)
                    + (order * k1 + order * k3 - order * k2 + order * k4 + order * k5)
    BY <1>1, <1>6, <1>7, <1>8, <1>9, <1>10, <1>11
  <2>2. order * k1 + order * k3 - order * k2 + order * k4 + order * k5
          = order * (k1 + k3 - k2 + k4 + k5)
    BY <1>1
  <2> QED BY <1>4, <2>1, <2>2
<1>13. Total \in Int /\ k1 + k3 - k2 + k4 + k5 \in Int
  BY <1>1, <1>4
<1>14. Reduce(a0 + a1) = Reduce(Total)
  BY <1>12, <1>13, ReduceShift
<1> QED BY <1>2, <1>3, <1>14

LEMMA IntervalInvGives == IntervalInv => AnswerIsContainment
<1> SUFFICES ASSUME IntervalInv, \A p \in Party : out[p] # <<>>
             PROVE  Reduce(out[0][1] + out[1][1]) = Bit(Contains(Minus(x, r)))
  BY DEF AnswerIsContainment
<1>1. 0 \in Party /\ 1 \in Party
  BY DEF Party
<1>2. /\ step = "asked"
      /\ out[0] = <<Answer(0)>> /\ out[1] = <<Answer(1)>>
  BY <1>1 DEF IntervalInv, AnswersGiven
<1>3. PICK half \in {0, 1} :
        word = [k \in Party |-> IF k = 0 THEN half ELSE SecondHalf(half, Correction)]
  BY <1>2 DEF IntervalInv, KeysDealt
<1>4. opened[1] \in Group /\ opened[2] \in Group
  BY <1>2 DEF IntervalInv, SharesOpened
<1>5. order \in Nat \ {0, 1} /\ order \in Nat \ {0}
  BY IntervalAssumption DEF IntervalInv, IntervalRanges
<1>6. Reduce(Answer(0) + Answer(1)) = Reduce(Total)
  BY <1>3, <1>4, <1>5, AnswersAddUp
<1>7. Total = Bit(Contains(Minus(x, r)))
  BY TotalIsContainment DEF IntervalInv, IntervalRanges
<1>8. Bit(Contains(Minus(x, r))) \in {0, 1}
  BY DEF Bit
<1>9. Reduce(Total) = Total
  BY <1>5, <1>7, <1>8, ReduceSmall
<1>10. out[0][1] = Answer(0) /\ out[1][1] = Answer(1)
  BY <1>2
<1> QED BY <1>6, <1>7, <1>9, <1>10

(* The interval gate answers whether the value lies between the bounds,    *)
(* for every width of the ring and order of the group, every mask and      *)
(* every pair of bounds, wherever x, the masked bounds or the number       *)
(* beyond the upper bound wrap (ic.rs:20-133, 158-271).                    *)
THEOREM AnswerIsAlwaysContainment == IntervalSpec => []AnswerIsContainment
<1> QED BY IntervalInvInit, IntervalInvStep, IntervalInvGives, PTL DEF IntervalSpec

-----------------------------------------------------------------------------
(* The types of the interval gate.                                         *)
LEMMA OrderFacts ==
  ASSUME IntervalInv
  PROVE  order \in Nat \ {0, 1} /\ order \in Nat \ {0} /\ 0 \in Group /\ 1 \in Group
<1>1. order \in Nat \ {0, 1}
  BY IntervalAssumption DEF IntervalInv, IntervalRanges
<1>2. order \in Int /\ order >= 2
  BY <1>1
<1> QED BY <1>1, <1>2 DEF Group

(* A key evaluates to an element of the group.                             *)
LEMMA AnswerInGroup ==
  ASSUME IntervalInv, IntervalTypeOK, NEW k \in Party
  PROVE  Answer(k) \in Group
<1>1. order \in Nat \ {0}
  BY OrderFacts
<1>2. \A n \in Int : Reduce(n) \in Group
  BY <1>1, ReduceWitness
<1>3. \A n \in Group : n \in Int
  BY <1>1 DEF Group
<1>4. word[k] \in Int /\ opened[1] \in Int /\ opened[2] \in Int
  BY <1>3 DEF IntervalTypeOK
<1>5. \A b \in BOOLEAN : Bit(b) \in Int
  BY DEF Bit
<1>6. ASSUME NEW i, NEW half \in Int PROVE Below(k, i, half) \in Int
  <2>1. Bit(i < Minus(r, 1)) - half \in Int
    BY <1>6 DEF Bit
  <2>2. Reduce(Bit(i < Minus(r, 1)) - half) \in Int
    BY <1>2, <1>3, <2>1
  <2> QED BY <1>6, <2>2 DEF Below
<1>7. Public(k) \in Int
  BY DEF Public, Bit
<1>8. Below(k, AtHigh, opened[2]) \in Int /\ Below(k, AtLow, opened[1]) \in Int
  BY <1>4, <1>6
<1>9. word[k] + Below(k, AtHigh, opened[2]) - Below(k, AtLow, opened[1]) + Public(k) \in Int
  BY <1>4, <1>7, <1>8
<1>10. Answer(k) = Reduce(word[k] + Below(k, AtHigh, opened[2]) - Below(k, AtLow, opened[1]) + Public(k))
  BY DEF Answer, AtHigh, AtLow
<1> QED BY <1>2, <1>9, <1>10

LEMMA IntervalTypeInit == IntervalInit => IntervalTypeOK
<1> SUFFICES ASSUME IntervalInit PROVE IntervalTypeOK
  OBVIOUS
<1>1. IntervalInv
  BY IntervalInvInit
<1>2. 0 \in Group
  BY <1>1, OrderFacts
<1>3. {r, low, high, x} \subseteq Number /\ order \in Orders
  BY <1>1 DEF IntervalInv, IntervalRanges
<1> QED BY <1>2, <1>3 DEF IntervalInit, IntervalTypeOK

LEMMA IntervalTypeStep ==
  ASSUME IntervalInv, IntervalInv', IntervalTypeOK, [IntervalNext]_intervalVars
  PROVE  IntervalTypeOK'
<1>1. {r, low, high, x}' \subseteq Number' /\ order' \in Orders
  BY DEF IntervalInv, IntervalRanges
<1>2. CASE Gen
  <2>1. PICK half \in {0, 1} :
          word' = [k \in Party |-> IF k = 0 THEN half ELSE SecondHalf(half, Correction)]
    BY <1>2 DEF Gen
  <2>2. half \in Group /\ SecondHalf(half, Correction) \in Group
    <3>1. order \in Nat \ {0} /\ half \in Group
      BY OrderFacts
    <3>2. Correction - half \in Int
      BY CorrectionInt
    <3> QED BY <3>1, <3>2, ReduceWitness DEF SecondHalf
  <2>3. order' = order /\ opened' = opened /\ out' = out /\ step' = "dealt"
    BY <1>2 DEF Gen
  <2>4. word' \in [Party -> Group]
    BY <2>1, <2>2
  <2> QED BY <1>1, <2>3, <2>4 DEF IntervalTypeOK, Group
<1>3. CASE Ask
  <2>1. /\ order' = order /\ word' = word /\ out' = out /\ step' = "asked"
        /\ opened' \in (Halves \cap Group) \X (Halves \cap Group)
    BY <1>3 DEF Ask, AskFor
  <2>2. opened' \in Group \X Group
    BY <2>1
  <2> QED BY <1>1, <2>1, <2>2 DEF IntervalTypeOK, Group
<1>4. ASSUME NEW p \in Party, Eval(p) PROVE IntervalTypeOK'
  <2>1. /\ order' = order /\ word' = word /\ opened' = opened /\ step' = step
        /\ out' = [out EXCEPT ![p] = <<Answer(p)>>]
    BY <1>4 DEF Eval
  <2>2. Answer(p) \in Group
    BY AnswerInGroup
  <2>3. out' \in [Party -> {<<>>} \cup {<<g>> : g \in Group}]
    BY <2>1, <2>2 DEF IntervalTypeOK
  <2> QED BY <1>1, <2>1, <2>3 DEF IntervalTypeOK, Group
<1>5. CASE UNCHANGED intervalVars
  BY <1>1, <1>5 DEF IntervalTypeOK, Group, intervalVars
<1> QED BY <1>2, <1>3, <1>4, <1>5 DEF IntervalNext, IntervalDone

(* The gate's words, shares and answers stay elements of the group of the  *)
(* key, ring elements or bits (ic.rs:20-133, 158-271).                     *)
THEOREM IntervalKeepsType == IntervalSpec => []IntervalTypeOK
<1>1. IntervalInv /\ IntervalTypeOK /\ [IntervalNext]_intervalVars
        => IntervalInv' /\ IntervalTypeOK'
  BY IntervalInvStep, IntervalTypeStep
<1> QED BY <1>1, IntervalInvInit, IntervalTypeInit, PTL DEF IntervalSpec

-----------------------------------------------------------------------------
(* Conditional evaluation.                                                 *)

(* The gate is asked about the lower half of the ring, over bits.          *)
LowerHalf == order = 2 /\ low = 0 /\ high = Middle - 1

(* What the dealer and the parties have drawn; the shares make the mask.   *)
MaskShared ==
  /\ {t, pi[0], pi[1], c[0], c[1]} \subseteq BOOLEAN
  /\ {v, alpha[0], alpha[1]} \subseteq Number
  /\ Plus(alpha[0], alpha[1]) = r

(* The gate is asked about the masked value.                               *)
AskedMasked == step = "asked" => x = Plus(Plus(v, alpha[0]), alpha[1])

(* A letter names the place in the peer's ciphers and the sender's pad.    *)
Letter(p) == <<[pointer |-> Pointer(p), pad |-> <<p, c[p]>>]>>

LettersRight ==
  \A p \in Party :
    \/ letter[p] = <<>>
    \/ step = "asked" /\ letter[p] = Letter(p)

(* The pointer a party used is one its peer's letter could have held.      *)
Agreed(p) == source[p] = Peer(p) \/ Pointer(0) = Pointer(1)

(* Such a party has evaluated the key its peer's bit selects.              *)
ResultsRight ==
  \A p \in Party :
    \/ result[p] = <<>>
    \/ /\ step = "asked"
       /\ \E g \in Group : result[p] = <<g>>
       /\ Agreed(p) => result[p] = <<Answer(KeyFor(c[Peer(p)]))>>

Shaped ==
  /\ letter \in [Party -> {<<>>} \cup
       {<<[pointer |-> b, pad |-> <<p, b2>>]>> : b \in BOOLEAN, b2 \in BOOLEAN, p \in Party}]
  /\ source \in [Party -> Party]
  /\ result \in [Party -> {<<>>} \cup {<<g>> : g \in Group}]

CondInv ==
  /\ IntervalInv /\ IntervalTypeOK
  /\ LowerHalf /\ MaskShared /\ AskedMasked /\ Shaped /\ LettersRight /\ ResultsRight

(* Subtracting the sum of the shares from the masked value gives it back.  *)
LEMMA Unmasks ==
  ASSUME NEW m \in Number, NEW a \in Number, NEW b \in Number
  PROVE  Minus(Plus(Plus(m, a), b), Plus(a, b)) = m
<1> DEFINE k  == Plus(m, a)
           kb == Plus(k, b)
           ab == Plus(a, b)
<1>1. k \in Number /\ kb \in Number /\ ab \in Number
  BY NumberFacts
<1>2. k = IF m + a < Modulus THEN m + a ELSE m + a - Modulus
  BY PlusIs
<1>3. kb = IF k + b < Modulus THEN k + b ELSE k + b - Modulus
  BY <1>1, PlusIs
<1>4. ab = IF a + b < Modulus THEN a + b ELSE a + b - Modulus
  BY PlusIs
<1>5. Minus(kb, ab) = IF kb < ab THEN kb - ab + Modulus ELSE kb - ab
  BY <1>1, MinusIs
<1> HIDE DEF k, kb, ab
<1>6. /\ Modulus \in Int /\ m \in Int /\ a \in Int /\ b \in Int
      /\ k \in Int /\ kb \in Int /\ ab \in Int
      /\ 0 <= m /\ m < Modulus /\ 0 <= a /\ a < Modulus /\ 0 <= b /\ b < Modulus
  BY <1>1, RingAssumption DEF Number
<1>7. Minus(kb, ab) = m
  BY <1>2, <1>3, <1>4, <1>5, <1>6
<1> QED BY <1>7 DEF kb, k, ab

(* The share of party 1 is what is missing.                                *)
LEMMA SharesOfMask ==
  ASSUME NEW a \in Number, NEW b \in Number
  PROVE  Plus(a, Minus(b, a)) = b
<1> DEFINE d == Minus(b, a)
<1>1. d \in Number
  BY NumberFacts
<1>2. d = IF b < a THEN b - a + Modulus ELSE b - a
  BY MinusIs
<1>3. Plus(a, d) = IF a + d < Modulus THEN a + d ELSE a + d - Modulus
  BY <1>1, PlusIs
<1> HIDE DEF d
<1>4. /\ Modulus \in Int /\ a \in Int /\ b \in Int /\ d \in Int
      /\ 0 <= a /\ a < Modulus /\ 0 <= b /\ b < Modulus
  BY <1>1, RingAssumption DEF Number
<1>5. Plus(a, d) = b
  BY <1>2, <1>3, <1>4
<1> QED BY <1>5 DEF d

(* The lower half of a ring of even size.                                  *)
LEMMA MiddleFacts ==
  /\ Middle \in Int /\ Modulus = 2 * Middle /\ Middle >= 1
<1>1. Modulus \in Int /\ 2 \in Nat \ {0} /\ Modulus > 1
  BY RingAssumption, IntervalAssumption
<1>2. Modulus \div 2 \in Int /\ Modulus = 2 * (Modulus \div 2) + (Modulus % 2)
  BY <1>1, Division
<1>3. Modulus % 2 = 0
  BY CondEvalAssumption
<1> DEFINE m == Modulus \div 2
<1>4. m \in Int /\ Modulus = 2 * m
  BY <1>2, <1>3
<1> HIDE DEF m
<1>5. m >= 1
  BY <1>1, <1>4
<1> QED BY <1>4, <1>5 DEF Middle, m

LEMMA CondInvInit == CondInit => CondInv
<1> SUFFICES ASSUME CondInit PROVE CondInv
  OBVIOUS
<1>1. IntervalInit
  BY DEF CondInit
<1>2. IntervalInv /\ IntervalTypeOK
  BY <1>1, IntervalInvInit, IntervalTypeInit
<1>3. LowerHalf
  BY DEF CondInit, LowerHalf
<1>4. MaskShared
  <2>1. PICK a \in Shares : alpha = [p \in Party |-> IF p = 0 THEN a ELSE Minus(r, a)]
    BY DEF CondInit
  <2>2. a \in Number /\ r \in Number
    BY <1>2, CondEvalAssumption DEF IntervalInv, IntervalRanges
  <2>3. alpha[0] = a /\ alpha[1] = Minus(r, a)
    BY <2>1 DEF Party
  <2>4. alpha[0] \in Number /\ alpha[1] \in Number /\ Plus(alpha[0], alpha[1]) = r
    BY <2>2, <2>3, NumberFacts, SharesOfMask
  <2>5. t \in BOOLEAN /\ pi \in [Party -> BOOLEAN] /\ c \in [Party -> BOOLEAN] /\ v \in Number
    BY DEF CondInit
  <2>6. {t, pi[0], pi[1], c[0], c[1]} \subseteq BOOLEAN
    BY <2>5, Zenon DEF Party
  <2> QED BY <2>4, <2>5, <2>6 DEF MaskShared
<1>5. step = "new"
  BY <1>1 DEF IntervalInit
<1>6. \A p \in Party : letter[p] = <<>> /\ result[p] = <<>>
  BY DEF CondInit
<1>7. Shaped
  BY DEF CondInit, Shaped
<1>8. AskedMasked /\ LettersRight /\ ResultsRight
  BY <1>5, <1>6 DEF AskedMasked, LettersRight, ResultsRight
<1> QED BY <1>2, <1>3, <1>4, <1>7, <1>8 DEF CondInv

(* Nothing has been sent or answered before the gate is asked.             *)
LEMMA SilentBefore ==
  ASSUME CondInv, step # "asked"
  PROVE  \A p \in Party : letter[p] = <<>> /\ result[p] = <<>>
BY DEF CondInv, LettersRight, ResultsRight

LEMMA GenCondKeeps ==
  ASSUME CondInv, GenCond
  PROVE  CondInv'
<1>1. Gen /\ [IntervalNext]_intervalVars
  BY DEF GenCond, IntervalNext
<1>2. IntervalInv' /\ IntervalTypeOK'
  BY <1>1, IntervalInvStep, IntervalTypeStep DEF CondInv
<1>3. /\ step # "asked" /\ step' # "asked"
      /\ order' = order /\ r' = r /\ low' = low /\ high' = high
      /\ t' = t /\ pi' = pi /\ alpha' = alpha /\ v' = v /\ c' = c
      /\ letter' = letter /\ source' = source /\ result' = result
  BY DEF GenCond, Gen
<1>4. \A p \in Party : letter'[p] = <<>> /\ result'[p] = <<>>
  BY <1>3, SilentBefore
<1>5. LowerHalf' /\ MaskShared'
  BY <1>3 DEF CondInv, LowerHalf, MaskShared, Number, Plus, Middle
<1>6. AskedMasked'
  BY <1>3 DEF AskedMasked
<1>7. Shaped'
  BY <1>3 DEF CondInv, Shaped, Group
<1>8. LettersRight' /\ ResultsRight'
  BY <1>4 DEF LettersRight, ResultsRight
<1> QED BY <1>2, <1>5, <1>6, <1>7, <1>8 DEF CondInv

LEMMA AskCondKeeps ==
  ASSUME CondInv, AskCond
  PROVE  CondInv'
<1> DEFINE m == Plus(Plus(v, alpha[0]), alpha[1])
<1>1. AskFor(m) /\ m \in Number
  <2>1. v \in Number /\ alpha[0] \in Number /\ alpha[1] \in Number
    BY DEF CondInv, MaskShared
  <2> QED BY <2>1, NumberFacts DEF AskCond
<1> HIDE DEF m
<1>2. Ask /\ [IntervalNext]_intervalVars
  BY <1>1 DEF Ask, IntervalNext
<1>3. IntervalInv' /\ IntervalTypeOK'
  BY <1>2, IntervalInvStep, IntervalTypeStep DEF CondInv
<1>4. /\ step # "asked" /\ x' = m
      /\ order' = order /\ r' = r /\ low' = low /\ high' = high
  BY <1>1 DEF AskFor
<1>5. /\ t' = t /\ pi' = pi /\ alpha' = alpha /\ v' = v /\ c' = c
      /\ letter' = letter /\ source' = source /\ result' = result
  BY DEF AskCond
<1>6. \A p \in Party : letter'[p] = <<>> /\ result'[p] = <<>>
  BY <1>4, <1>5, SilentBefore
<1>7. LowerHalf' /\ MaskShared'
  BY <1>4, <1>5 DEF CondInv, LowerHalf, MaskShared, Number, Plus, Middle
<1>8. AskedMasked'
  <2>1. m = Plus(Plus(v, alpha[0]), alpha[1])'
    BY <1>5 DEF m, Plus
  <2> QED BY <1>4, <2>1 DEF AskedMasked
<1>9. Shaped'
  BY <1>4, <1>5 DEF CondInv, Shaped, Group
<1>10. LettersRight' /\ ResultsRight'
  BY <1>6 DEF LettersRight, ResultsRight
<1> QED BY <1>3, <1>7, <1>8, <1>9, <1>10 DEF CondInv

(* What the steps after the gate has been asked leave alone.               *)
LEMMA CondKept ==
  ASSUME CondInv, UNCHANGED <<intervalVars, t, pi, alpha, v, c>>
  PROVE  /\ IntervalInv' /\ IntervalTypeOK' /\ LowerHalf' /\ MaskShared' /\ AskedMasked'
         /\ step' = step /\ Group' = Group
         /\ \A p \in Party : Letter(p)' = Letter(p) /\ Pointer(p)' = Pointer(p)
         /\ \A p \in Party : Answer(KeyFor(c[Peer(p)]))' = Answer(KeyFor(c[Peer(p)]))
<1>1. IntervalInv' /\ IntervalTypeOK'
  BY IntervalInvStep, IntervalTypeStep DEF CondInv
<1>2. /\ order' = order /\ r' = r /\ low' = low /\ high' = high /\ word' = word
      /\ x' = x /\ opened' = opened /\ out' = out /\ step' = step
      /\ t' = t /\ pi' = pi /\ alpha' = alpha /\ v' = v /\ c' = c
  BY DEF intervalVars
<1>3. LowerHalf' /\ MaskShared' /\ AskedMasked'
  BY <1>2 DEF CondInv, LowerHalf, MaskShared, AskedMasked, Number, Plus, Middle
<1>4. \A p \in Party : Letter(p)' = Letter(p) /\ Pointer(p)' = Pointer(p)
  BY <1>2 DEF Letter, Pointer
<1>5. \A p \in Party : Answer(KeyFor(c[Peer(p)]))' = Answer(KeyFor(c[Peer(p)]))
  <2>1. \A p \in Party : KeyFor(c[Peer(p)])' = KeyFor(c[Peer(p)]) /\ KeyFor(c[Peer(p)]) \in Party
    BY <1>2 DEF KeyFor, Party
  <2>2. \A p \in Party : Answer(p)' = Answer(p)
    BY <1>2, SameAnswers
  <2> QED BY <1>2, <2>1 DEF Answer, Reduce, Below, Public, BeyondHigh
<1> QED BY <1>1, <1>2, <1>3, <1>4, <1>5 DEF Group

LEMMA SendLetterKeeps ==
  ASSUME CondInv, NEW p \in Party, SendLetter(p)
  PROVE  CondInv'
<1>1. /\ step = "asked" /\ letter' = [letter EXCEPT ![p] = Letter(p)]
      /\ UNCHANGED <<intervalVars, t, pi, alpha, v, c>>
      /\ source' = source /\ result' = result
  BY DEF SendLetter, Letter
<1>2. /\ IntervalInv' /\ IntervalTypeOK' /\ LowerHalf' /\ MaskShared' /\ AskedMasked'
      /\ step' = step /\ Group' = Group
      /\ \A i \in Party : Letter(i)' = Letter(i) /\ Pointer(i)' = Pointer(i)
      /\ \A i \in Party : Answer(KeyFor(c[Peer(i)]))' = Answer(KeyFor(c[Peer(i)]))
  BY <1>1, CondKept
<1>3. Pointer(p) \in BOOLEAN /\ c[p] \in BOOLEAN
  <2>1. c[p] \in BOOLEAN
    BY Zenon DEF CondInv, MaskShared, Party
  <2> QED BY <2>1 DEF Pointer
<1>4. Shaped'
  <2>1. Letter(p) \in {<<[pointer |-> b, pad |-> <<i, b2>>]>> : b \in BOOLEAN, b2 \in BOOLEAN, i \in Party}
    BY <1>3 DEF Letter
  <2> HIDE DEF Letter
  <2>2. letter' \in [Party -> {<<>>} \cup
          {<<[pointer |-> b, pad |-> <<i, b2>>]>> : b \in BOOLEAN, b2 \in BOOLEAN, i \in Party}]
    BY <1>1, <2>1 DEF CondInv, Shaped
  <2> QED BY <1>1, <1>2, <2>2 DEF CondInv, Shaped
<1>5. LettersRight'
  <2>1. \A i \in Party : letter'[i] = letter[i] \/ letter'[i] = Letter(i)
    BY <1>1 DEF CondInv, Shaped
  <2> QED BY <1>1, <1>2, <2>1 DEF CondInv, LettersRight
<1>6. ResultsRight'
  <2>1. \A i \in Party : Agreed(i)' = Agreed(i)
    BY <1>1, <1>2 DEF Agreed, Party
  <2> QED BY <1>1, <1>2, <2>1 DEF CondInv, ResultsRight
<1> QED BY <1>2, <1>4, <1>5, <1>6 DEF CondInv

(* The pointer of a letter that agrees leads to the peer's pad.            *)
LEMMA PointerLeads ==
  ASSUME CondInv, NEW p \in Party, NEW q \in Party, q = Peer(p) \/ Pointer(0) = Pointer(1)
  PROVE  Cipher(p, Pointer(q)) = [pad |-> <<Peer(p), c[Peer(p)]>>, key |-> KeyFor(c[Peer(p)])]
<1>1. Pointer(q) = Pointer(Peer(p))
  BY DEF Party, Peer
<1>2. Pointer(Peer(p)) = (pi[p] # c[Peer(p)])
  BY PeerOf DEF Pointer
<1>3. pi[p] \in BOOLEAN /\ c[Peer(p)] \in BOOLEAN
  <2>1. pi[0] \in BOOLEAN /\ pi[1] \in BOOLEAN /\ c[0] \in BOOLEAN /\ c[1] \in BOOLEAN
    BY Zenon DEF CondInv, MaskShared
  <2>2. (p = 0 /\ Peer(p) = 1) \/ (p = 1 /\ Peer(p) = 0)
    BY DEF Party, Peer
  <2> QED BY <2>1, <2>2, Zenon
<1>4. (Pointer(q) # pi[p]) = c[Peer(p)]
  BY <1>1, <1>2, <1>3
<1> QED BY <1>4 DEF Cipher

LEMMA EvalCondKeeps ==
  ASSUME CondInv, NEW p \in Party, EvalCond(p)
  PROVE  CondInv'
<1>1. /\ UNCHANGED <<intervalVars, t, pi, alpha, v, c>> /\ letter' = letter
      /\ \A i \in Party : letter[i] # <<>>
  BY DEF EvalCond
<1>2. PICK q \in Party, g \in Group :
        /\ source' = [source EXCEPT ![p] = q]
        /\ result' = [result EXCEPT ![p] = <<g>>]
        /\ LET cipher == Cipher(p, letter[q][1].pointer)
           IN  cipher.pad = letter[Peer(p)][1].pad => g = Answer(cipher.key)
  BY DEF EvalCond
<1>3. /\ IntervalInv' /\ IntervalTypeOK' /\ LowerHalf' /\ MaskShared' /\ AskedMasked'
      /\ step' = step /\ Group' = Group
      /\ \A i \in Party : Letter(i)' = Letter(i) /\ Pointer(i)' = Pointer(i)
      /\ \A i \in Party : Answer(KeyFor(c[Peer(i)]))' = Answer(KeyFor(c[Peer(i)]))
  BY <1>1, CondKept
<1>4. step = "asked" /\ \A i \in Party : letter[i] = Letter(i)
  <2>1. \A i \in Party : step = "asked" /\ letter[i] = Letter(i)
    BY <1>1 DEF CondInv, LettersRight
  <2> QED BY <2>1 DEF Party
<1>5. q = Peer(p) \/ Pointer(0) = Pointer(1) => g = Answer(KeyFor(c[Peer(p)]))
  <2> SUFFICES ASSUME q = Peer(p) \/ Pointer(0) = Pointer(1)
               PROVE  g = Answer(KeyFor(c[Peer(p)]))
    OBVIOUS
  <2>1. letter[q][1].pointer = Pointer(q) /\ letter[Peer(p)][1].pad = <<Peer(p), c[Peer(p)]>>
    <3>1. letter[q] = Letter(q) /\ letter[Peer(p)] = Letter(Peer(p))
      BY <1>4, PeerOf
    <3>2. \A i : Letter(i)[1].pointer = Pointer(i) /\ Letter(i)[1].pad = <<i, c[i]>>
      BY DEF Letter
    <3> QED BY <3>1, <3>2
  <2>2. Cipher(p, Pointer(q)) = [pad |-> <<Peer(p), c[Peer(p)]>>, key |-> KeyFor(c[Peer(p)])]
    BY PointerLeads
  <2>3. /\ Cipher(p, letter[q][1].pointer).pad = letter[Peer(p)][1].pad
        /\ Cipher(p, letter[q][1].pointer).key = KeyFor(c[Peer(p)])
    BY <2>1, <2>2
  <2> QED BY <1>2, <2>3
<1>6. Shaped'
  <2>1. source' \in [Party -> Party]
    BY <1>2 DEF CondInv, Shaped
  <2>2. result' \in [Party -> {<<>>} \cup {<<h>> : h \in Group}]
    BY <1>2 DEF CondInv, Shaped
  <2> QED BY <1>1, <1>3, <2>1, <2>2 DEF CondInv, Shaped
<1>7. LettersRight'
  BY <1>1, <1>3 DEF CondInv, LettersRight
<1>8. ResultsRight'
  <2> SUFFICES ASSUME NEW i \in Party, result'[i] # <<>>
               PROVE  /\ \E h \in Group : result'[i] = <<h>>
                      /\ Agreed(i)' => result'[i] = <<Answer(KeyFor(c[Peer(i)]))>>
    BY <1>3, <1>4 DEF ResultsRight
  <2>1. Agreed(i)' = (source'[i] = Peer(i) \/ Pointer(0) = Pointer(1))
    BY <1>3 DEF Agreed, Party
  <2>2. CASE i = p
    <3>1. result'[i] = <<g>> /\ source'[i] = q
      BY <1>2, <2>2 DEF CondInv, Shaped
    <3> QED BY <1>5, <2>1, <2>2, <3>1
  <2>3. CASE i # p
    <3>1. result'[i] = result[i] /\ source'[i] = source[i]
      BY <1>2, <2>3 DEF CondInv, Shaped
    <3> QED BY <2>1, <3>1 DEF CondInv, ResultsRight, Agreed
  <2> QED BY <2>2, <2>3
<1> QED BY <1>3, <1>6, <1>7, <1>8 DEF CondInv

LEMMA CondInvStep == CondInv /\ [CondNext]_condVars => CondInv'
<1> SUFFICES ASSUME CondInv, [CondNext]_condVars PROVE CondInv'
  OBVIOUS
<1>1. ASSUME UNCHANGED condVars PROVE CondInv'
  <2>1. /\ UNCHANGED <<intervalVars, t, pi, alpha, v, c>>
        /\ letter' = letter /\ source' = source /\ result' = result
    BY <1>1 DEF condVars, intervalVars
  <2>2. /\ IntervalInv' /\ IntervalTypeOK' /\ LowerHalf' /\ MaskShared' /\ AskedMasked'
        /\ step' = step /\ Group' = Group
        /\ \A i \in Party : Letter(i)' = Letter(i) /\ Pointer(i)' = Pointer(i)
        /\ \A i \in Party : Answer(KeyFor(c[Peer(i)]))' = Answer(KeyFor(c[Peer(i)]))
    BY <2>1, CondKept
  <2>3. \A i \in Party : Agreed(i)' = Agreed(i)
    BY <2>1, <2>2 DEF Agreed, Party
  <2>4. Shaped' /\ LettersRight' /\ ResultsRight'
    BY <2>1, <2>2, <2>3 DEF CondInv, Shaped, LettersRight, ResultsRight
  <2> QED BY <2>2, <2>4 DEF CondInv
<1> QED BY <1>1, GenCondKeeps, AskCondKeeps, SendLetterKeeps, EvalCondKeeps DEF CondNext, CondDone

(* Two answers of one key cancel out in a group of order 2.                *)
LEMMA TwiceIsZero ==
  ASSUME order = 2, NEW n \in Int
  PROVE  Reduce(n + n) = 0
<1>1. (2 * n + 0) % 2 = 0
  BY Remainder
<1>2. 2 * n + 0 = n + n
  OBVIOUS
<1> QED BY <1>1, <1>2 DEF Reduce

LEMMA CondInvGives == CondInv => ConditionalAnswer
<1> SUFFICES ASSUME CondInv, \A p \in Party : result[p] # <<>>,
                    (\A p \in Party : source[p] = Peer(p)) \/ (pi[0] # c[1]) = (pi[1] # c[0])
             PROVE  Reduce(result[0][1] + result[1][1]) = Bit(c[0] # c[1] /\ v < Middle)
  BY DEF ConditionalAnswer
<1>1. 0 \in Party /\ 1 \in Party /\ Peer(0) = 1 /\ Peer(1) = 0
  BY DEF Party, Peer
<1>2. Agreed(0) /\ Agreed(1)
  BY <1>1 DEF Agreed, Pointer
<1>3. step = "asked" /\ result[0] = <<Answer(KeyFor(c[1]))>> /\ result[1] = <<Answer(KeyFor(c[0]))>>
  BY <1>1, <1>2 DEF CondInv, ResultsRight
<1>4. /\ order = 2 /\ low = 0 /\ high = Middle - 1
      /\ {t, c[0], c[1]} \subseteq BOOLEAN
      /\ v \in Number /\ alpha[0] \in Number /\ alpha[1] \in Number
      /\ r = Plus(alpha[0], alpha[1]) /\ x = Plus(Plus(v, alpha[0]), alpha[1])
  BY <1>3 DEF CondInv, LowerHalf, MaskShared, AskedMasked
<1>5. Answer(0) \in Int /\ Answer(1) \in Int
  <2>1. Answer(0) \in Group /\ Answer(1) \in Group
    BY <1>1, AnswerInGroup DEF CondInv
  <2> QED BY <1>4, <2>1 DEF Group
<1>6. CASE c[0] = c[1]
  <2>1. KeyFor(c[0]) = KeyFor(c[1]) /\ KeyFor(c[0]) \in {0, 1}
    BY <1>6 DEF KeyFor
  <2>2. Answer(KeyFor(c[0])) \in Int
    BY <1>5, <2>1
  <2>3. Reduce(result[0][1] + result[1][1]) = 0
    BY <1>3, <1>4, <2>1, <2>2, TwiceIsZero
  <2> QED BY <1>6, <2>3 DEF Bit
<1>7. CASE c[0] # c[1]
  <2>1. {KeyFor(c[0]), KeyFor(c[1])} = {0, 1} /\ KeyFor(c[0]) # KeyFor(c[1])
    BY <1>4, <1>7 DEF KeyFor
  <2>2. result[0][1] + result[1][1] = Answer(0) + Answer(1)
    BY <1>3, <1>5, <2>1
  <2>3. PICK half \in {0, 1} :
          word = [k \in Party |-> IF k = 0 THEN half ELSE SecondHalf(half, Correction)]
    BY <1>3 DEF CondInv, IntervalInv, KeysDealt
  <2>4. opened[1] \in Group /\ opened[2] \in Group
    BY <1>3 DEF CondInv, IntervalInv, SharesOpened
  <2>5. order \in Nat \ {0, 1} /\ order \in Nat \ {0}
    BY <1>4
  <2>6. Reduce(Answer(0) + Answer(1)) = Reduce(Total)
    BY <2>3, <2>4, <2>5, AnswersAddUp
  <2>7. Total = Bit(Contains(Minus(x, r)))
    BY TotalIsContainment DEF CondInv, IntervalInv, IntervalRanges
  <2>8. Minus(x, r) = v
    BY <1>4, Unmasks
  <2>9. Contains(v) = (v < Middle)
    <3>1. v \in Int /\ 0 <= v
      BY <1>4, RingAssumption DEF Number
    <3>2. Contains(v) = (IF 0 <= Middle - 1 THEN 0 <= v /\ v <= Middle - 1
                                            ELSE 0 <= v \/ v <= Middle - 1)
      BY <1>4 DEF Contains
    <3> QED BY <3>1, <3>2, MiddleFacts
  <2>10. Reduce(Total) = Total
    <3>1. Bit(Contains(v)) \in {0, 1}
      BY DEF Bit
    <3> QED BY <2>5, <2>7, <2>8, <3>1, ReduceSmall
  <2>11. Reduce(result[0][1] + result[1][1]) = Bit(v < Middle)
    BY <2>2, <2>6, <2>7, <2>8, <2>9, <2>10
  <2> QED BY <1>7, <2>11 DEF Bit
<1> QED BY <1>6, <1>7

LEMMA CondInvTypes == CondInv => CondTypeOK
<1>1. CondInv => /\ {t, pi[0], pi[1], c[0], c[1]} \subseteq BOOLEAN
                 /\ {v, alpha[0], alpha[1]} \subseteq Number
  BY Zenon DEF CondInv, MaskShared
<1>2. CondInv => /\ letter \in [Party -> {<<>>} \cup
                      {<<[pointer |-> b, pad |-> <<p, b2>>]>> :
                         b \in BOOLEAN, b2 \in BOOLEAN, p \in Party}]
                 /\ source \in [Party -> Party]
                 /\ result \in [Party -> {<<>>} \cup {<<g>> : g \in Group}]
  BY DEF CondInv, Shaped
<1>3. CondInv => IntervalTypeOK
  BY DEF CondInv
<1> QED BY <1>1, <1>2, <1>3 DEF CondTypeOK

(* Everything drawn, sent and answered keeps its shape (condEval.rs:21-166). *)
THEOREM ConditionalKeepsType == CondSpec => []CondTypeOK
BY CondInvInit, CondInvStep, CondInvTypes, PTL DEF CondSpec

(* Two parties whose bits differ end with shares of whether the value is   *)
(* in the lower half of the ring, two whose bits are equal with shares of  *)
(* 0: for every even ring, every mask and its shares, every order of the   *)
(* ciphers, and whatever bytes a wrong pad turns up (condEval.rs:21-166).  *)
THEOREM ConditionalAlwaysAnswers == CondSpec => []ConditionalAnswer
<1> QED BY CondInvInit, CondInvStep, CondInvGives, PTL DEF CondSpec

-----------------------------------------------------------------------------
(* The key stream.                                                         *)

Bytes == Nat \X Nat

(* Where the stream is: the next byte has the place at, and the blocks     *)
(* from top on that have been passed were skipped.                         *)
Reached(at, top) ==
  /\ at + (have - ptr) = top * Block
  /\ top .. ctr - 1 \subseteq skipped
  /\ \A i \in 1 .. have - ptr :
       buf[ptr + i] = Byte(key, at + i - 1) /\ (at + i - 1) \div Block \notin skipped
  /\ \A i \in 1 .. Len(delivered) : \E place \in Due(at) : delivered[i] = Byte(key, place)
  /\ \A place \in Due(at) : \E i \in 1 .. Len(delivered) : delivered[i] = Byte(key, place)
  /\ \A i, j \in 1 .. Len(delivered) : i < j => delivered[i][2] < delivered[j][2]

StreamTypes ==
  /\ key \in Nat /\ ctr \in Nat
  /\ ptr \in Nat /\ have \in Nat /\ ptr <= have
  /\ buf \in Seq(Bytes) /\ (ptr < have => have <= Len(buf))
  /\ delivered \in Seq(Bytes)
  /\ skipped \subseteq 0 .. ctr - 1

(* An answer is as long as what is there of it and what is on its way.     *)
Answering ==
  /\ wanted \in Nat /\ words \in Nat
  /\ wanted = 0 => words = 0
  /\ answer.from \in Nat /\ answer.len \in Nat
  /\ answer.from + answer.len <= Len(delivered) + wanted + words * WordLen

StreamInv ==
  /\ StreamTypes
  /\ Answering
  /\ \E at \in 0 .. ctr * Block : \E top \in 0 .. ctr : Reached(at, top)

-----------------------------------------------------------------------------
(* Blocks and places.                                                      *)
LEMMA BlockOfPlace ==
  ASSUME NEW n \in Nat, NEW place \in Nat
  PROVE  /\ place < n * Block => place \div Block < n
         /\ place >= n * Block => place \div Block >= n
         /\ place \div Block \in Nat
<1> DEFINE q == place \div Block
           rem == place % Block
<1>1. /\ Block \in Nat \ {0}
  BY PrgStreamAssumption
<1>2. q \in Int /\ rem \in 0 .. Block - 1 /\ rem \in Int /\ place = Block * q + rem
  BY <1>1, Division
<1> HIDE DEF q, rem
<1>3. q \in Nat
  <2>1. CASE q < 0
    <3>1. PICK k \in Nat : q = -1 - k
      <4>1. -1 - q \in Nat /\ q = -1 - (-1 - q)
        BY <1>2, <2>1
      <4> QED BY <4>1
    <3>2. Block * q = -Block - Block * k /\ Block * k \in Nat
      BY <1>1, <3>1
    <3> QED BY <1>1, <1>2, <3>2
  <2> QED BY <1>2, <2>1
<1>4. place < n * Block => q < n
  <2> SUFFICES ASSUME ~(q < n) PROVE ~(place < n * Block)
    OBVIOUS
  <2>1. PICK k \in Nat : q = n + k
    <3>1. q - n \in Nat /\ q = n + (q - n)
      BY <1>3
    <3> QED BY <3>1
  <2>2. Block * q = n * Block + Block * k /\ Block * k \in Nat /\ n * Block \in Nat
    BY <1>1, <2>1
  <2> QED BY <1>2, <2>2
<1>5. place >= n * Block => q >= n
  <2> SUFFICES ASSUME ~(q >= n) PROVE ~(place >= n * Block)
    OBVIOUS
  <2>1. PICK k \in Nat : n = q + 1 + k
    <3>1. n - q - 1 \in Nat /\ n = q + 1 + (n - q - 1)
      BY <1>3
    <3> QED BY <3>1
  <2>2. n * Block = Block * q + Block + Block * k /\ Block * k \in Nat /\ Block * q \in Nat
    BY <1>1, <1>3, <2>1
  <2> QED BY <1>1, <1>2, <2>2
<1> QED BY <1>3, <1>4, <1>5 DEF q

LEMMA Rows ==
  ASSUME NEW m \in Nat, NEW n \in Nat
  PROVE  /\ m * Block \in Nat /\ n * Block \in Nat
         /\ m <= n => m * Block <= n * Block
         /\ (m + n) * Block = m * Block + n * Block
<1>1. Block \in Nat
  BY PrgStreamAssumption
<1>2. m * Block \in Nat /\ n * Block \in Nat /\ (m + n) * Block = m * Block + n * Block
  BY <1>1
<1>3. ASSUME m <= n PROVE m * Block <= n * Block
  <2>1. PICK k \in Nat : n = m + k
    <3>1. n - m \in Nat /\ n = m + (n - m)
      BY <1>3
    <3> QED BY <3>1
  <2>2. n * Block = m * Block + k * Block /\ k * Block \in Nat
    BY <1>1, <2>1
  <2> QED BY <1>2, <2>2
<1> QED BY <1>2, <1>3

(* How many words are drawn is enough.                                     *)
LEMMA WordsSuffice ==
  ASSUME NEW len \in Nat
  PROVE  WordsFor(len) \in Nat \ {0} /\ len <= WordLen + (WordsFor(len) - 1) * WordLen
<1> DEFINE q == len \div WordLen
           rem == len % WordLen
<1>1. WordLen \in Nat \ {0}
  BY PrgStreamAssumption
<1>2. q \in Int /\ rem \in 0 .. WordLen - 1 /\ rem \in Int /\ len = WordLen * q + rem
  BY <1>1, Division
<1>3. WordsFor(len) = q + 1
  BY DEF WordsFor
<1> HIDE DEF q, rem
<1>4. q \in Nat
  <2>1. CASE q < 0
    <3>1. PICK k \in Nat : q = -1 - k
      <4>1. -1 - q \in Nat /\ q = -1 - (-1 - q)
        BY <1>2, <2>1
      <4> QED BY <4>1
    <3>2. WordLen * q = -WordLen - WordLen * k /\ WordLen * k \in Nat
      BY <1>1, <3>1
    <3> QED BY <1>1, <1>2, <3>2
  <2> QED BY <1>2, <2>1
<1>5. (WordsFor(len) - 1) * WordLen = WordLen * q
  BY <1>1, <1>3, <1>4
<1> QED BY <1>1, <1>2, <1>3, <1>4, <1>5

-----------------------------------------------------------------------------
(* Every call keeps it.                                                    *)
LEMMA StreamInvInit == StreamInit => StreamInv
<1> SUFFICES ASSUME StreamInit PROVE StreamInv
  OBVIOUS
<1>1. /\ key = 0 /\ ctr = 0 /\ buf = <<>> /\ ptr = Block /\ have = Block
      /\ wanted = 0 /\ words = 0 /\ answer = [from |-> 0, len |-> 0]
      /\ delivered = <<>> /\ skipped = {}
  BY DEF StreamInit
<1>2. Block \in Nat /\ WordLen \in Nat
  BY PrgStreamAssumption
<1>3. StreamTypes
  BY <1>1, <1>2 DEF StreamTypes
<1>4. Answering
  <2>1. Len(delivered) = 0 /\ 0 * WordLen = 0
    BY <1>1, <1>2
  <2> QED BY <1>1, <2>1 DEF Answering
<1>5. Reached(0, 0)
  <2>1. 0 * Block = 0 /\ have - ptr = 0 /\ Len(delivered) = 0
    BY <1>1, <1>2
  <2>2. Due(0) = {}
    BY DEF Due
  <2> QED BY <1>1, <2>1, <2>2 DEF Reached
<1>6. 0 \in 0 .. ctr * Block /\ 0 \in 0 .. ctr
  BY <1>1, <1>2
<1> QED BY <1>3, <1>4, <1>5, <1>6 DEF StreamInv

LEMMA SetKeyKeeps ==
  ASSUME StreamInv, SetKey
  PROVE  StreamInv'
<1>1. /\ key' = key + 1 /\ ctr' = 0 /\ ptr' = Block /\ have' = Block /\ buf' = buf
      /\ delivered' = <<>> /\ skipped' = {} /\ answer' = [from |-> 0, len |-> 0]
      /\ wanted' = wanted /\ words' = words /\ wanted = 0
  BY DEF SetKey, Idle
<1>2. Block \in Nat /\ WordLen \in Nat
  BY PrgStreamAssumption
<1>3. StreamTypes'
  BY <1>1, <1>2 DEF StreamInv, StreamTypes
<1>4. Answering'
  <2>1. Len(delivered') = 0 /\ 0 * WordLen = 0 /\ words = 0
    BY <1>1, <1>2 DEF StreamInv, Answering
  <2>2. answer'.from = 0 /\ answer'.len = 0
    BY <1>1
  <2> QED BY <1>1, <2>1, <2>2 DEF Answering
<1>5. Reached(0, 0)'
  <2>1. 0 * Block = 0 /\ have' - ptr' = 0 /\ Len(delivered') = 0
    BY <1>1, <1>2
  <2>2. Due(0)' = {}
    BY DEF Due
  <2> QED BY <1>1, <2>1, <2>2 DEF Reached
<1>6. 0 \in 0 .. ctr' * Block /\ 0 \in 0 .. ctr'
  BY <1>1, <1>2
<1> QED BY <1>3, <1>4, <1>5, <1>6 DEF StreamInv

(* What a call that touches neither stream nor buffer leaves as it is.     *)
LEMMA StreamKept ==
  ASSUME StreamInv, key' = key, UNCHANGED buffer, delivered' = delivered, skipped' = skipped
  PROVE  StreamTypes' /\ \E at \in 0 .. ctr' * Block : \E top \in 0 .. ctr' : Reached(at, top)'
<1>1. ctr' = ctr /\ buf' = buf /\ ptr' = ptr /\ have' = have
  BY DEF buffer
<1>2. StreamTypes'
  BY <1>1 DEF StreamInv, StreamTypes
<1>3. PICK at \in 0 .. ctr * Block, top \in 0 .. ctr : Reached(at, top)
  BY DEF StreamInv
<1>4. Due(at)' = Due(at)
  BY DEF Due
<1>5. Reached(at, top)'
  BY <1>1, <1>3, <1>4 DEF Reached
<1> QED BY <1>1, <1>2, <1>3, <1>5

LEMMA FillBytesKeeps ==
  ASSUME StreamInv, FillBytes
  PROVE  StreamInv'
<1>1. /\ wanted = 0 /\ wanted' \in Nat /\ words' = words /\ answer' = answer
      /\ delivered' = delivered /\ key' = key /\ skipped' = skipped /\ UNCHANGED buffer
  BY PrgStreamAssumption DEF FillBytes, CanCall, Idle, caller
<1>2. Answering'
  <2>1. words = 0 /\ 0 * WordLen = 0 /\ Len(delivered) \in Nat
    BY <1>1, PrgStreamAssumption, LenProperties DEF StreamInv, Answering, StreamTypes
  <2> QED BY <1>1, <2>1 DEF StreamInv, Answering
<1> QED BY <1>1, <1>2, StreamKept DEF StreamInv

LEMMA NextBytesKeeps ==
  ASSUME StreamInv, NextBytes
  PROVE  StreamInv'
<1>1. /\ delivered' = delivered /\ key' = key /\ skipped' = skipped /\ UNCHANGED buffer
  BY DEF NextBytes
<1>2. PICK len \in Lengths :
        /\ answer' = [from |-> Len(delivered), len |-> len]
        /\ words' = IF WordsFor(len) = 0 THEN 0 ELSE WordsFor(len) - 1
        /\ wanted' = IF WordsFor(len) = 0 THEN 0 ELSE WordLen
  BY DEF NextBytes
<1>3. /\ len \in Nat /\ WordLen \in Nat \ {0} /\ Len(delivered) \in Nat
  BY PrgStreamAssumption, LenProperties DEF StreamInv, StreamTypes
<1>4. WordsFor(len) \in Nat \ {0} /\ len <= WordLen + (WordsFor(len) - 1) * WordLen
  BY <1>3, WordsSuffice
<1>5. words' = WordsFor(len) - 1 /\ wanted' = WordLen /\ words' \in Nat
  BY <1>2, <1>4
<1>6. answer'.from = Len(delivered) /\ answer'.len = len
  BY <1>2
<1>7. words' * WordLen \in Nat /\ len <= WordLen + words' * WordLen
  BY <1>3, <1>4, <1>5
<1>8. Answering'
  BY <1>1, <1>3, <1>5, <1>6, <1>7 DEF Answering
<1> QED BY <1>1, <1>8, StreamKept DEF StreamInv

LEMMA SkipBlockKeeps ==
  ASSUME StreamInv, SkipBlock
  PROVE  StreamInv'
<1>1. /\ key' = key /\ buf' = buf /\ ptr' = ptr /\ have' = have /\ wanted' = wanted
      /\ words' = words /\ answer' = answer /\ delivered' = delivered
      /\ \/ ctr' = ctr /\ skipped' = skipped
         \/ ctr' = ctr + 1 /\ skipped' = skipped \cup {ctr}
  BY DEF SkipBlock, caller
<1>2. Answering'
  BY <1>1 DEF StreamInv, Answering
<1>3. CASE ctr' = ctr /\ skipped' = skipped
  <2>1. UNCHANGED buffer
    BY <1>1, <1>3 DEF buffer
  <2> QED BY <1>1, <1>2, <1>3, <2>1, StreamKept DEF StreamInv
<1>4. CASE ctr' = ctr + 1 /\ skipped' = skipped \cup {ctr}
  <2>1. PICK at \in 0 .. ctr * Block, top \in 0 .. ctr : Reached(at, top)
    BY DEF StreamInv
  <2>2. /\ ctr \in Nat /\ ptr \in Nat /\ have \in Nat /\ ptr <= have
        /\ ctr * Block \in Nat /\ ctr' * Block \in Nat /\ ctr * Block <= ctr' * Block
        /\ top * Block \in Nat /\ top * Block <= ctr * Block
    <3>1. /\ ctr \in Nat /\ ptr \in Nat /\ have \in Nat /\ ptr <= have
          /\ ctr + 1 \in Nat /\ ctr <= ctr + 1 /\ top \in Nat /\ top <= ctr
      BY DEF StreamInv, StreamTypes
    <3>2. ctr * Block \in Nat /\ (ctr + 1) * Block \in Nat /\ ctr * Block <= (ctr + 1) * Block
      BY <3>1, Rows
    <3>3. top * Block \in Nat /\ top * Block <= ctr * Block
      BY <3>1, Rows
    <3> QED BY <1>4, <3>1, <3>2, <3>3
  <2>3. \A place \in Nat : place < ctr * Block => place \div Block # ctr
    BY <2>2, BlockOfPlace
  <2>4. Due(at)' = Due(at)
    <3>1. \A place \in 0 .. at - 1 : place \in Nat /\ place < ctr * Block
      BY <2>1, <2>2
    <3>2. \A place \in 0 .. at - 1 : place \div Block \notin skipped' <=> place \div Block \notin skipped
      BY <1>4, <2>3, <3>1
    <3> QED BY <3>2 DEF Due
  <2>5. ASSUME NEW i \in 1 .. have' - ptr'
        PROVE  /\ buf'[ptr' + i] = Byte(key', at + i - 1)
               /\ (at + i - 1) \div Block \notin skipped'
    <3>1. i \in 1 .. have - ptr
      BY <1>1
    <3>2. buf[ptr + i] = Byte(key, at + i - 1) /\ (at + i - 1) \div Block \notin skipped
      BY <2>1, <3>1 DEF Reached
    <3>3. at + i - 1 \in Nat /\ at + i - 1 < ctr * Block
      <4>1. at + (have - ptr) = top * Block
        BY <2>1 DEF Reached
      <4> QED BY <2>1, <2>2, <3>1, <4>1
    <3>4. (at + i - 1) \div Block # ctr
      BY <2>3, <3>3
    <3> QED BY <1>1, <1>4, <3>2, <3>4
  <2>6. top .. ctr' - 1 \subseteq skipped'
    <3>1. \A j \in top .. ctr' - 1 : j \in top .. ctr - 1 \/ j = ctr
      BY <1>4, <2>2
    <3> QED BY <1>4, <2>1, <3>1 DEF Reached
  <2>7. Reached(at, top)'
    BY <1>1, <2>1, <2>4, <2>5, <2>6 DEF Reached
  <2>8. at \in 0 .. ctr' * Block /\ top \in 0 .. ctr'
    BY <1>4, <2>1, <2>2
  <2>9. StreamTypes'
    <3>1. skipped' \subseteq 0 .. ctr' - 1
      BY <1>4, <2>2 DEF StreamInv, StreamTypes
    <3> QED BY <1>1, <1>4, <3>1 DEF StreamInv, StreamTypes
  <2> QED BY <1>2, <2>7, <2>8, <2>9 DEF StreamInv
<1> QED BY <1>1, <1>3, <1>4

LEMMA RefillsKeeps ==
  ASSUME StreamInv, NEW blocks \in Nat \ {0}, Refills(blocks), ptr = have,
         key' = key, wanted' = wanted, UNCHANGED caller, delivered' = delivered, skipped' = skipped
  PROVE  StreamInv'
<1> DEFINE m == blocks * Block
<1>1. /\ buf' = [i \in 1 .. m |-> Byte(key, ctr * Block + i - 1)]
      /\ ctr' = ctr + blocks /\ ptr' = 0 /\ have' = m
      /\ words' = words /\ answer' = answer
  BY DEF Refills, caller
<1>2. PICK at \in 0 .. ctr * Block, top \in 0 .. ctr : Reached(at, top)
  BY DEF StreamInv
<1>3. /\ ctr \in Nat /\ key \in Nat /\ top \in Nat /\ m \in Nat
      /\ ctr * Block \in Nat /\ ctr' * Block = ctr * Block + m
      /\ top * Block \in Nat /\ top * Block <= ctr * Block
  BY <1>1, <1>2, Rows DEF StreamInv, StreamTypes
<1> HIDE DEF m
<1>4. at = top * Block
  <2>1. at + (have - ptr) = top * Block /\ have \in Nat
    BY <1>2 DEF Reached, StreamInv, StreamTypes
  <2> QED BY <2>1
<1>5. \A i \in 1 .. m : buf'[i] = Byte(key, ctr * Block + i - 1) /\ Byte(key, ctr * Block + i - 1) \in Bytes
  BY <1>1, <1>3 DEF Byte, Bytes
<1>6. buf' \in Seq(Bytes) /\ Len(buf') = m
  <2>1. buf' \in [1 .. m -> Bytes]
    BY <1>1, <1>5
  <2> QED BY <1>3, <2>1, SeqDef, LenProperties
<1>7. StreamTypes'
  <2>1. skipped' \subseteq 0 .. ctr' - 1
    BY <1>1, <1>3 DEF StreamInv, StreamTypes
  <2> QED BY <1>1, <1>3, <1>6, <2>1 DEF StreamInv, StreamTypes
<1>8. Answering'
  BY <1>1 DEF StreamInv, Answering
<1>9. PICK place \in Nat : place = ctr * Block
  BY <1>3
<1>10. Due(place)' = Due(at)
  <2>1. ASSUME NEW i \in 0 .. place - 1, i \div Block \notin skipped
        PROVE  i \in 0 .. at - 1
    <3>1. i \in Nat /\ i < ctr * Block
      BY <1>3, <1>9
    <3>2. i \div Block < ctr /\ i \div Block \in Nat
      BY <1>3, <3>1, BlockOfPlace
    <3>3. ~(i \div Block >= top)
      <4>1. i \div Block \notin top .. ctr - 1
        BY <1>2, <2>1 DEF Reached
      <4> QED BY <1>3, <3>2, <4>1
    <3>4. ~(i >= top * Block)
      BY <1>3, <3>1, <3>3, BlockOfPlace
    <3> QED BY <1>3, <1>4, <3>1, <3>4
  <2>2. \A i \in 0 .. at - 1 : i \in 0 .. place - 1
    BY <1>3, <1>4, <1>9
  <2> QED BY <2>1, <2>2 DEF Due
<1>11. \A i \in 1 .. m : (place + i - 1) \div Block \notin skipped
  <2> SUFFICES ASSUME NEW i \in 1 .. m PROVE (place + i - 1) \div Block \notin skipped
    OBVIOUS
  <2>1. place + i - 1 \in Nat /\ place + i - 1 >= ctr * Block
    BY <1>3, <1>9
  <2>2. PICK there \in Nat : there = place + i - 1
    BY <2>1
  <2>3. there \div Block >= ctr
    BY <1>3, <2>1, <2>2, BlockOfPlace
  <2>4. \A b \in skipped : ~(b >= ctr)
    BY <1>3 DEF StreamInv, StreamTypes
  <2> QED BY <2>2, <2>3, <2>4
<1>12. PICK last \in Nat : last = ctr'
  BY <1>1, <1>3
<1>13. place + (have' - ptr') = last * Block
  BY <1>1, <1>3, <1>9, <1>12
<1>14. \A i \in 1 .. have' - ptr' :
         buf'[ptr' + i] = Byte(key, place + i - 1) /\ (place + i - 1) \div Block \notin skipped
  BY <1>1, <1>3, <1>5, <1>9, <1>11
<1>15. last .. ctr' - 1 \subseteq skipped
  <2>1. last .. last - 1 = {}
    OBVIOUS
  <2> QED BY <1>12, <2>1
<1>16. Reached(place, last)'
  BY <1>2, <1>10, <1>13, <1>14, <1>15 DEF Reached
<1>17. place \in 0 .. ctr' * Block /\ last \in 0 .. ctr'
  BY <1>3, <1>9, <1>12
<1> QED BY <1>7, <1>8, <1>16, <1>17 DEF StreamInv

LEMMA CopyKeeps ==
  ASSUME StreamInv, Copy
  PROVE  StreamInv'
<1> DEFINE run == Run
           new == SubSeq(buf, ptr + 1, ptr + run)
           L   == Len(delivered)
<1>1. /\ key' = key /\ ctr' = ctr /\ buf' = buf /\ have' = have /\ answer' = answer
      /\ skipped' = skipped /\ ptr' = ptr + run /\ ptr # have /\ wanted > 0
      /\ delivered' = delivered \o new /\ Goes(wanted - run)
  BY DEF Copy
<1>2. PICK at \in 0 .. ctr * Block, top \in 0 .. ctr : Reached(at, top)
  BY DEF StreamInv
<1>3. /\ ptr \in Nat /\ have \in Nat /\ ptr < have /\ have <= Len(buf)
      /\ buf \in Seq(Bytes) /\ delivered \in Seq(Bytes) /\ L \in Nat
      /\ wanted \in Nat /\ words \in Nat /\ ctr \in Nat
  BY <1>1, LenProperties DEF StreamInv, StreamTypes, Answering
<1>4. run \in 1 .. have - ptr /\ run <= wanted
  BY <1>1, <1>3 DEF Run
<1> HIDE DEF run
<1>5. new \in Seq(Bytes) /\ Len(new) = run /\ \A i \in 1 .. run : new[i] = buf[ptr + i]
  <2>1. \A i \in ptr + 1 .. ptr + run : buf[i] \in Bytes
    <3>1. \A i \in ptr + 1 .. ptr + run : i \in 1 .. Len(buf)
      BY <1>3, <1>4, LenProperties
    <3> QED BY <1>3, <3>1, ElementOfSeq
  <2>2. /\ new \in Seq(Bytes)
        /\ Len(new) = IF ptr + 1 <= ptr + run THEN ptr + run - (ptr + 1) + 1 ELSE 0
        /\ \A i \in 1 .. ptr + run - (ptr + 1) + 1 : new[i] = buf[ptr + 1 + i - 1]
    BY <1>3, <1>4, <2>1, SubSeqProperties
  <2> HIDE DEF new
  <2>3. ptr + run - (ptr + 1) + 1 = run /\ ptr + 1 <= ptr + run
    BY <1>3, <1>4
  <2>4. \A i \in 1 .. run : ptr + 1 + i - 1 = ptr + i
    BY <1>3, <1>4
  <2> QED BY <2>2, <2>3, <2>4
<1> HIDE DEF new
<1>6. /\ delivered' \in Seq(Bytes) /\ Len(delivered') = L + run
      /\ \A i \in 1 .. L : delivered'[i] = delivered[i]
      /\ \A i \in 1 .. run : delivered'[L + i] = new[i]
  <2>1. /\ delivered' \in Seq(Bytes) /\ Len(delivered') = L + run
        /\ \A i \in 1 .. L + run : delivered'[i] = IF i <= L THEN delivered[i] ELSE new[i - L]
    BY <1>1, <1>3, <1>5, ConcatProperties
  <2>2. \A i \in 1 .. L : i \in 1 .. L + run /\ i <= L
    BY <1>3, <1>4
  <2>3. \A i \in 1 .. run : L + i \in 1 .. L + run /\ ~(L + i <= L) /\ (L + i) - L = i
    BY <1>3, <1>4
  <2> HIDE DEF L
  <2> QED BY <2>1, <2>2, <2>3
<1>7. \A i \in 1 .. run : /\ delivered'[L + i] = Byte(key, at + i - 1)
                         /\ (at + i - 1) \div Block \notin skipped
  <2>1. \A i \in 1 .. run : i \in 1 .. have - ptr
    BY <1>3, <1>4
  <2> QED BY <1>2, <1>5, <1>6, <2>1 DEF Reached
<1>8. /\ at \in Nat /\ at + run \in Nat /\ at + (have - ptr) = top * Block
      /\ top * Block \in Nat /\ top * Block <= ctr * Block /\ ctr * Block \in Nat
  BY <1>2, <1>3, <1>4, Rows DEF Reached
<1>9. PICK next \in Nat : next = at + run
  BY <1>8
<1>10. next + (have' - ptr') = top * Block
  BY <1>1, <1>3, <1>4, <1>8, <1>9
<1>11. \A i \in 1 .. have' - ptr' :
         buf'[ptr' + i] = Byte(key', next + i - 1) /\ (next + i - 1) \div Block \notin skipped'
  <2> SUFFICES ASSUME NEW i \in 1 .. have' - ptr'
               PROVE  /\ buf'[ptr' + i] = Byte(key', next + i - 1)
                      /\ (next + i - 1) \div Block \notin skipped'
    OBVIOUS
  <2>1. run + i \in 1 .. have - ptr /\ ptr' + i = ptr + (run + i) /\ next + i - 1 = at + (run + i) - 1
    BY <1>1, <1>3, <1>4, <1>8, <1>9
  <2> QED BY <1>1, <1>2, <2>1 DEF Reached
<1>12. \A i \in 0 .. next - 1 : i \in 0 .. at - 1 \/ (i - at + 1 \in 1 .. run /\ at + (i - at + 1) - 1 = i)
  BY <1>4, <1>8, <1>9
<1>13. \A i \in 0 .. at - 1 : i \in 0 .. next - 1
  BY <1>4, <1>8, <1>9
<1>14. \A i \in 1 .. run : at + i - 1 \in 0 .. next - 1
  BY <1>4, <1>8, <1>9
<1>15. \A i : i \in 1 .. L + run => i \in 1 .. L \/ (i - L \in 1 .. run /\ L + (i - L) = i)
  BY <1>3, <1>4
<1>16. \A i \in 1 .. Len(delivered') : \E place \in Due(next)' : delivered'[i] = Byte(key', place)
  <2> SUFFICES ASSUME NEW i \in 1 .. L + run
               PROVE  \E place \in Due(next)' : delivered'[i] = Byte(key', place)
    BY <1>6
  <2>1. CASE i \in 1 .. L
    <3>1. PICK place \in Due(at) : delivered[i] = Byte(key, place)
      BY <1>2, <2>1 DEF Reached
    <3>2. place \in Due(next)'
      BY <1>1, <1>13 DEF Due
    <3> QED BY <1>1, <1>6, <2>1, <3>1, <3>2
  <2>2. CASE i - L \in 1 .. run /\ L + (i - L) = i
    <3>1. PICK k \in 1 .. run : i = L + k
      BY <2>2
    <3>2. delivered'[i] = Byte(key, at + k - 1) /\ (at + k - 1) \div Block \notin skipped
      BY <1>7, <3>1
    <3>3. at + k - 1 \in Due(next)'
      BY <1>1, <1>14, <3>2 DEF Due
    <3> QED BY <1>1, <3>2, <3>3
  <2> QED BY <1>15, <2>1, <2>2
<1>17. \A place \in Due(next)' : \E i \in 1 .. Len(delivered') : delivered'[i] = Byte(key', place)
  <2> SUFFICES ASSUME NEW place \in Due(next)'
               PROVE  \E i \in 1 .. L + run : delivered'[i] = Byte(key', place)
    BY <1>6
  <2>1. place \in 0 .. next - 1 /\ place \div Block \notin skipped
    BY <1>1 DEF Due
  <2>2. CASE place \in 0 .. at - 1
    <3>1. place \in Due(at)
      BY <2>1, <2>2 DEF Due
    <3>2. PICK i \in 1 .. L : delivered[i] = Byte(key, place)
      BY <1>2, <3>1 DEF Reached
    <3>3. i \in 1 .. L + run
      BY <1>3, <1>4
    <3>4. delivered'[i] = delivered[i]
      BY <1>6
    <3> QED BY <1>1, <3>2, <3>3, <3>4
  <2>3. CASE place - at + 1 \in 1 .. run /\ at + (place - at + 1) - 1 = place
    <3>1. PICK k \in 1 .. run : at + k - 1 = place
      BY <2>3
    <3>2. L + k \in 1 .. L + run /\ delivered'[L + k] = Byte(key, place)
      BY <1>3, <1>4, <1>7, <3>1
    <3> QED BY <1>1, <3>2
  <2> QED BY <1>12, <2>1, <2>2, <2>3
<1>18. \A i, j \in 1 .. Len(delivered') : i < j => delivered'[i][2] < delivered'[j][2]
  <2> SUFFICES ASSUME NEW i \in 1 .. L + run, NEW j \in 1 .. L + run, i < j
               PROVE  delivered'[i][2] < delivered'[j][2]
    BY <1>6
  <2>1. \A place : Byte(key, place)[2] = place
    BY DEF Byte
  <2>2. CASE j \in 1 .. L
    <3>1. i \in 1 .. L
      BY <1>3, <2>2
    <3> QED BY <1>2, <1>6, <2>2, <3>1 DEF Reached
  <2>3. CASE j - L \in 1 .. run /\ L + (j - L) = j
    <3>1. PICK k \in 1 .. run : j = L + k
      BY <2>3
    <3>2. delivered'[j][2] = at + k - 1
      BY <1>7, <2>1, <3>1
    <3>3. CASE i \in 1 .. L
      <4>1. PICK place \in Due(at) : delivered[i] = Byte(key, place)
        BY <1>2, <3>3 DEF Reached
      <4>2. delivered'[i][2] = place /\ place \in 0 .. at - 1
        BY <1>6, <2>1, <3>3, <4>1 DEF Due
      <4> QED BY <1>4, <1>8, <3>2, <4>2
    <3>4. CASE i - L \in 1 .. run /\ L + (i - L) = i
      <4>1. PICK l \in 1 .. run : i = L + l
        BY <3>4
      <4>2. delivered'[i][2] = at + l - 1
        BY <1>7, <2>1, <4>1
      <4>3. l < k
        BY <1>3, <1>4, <3>1, <4>1
      <4> QED BY <1>4, <1>8, <3>2, <4>2, <4>3
    <3> QED BY <1>15, <3>3, <3>4
  <2> QED BY <1>15, <2>2, <2>3
<1>19. Reached(next, top)'
  BY <1>1, <1>2, <1>10, <1>11, <1>16, <1>17, <1>18 DEF Reached
<1>20. next \in 0 .. ctr' * Block /\ top \in 0 .. ctr'
  BY <1>1, <1>3, <1>4, <1>8, <1>9
<1>21. StreamTypes'
  BY <1>1, <1>3, <1>4, <1>6 DEF StreamInv, StreamTypes
<1>22. Answering'
  <2>1. /\ answer.from \in Nat /\ answer.len \in Nat
        /\ answer.from + answer.len <= L + wanted + words * WordLen
        /\ WordLen \in Nat \ {0} /\ words * WordLen \in Nat
    BY <1>3, PrgStreamAssumption DEF StreamInv, Answering
  <2>2. CASE wanted - run = 0 /\ words > 0
    <3>1. wanted' = WordLen /\ words' = words - 1
      BY <1>1, <2>2 DEF Goes
    <3>2. words' * WordLen = words * WordLen - WordLen
      BY <1>3, <2>1, <3>1
    <3>3. L + run + WordLen + words' * WordLen = L + wanted + words * WordLen
      BY <1>3, <1>4, <2>1, <2>2, <3>2
    <3>4. wanted' # 0 /\ wanted' \in Nat /\ words' \in Nat
      BY <1>3, <2>1, <2>2, <3>1
    <3> QED BY <1>1, <1>6, <2>1, <3>1, <3>3, <3>4 DEF Answering
  <2>3. CASE ~(wanted - run = 0 /\ words > 0)
    <3>1. wanted' = wanted - run /\ words' = words
      BY <1>1, <2>3 DEF Goes
    <3>2. wanted' \in Nat /\ (wanted' = 0 => words' = 0)
      BY <1>3, <1>4, <2>3, <3>1
    <3>3. L + run + wanted' + words' * WordLen = L + wanted + words * WordLen
      BY <1>3, <1>4, <2>1, <3>1
    <3> QED BY <1>1, <1>3, <1>6, <2>1, <3>1, <3>2, <3>3 DEF Answering
  <2> QED BY <2>2, <2>3
<1> QED BY <1>19, <1>20, <1>21, <1>22 DEF StreamInv

LEMMA StreamInvStep == StreamInv /\ [StreamNext]_streamVars => StreamInv'
<1> SUFFICES ASSUME StreamInv, [StreamNext]_streamVars PROVE StreamInv'
  OBVIOUS
<1>1. CASE SetKey
  BY <1>1, SetKeyKeeps
<1>2. CASE SkipBlock
  BY <1>2, SkipBlockKeeps
<1>3. CASE FillBytes
  BY <1>3, FillBytesKeeps
<1>4. CASE NextBytes
  BY <1>4, NextBytesKeeps
<1>5. ASSUME UNCHANGED <<key, buffer, wanted, caller, delivered, skipped>> PROVE StreamInv'
  <2>1. Answering'
    BY <1>5 DEF StreamInv, Answering, caller
  <2> QED BY <1>5, <2>1, StreamKept DEF StreamInv
<1>6. CASE Refill8
  <2>1. Wide \in Nat \ {0}
    BY PrgStreamAssumption
  <2> QED BY <1>6, <2>1, RefillsKeeps DEF Refill8
<1>7. CASE Refill
  <2>1. CASE Refills(1)
    BY <1>7, <2>1, RefillsKeeps DEF Refill
  <2>2. CASE UNCHANGED buffer
    BY <1>5, <1>7, <2>2 DEF Refill
  <2> QED BY <1>7, <2>1, <2>2 DEF Refill
<1>8. CASE Copy
  BY <1>8, CopyKeeps
<1>9. CASE UNCHANGED streamVars
  BY <1>5, <1>9 DEF streamVars
<1> QED BY <1>1, <1>2, <1>3, <1>4, <1>6, <1>7, <1>8, <1>9 DEF StreamNext, Rest

LEMMA StreamInvGives == StreamInv => Delivered
<1> SUFFICES ASSUME StreamInv PROVE Delivered
  OBVIOUS
<1>1. PICK at \in 0 .. ctr * Block, top \in 0 .. ctr : Reached(at, top)
  BY DEF StreamInv
<1>2. {delivered[i] : i \in 1 .. Len(delivered)} = {Byte(key, place) : place \in Due(at)}
  BY <1>1 DEF Reached
<1>3. \A i, j \in 1 .. Len(delivered) : i < j => delivered[i][2] < delivered[j][2]
  BY <1>1 DEF Reached
<1>4. Idle => answer.from + answer.len <= Len(delivered)
  <2> SUFFICES ASSUME Idle PROVE answer.from + answer.len <= Len(delivered)
    OBVIOUS
  <2>1. wanted = 0 /\ words = 0 /\ 0 * WordLen = 0 /\ Len(delivered) \in Nat
    BY PrgStreamAssumption, LenProperties DEF Idle, StreamInv, Answering, StreamTypes
  <2> QED BY <2>1 DEF StreamInv, Answering
<1> QED BY <1>1, <1>2, <1>3, <1>4 DEF Delivered, StreamInv, StreamTypes

(* Whatever is asked for, in pieces or in words, under however many keys:  *)
(* each byte of the stream that was not skipped comes once and in its      *)
(* turn, none of another key, and no answer is cut from too little         *)
(* (prg.rs:204-268, 352-371).                                              *)
THEOREM StreamAlwaysDelivered == StreamSpec => []Delivered
<1>1. StreamSpec => []StreamInv
  BY StreamInvInit, StreamInvStep, PTL DEF StreamSpec
<1> QED BY <1>1, StreamInvGives, PTL

(* A set of numbers has a least one: what is proved below for every        *)
(* number, or every number of bits, is proved from the least               *)
(* counterexample.                                                         *)
LEMMA Least ==
  ASSUME NEW S, S \subseteq Nat, S # {}
  PROVE  \E m \in S : \A k \in S : m <= k
<1> DEFINE R == OpToRel(<, Nat)
<1>1. IsWellFoundedOn(R, Nat)
  BY NatLessThanWellFounded
<1>2. \A a \in Nat : \A b \in Nat : a < b => <<a, b>> \in R
  BY DEF OpToRel
<1> HIDE DEF R
<1>3. PICK m \in S : \A k \in S : ~(<<k, m>> \in R)
  BY <1>1, WFMin
<1>4. \A k \in S : ~(k < m)
  BY <1>2, <1>3
<1> QED BY <1>3, <1>4

-----------------------------------------------------------------------------
(* The powers of two.                                                      *)
PowersTo(n, f) == f = [k \in 0 .. n |-> IF k = 0 THEN 1 ELSE 2 * f[k - 1]]

LEMMA PowersExist ==
  ASSUME NEW n \in Nat
  PROVE  \E f : PowersTo(n, f)
<1> DEFINE Without == {m \in Nat : ~ \E f : PowersTo(m, f)}
<1> SUFFICES ASSUME Without # {} PROVE FALSE
  OBVIOUS
<1>1. PICK m \in Without : \A i \in Without : m <= i
  BY Least
<1>2. m # 0
  <2>1. PowersTo(0, [k \in {0} |-> 1])
    BY DEF PowersTo
  <2> QED BY <2>1
<1>3. m - 1 \in Nat /\ m - 1 \notin Without
  BY <1>1, <1>2
<1>4. PICK f : PowersTo(m - 1, f)
  BY <1>3
<1> DEFINE g == [k \in 0 .. m |-> IF k = m THEN 2 * f[m - 1] ELSE f[k]]
<1>5. \A k \in 0 .. m - 1 : f[k] = IF k = 0 THEN 1 ELSE 2 * f[k - 1]
  BY <1>4, Zenon DEF PowersTo
<1>6. \A k \in 0 .. m : g[k] = IF k = 0 THEN 1 ELSE 2 * g[k - 1]
  BY <1>2, <1>5
<1>7. PowersTo(m, g)
  BY <1>6, Zenon DEF PowersTo
<1> QED BY <1>7

LEMMA PowersAgree ==
  ASSUME NEW n \in Nat, NEW f, PowersTo(n, f), NEW m \in Nat, NEW g, PowersTo(m, g),
         NEW k \in Nat, k <= n, k <= m
  PROVE  f[k] = g[k]
<1>1. \A i \in 0 .. n : f[i] = IF i = 0 THEN 1 ELSE 2 * f[i - 1]
  BY Zenon DEF PowersTo
<1>2. \A i \in 0 .. m : g[i] = IF i = 0 THEN 1 ELSE 2 * g[i - 1]
  BY Zenon DEF PowersTo
<1> DEFINE Bad == {i \in 0 .. k : f[i] # g[i]}
<1> SUFFICES ASSUME Bad # {} PROVE FALSE
  OBVIOUS
<1>3. Bad \subseteq Nat
  OBVIOUS
<1>4. PICK i \in Bad : \A j \in Bad : i <= j
  BY <1>3, Least
<1>5. i # 0
  BY <1>1, <1>2, <1>4
<1>6. i - 1 \in 0 .. k /\ i - 1 \notin Bad
  BY <1>4, <1>5
<1> QED BY <1>1, <1>2, <1>4, <1>5, <1>6

(* So the recursion defines a function on all numbers.                     *)
LEMMA PowersBy ==
  /\ Pow2[0] = 1
  /\ \A n \in Nat : Pow2[n + 1] = 2 * Pow2[n]
<1> DEFINE Of(n) == CHOOSE f : PowersTo(n, f)
           h     == [n \in Nat |-> Of(n)[n]]
<1>1. \A n \in Nat : PowersTo(n, Of(n))
  BY PowersExist, Zenon
<1>2. \A n \in Nat : h[n] = IF n = 0 THEN 1 ELSE 2 * h[n - 1]
  <2> SUFFICES ASSUME NEW n \in Nat
               PROVE  h[n] = IF n = 0 THEN 1 ELSE 2 * h[n - 1]
    OBVIOUS
  <2> HIDE DEF Of
  <2>1. \A k \in 0 .. n : Of(n)[k] = IF k = 0 THEN 1 ELSE 2 * Of(n)[k - 1]
    BY <1>1, Zenon DEF PowersTo
  <2>2. n > 0 => Of(n)[n - 1] = Of(n - 1)[n - 1]
    BY <1>1, PowersAgree
  <2> QED BY <2>1, <2>2
<1> HIDE DEF Of
<1>3. h = [n \in Nat |-> IF n = 0 THEN 1 ELSE 2 * h[n - 1]]
  BY <1>2, Zenon
<1> HIDE DEF h
<1>4. Pow2 = [n \in Nat |-> IF n = 0 THEN 1 ELSE 2 * Pow2[n - 1]]
  BY <1>3, Zenon DEF Pow2
<1>5. \A n \in Nat : Pow2[n] = IF n = 0 THEN 1 ELSE 2 * Pow2[n - 1]
  BY <1>4, Zenon
<1> QED BY <1>5

(* What is used of the powers of two.                                      *)
LEMMA Powers ==
  /\ Pow2[0] = 1
  /\ \A n \in Nat : Pow2[n] \in Nat \ {0} /\ Pow2[n + 1] = 2 * Pow2[n]
<1> DEFINE Bad == {n \in Nat : Pow2[n] \notin Nat \ {0}}
<1>1. Bad = {}
  <2> SUFFICES ASSUME Bad # {} PROVE FALSE
    OBVIOUS
  <2>1. PICK n \in Bad : \A j \in Bad : n <= j
    BY Least
  <2>2. n # 0
    BY <2>1, PowersBy
  <2>3. n - 1 \in Nat /\ n - 1 \notin Bad
    BY <2>1, <2>2
  <2>4. Pow2[(n - 1) + 1] = 2 * Pow2[n - 1]
    BY <2>3, PowersBy
  <2>5. (n - 1) + 1 = n
    BY <2>1
  <2> QED BY <2>1, <2>3, <2>4, <2>5
<1> QED BY <1>1, PowersBy

(* A power divides every higher one, an even number of times.              *)
LEMMA PowersDivide ==
  ASSUME NEW i \in Nat, NEW k \in Nat, i < k
  PROVE  \E u \in Nat \ {0} : Pow2[k] = 2 * u * Pow2[i]
<1> DEFINE Bad == {n \in Nat : i < n /\ ~ \E u \in Nat \ {0} : Pow2[n] = 2 * u * Pow2[i]}
<1> SUFFICES ASSUME Bad # {} PROVE FALSE
  OBVIOUS
<1>1. PICK n \in Bad : \A j \in Bad : n <= j
  BY Least
<1>2. n - 1 \in Nat /\ n - 1 \notin Bad /\ Pow2[n] = 2 * Pow2[n - 1]
  <2>1. n - 1 \in Nat /\ (n - 1) + 1 = n
    BY <1>1
  <2> QED BY <1>1, <2>1, Powers
<1>3. n - 1 # i
  <2> SUFFICES ASSUME n - 1 = i PROVE FALSE
    OBVIOUS
  <2>1. Pow2[n] = 2 * 1 * Pow2[i]
    BY <1>2, Powers
  <2> QED BY <1>1, <2>1
<1>4. PICK u \in Nat \ {0} : Pow2[n - 1] = 2 * u * Pow2[i]
  BY <1>1, <1>2, <1>3
<1>5. Pow2[n] = 2 * (2 * u) * Pow2[i] /\ 2 * u \in Nat \ {0}
  BY <1>2, <1>4, Powers
<1> QED BY <1>1, <1>5

LEMMA PowersGrow ==
  ASSUME NEW i \in Nat, NEW k \in Nat, i < k
  PROVE  2 * Pow2[i] <= Pow2[k]
<1>1. PICK u \in Nat \ {0} : Pow2[k] = 2 * u * Pow2[i]
  BY PowersDivide
<1>2. Pow2[i] \in Nat \ {0}
  BY Powers
<1>3. u * Pow2[i] >= Pow2[i] /\ 2 * u * Pow2[i] = 2 * (u * Pow2[i])
  BY <1>2
<1> QED BY <1>1, <1>2, <1>3

(* The power at or below a number.                                         *)
LEMMA TopPower ==
  ASSUME NEW n \in Nat, NEW m \in 1 .. Pow2[n] - 1
  PROVE  \E k \in 0 .. n - 1 : Pow2[k] <= m /\ m < Pow2[k + 1]
<1> DEFINE Above == {k \in Nat : m < Pow2[k]}
<1>1. Pow2[n] \in Nat \ {0}
  BY Powers
<1>2. n \in Above
  BY <1>1
<1>3. PICK j \in Above : \A i \in Above : j <= i
  BY <1>2, Least
<1>4. j # 0
  BY <1>1, <1>3, Powers
<1>5. j - 1 \in Nat /\ j - 1 \notin Above /\ (j - 1) + 1 = j
  BY <1>3, <1>4
<1>6. Pow2[j - 1] \in Nat /\ Pow2[(j - 1) + 1] = Pow2[j] /\ j <= n
  BY <1>2, <1>3, <1>5, Powers
<1> QED BY <1>1, <1>3, <1>4, <1>5, <1>6

-----------------------------------------------------------------------------
(* Digits.                                                                 *)
LEMMA DivBy ==
  ASSUME NEW b \in Nat \ {0}, NEW u \in Nat, NEW m \in Nat
  PROVE  (u * b + m) \div b = u + (m \div b)
OBVIOUS

(* Digits at and above k, and below, of a number less than the k-th power  *)
(* and of one between that power and the next.                             *)
LEMMA DigitsBelow ==
  ASSUME NEW k \in Nat, NEW m \in 0 .. Pow2[k] - 1, NEW i \in Nat, i >= k
  PROVE  ~Digit(m, i)
<1>1. Pow2[i] \in Nat \ {0} /\ Pow2[k] \in Nat \ {0} /\ Pow2[k] <= Pow2[i]
  <2>1. CASE i = k
    BY <2>1, Powers
  <2>2. CASE i > k
    BY <2>2, Powers, PowersGrow
  <2> QED BY <2>1, <2>2
<1>2. m \div Pow2[i] = 0
  BY <1>1
<1> QED BY <1>2 DEF Digit

LEMMA DigitsAbove ==
  ASSUME NEW k \in Nat, NEW m \in 0 .. Pow2[k] - 1, NEW i \in Nat
  PROVE  /\ i < k => (Digit(Pow2[k] + m, i) <=> Digit(m, i))
         /\ i = k => Digit(Pow2[k] + m, i)
         /\ i > k => ~Digit(Pow2[k] + m, i)
<1>1. Pow2[k] \in Nat \ {0} /\ m \in Nat /\ Pow2[i] \in Nat \ {0}
  BY Powers
<1>2. ASSUME i < k PROVE Digit(Pow2[k] + m, i) <=> Digit(m, i)
  <2>1. PICK u \in Nat \ {0} : Pow2[k] = 2 * u * Pow2[i]
    BY <1>2, PowersDivide
  <2>2. (2 * u * Pow2[i] + m) \div Pow2[i] = 2 * u + (m \div Pow2[i])
    <3>1. 2 * u \in Nat
      BY <2>1
    <3> QED BY <1>1, <3>1, DivBy
  <2> DEFINE q == m \div Pow2[i]
  <2>3. q \in Nat
    BY <1>1
  <2> HIDE DEF q
  <2>4. (2 * u + q) % 2 = q % 2
    BY <2>1, <2>3
  <2> QED BY <2>1, <2>2, <2>4 DEF Digit, q
<1>3. ASSUME i = k PROVE Digit(Pow2[k] + m, i)
  <2>1. (1 * Pow2[k] + m) \div Pow2[k] = 1 + (m \div Pow2[k])
    BY <1>1, DivBy
  <2>2. m \div Pow2[k] = 0
    BY <1>1
  <2>3. (Pow2[k] + m) \div Pow2[k] = 1
    BY <1>1, <2>1, <2>2
  <2> QED BY <1>3, <2>3 DEF Digit
<1>4. ASSUME i > k PROVE ~Digit(Pow2[k] + m, i)
  <2>1. Pow2[k] + m \in 0 .. Pow2[k + 1] - 1
    BY <1>1, Powers
  <2> QED BY <1>4, <2>1, DigitsBelow
<1> QED BY <1>2, <1>3, <1>4

(* So the digits of a location are its highest one and those of the rest.  *)
LEMMA DigitsOf ==
  ASSUME MBeaverAssumption, NEW k \in 0 .. Dim, NEW m \in 0 .. Pow2[k] - 1
  PROVE  /\ Digits(m) \subseteq 0 .. k - 1
         /\ Digits(Pow2[k] + m) = Digits(m) \cup {k}
         /\ Top(Pow2[k] + m) = k
<1>1. Dim \in Nat /\ k \in Nat
  BY DEF MBeaverAssumption
<1>2. \A i \in 0 .. Dim : i >= k => ~Digit(m, i)
  BY <1>1, DigitsBelow
<1>3. Digits(m) \subseteq 0 .. k - 1
  BY <1>1, <1>2 DEF Digits
<1>4. \A i \in 0 .. Dim : /\ i < k => (Digit(Pow2[k] + m, i) <=> Digit(m, i))
                          /\ i = k => Digit(Pow2[k] + m, i)
                          /\ i > k => ~Digit(Pow2[k] + m, i)
  BY <1>1, DigitsAbove
<1>5. \A i \in 0 .. Dim : Digit(Pow2[k] + m, i) <=> (Digit(m, i) \/ i = k)
  BY <1>1, <1>2, <1>4
<1>6. Digits(Pow2[k] + m) = Digits(m) \cup {k}
  BY <1>5 DEF Digits
<1> DEFINE S == Digits(Pow2[k] + m)
<1>7. k \in S /\ \A j \in S : j <= k
  BY <1>1, <1>3, <1>6
<1>8. S \subseteq Int
  BY DEF Digits
<1> HIDE DEF S
<1>9. \A i \in S : (\A j \in S : j <= i) => i = k
  BY <1>7, <1>8
<1>10. (CHOOSE i \in S : \A j \in S : j <= i) = k
  BY <1>7, <1>9, Zenon
<1> QED BY <1>3, <1>6, <1>10 DEF Top, S

(* The conjunction of the bits a location names.                           *)
All(d, loc) == \A i \in Digits(loc) : d[i]

LEMMA AllBy ==
  ASSUME MBeaverAssumption, NEW d, NEW k \in 0 .. Dim, NEW m \in 0 .. Pow2[k] - 1
  PROVE  /\ All(d, Pow2[k] + m) <=> All(d, m) /\ d[k]
         /\ All(d, 0)
<1>1. Digits(Pow2[k] + m) = Digits(m) \cup {k}
  BY DigitsOf
<1>2. 0 \in 0 .. Dim /\ 0 \in 0 .. Pow2[0] - 1
  BY Powers DEF MBeaverAssumption
<1>3. Digits(0) = {}
  <2>1. Digits(0) \subseteq 0 .. 0 - 1
    BY <1>2, DigitsOf
  <2> QED BY <2>1
<1> QED BY <1>1, <1>3, Zenon DEF All

-----------------------------------------------------------------------------
(* The extension of opened bits is the conjunction of the digits.          *)
IsExtended(n, d, f) ==
  f = [loc \in Locations(n) |->
         IF loc = Atom(Top(loc)) THEN d[Top(loc)]
         ELSE f[loc - Atom(Top(loc))] /\ d[Top(loc)]]

(* A location is a power of two and a rest, which is zero or a location.   *)
LEMMA LocationsBy ==
  ASSUME MBeaverAssumption, NEW n \in 0 .. Dim, NEW loc \in Locations(n)
  PROVE  \E k \in 0 .. n - 1 : \E m \in 0 .. Pow2[k] - 1 :
           /\ loc = Pow2[k] + m /\ Top(loc) = k
           /\ m # 0 => m \in Locations(n)
<1>1. n \in Nat /\ Dim \in Nat
  BY DEF MBeaverAssumption
<1>2. PICK k \in 0 .. n - 1 : Pow2[k] <= loc /\ loc < Pow2[k + 1]
  BY <1>1, TopPower DEF Locations
<1>3. Pow2[k] \in Nat \ {0} /\ Pow2[k + 1] = 2 * Pow2[k] /\ Pow2[n] \in Nat
  <2>1. k \in Nat
    OBVIOUS
  <2> QED BY <1>1, <2>1, Powers
<1> DEFINE m == loc - Pow2[k]
<1>4. m \in 0 .. Pow2[k] - 1 /\ loc = Pow2[k] + m
  BY <1>2, <1>3 DEF Locations
<1>5. m # 0 => m \in Locations(n)
  BY <1>3, <1>4 DEF Locations
<1> HIDE DEF m
<1>6. k \in 0 .. Dim
  BY <1>1
<1>7. Top(loc) = k
  BY <1>4, <1>6, DigitsOf
<1> QED BY <1>4, <1>5, <1>7

(* One step of the recursion of Extended, of the conjunctions.             *)
LEMMA ExtendedStep ==
  ASSUME MBeaverAssumption, NEW n \in 0 .. Dim, NEW d \in Bits(n),
         NEW loc \in Locations(n)
  PROVE  /\ loc = Atom(Top(loc)) => (All(d, loc) <=> d[Top(loc)])
         /\ loc # Atom(Top(loc)) =>
              /\ loc - Atom(Top(loc)) \in Locations(n)
              /\ loc - Atom(Top(loc)) < loc
              /\ All(d, loc) <=> All(d, loc - Atom(Top(loc))) /\ d[Top(loc)]
         /\ d[Top(loc)] \in BOOLEAN
<1>0. PICK k \in 0 .. n - 1 : \E m \in 0 .. Pow2[k] - 1 :
        /\ loc = Pow2[k] + m /\ Top(loc) = k
        /\ m # 0 => m \in Locations(n)
  BY LocationsBy
<1>1. PICK m \in 0 .. Pow2[k] - 1 :
        loc = Pow2[k] + m /\ Top(loc) = k /\ (m # 0 => m \in Locations(n))
  BY <1>0
<1>2. k \in 0 .. Dim /\ k \in Nat /\ Pow2[k] \in Nat \ {0} /\ m \in Nat
  BY Powers DEF MBeaverAssumption
<1>3. (All(d, loc) <=> All(d, m) /\ d[k]) /\ All(d, 0)
  BY <1>1, <1>2, AllBy
<1>4. Atom(Top(loc)) = Pow2[k]
  BY <1>1 DEF Atom
<1>5. loc - Atom(Top(loc)) = m /\ (loc = Atom(Top(loc)) <=> m = 0)
  BY <1>1, <1>2, <1>4
<1>6. m < loc
  BY <1>1, <1>2
<1>7. d[k] \in BOOLEAN
  BY DEF Bits
<1> QED BY <1>1, <1>3, <1>5, <1>6, <1>7

(* Up to the first location where they differ they agree, so nowhere do    *)
(* they.                                                                   *)
LEMMA ExtendedIs ==
  ASSUME MBeaverAssumption, NEW n \in 0 .. Dim, NEW d \in Bits(n)
  PROVE  \A loc \in Locations(n) : Extended(n, d)[loc] <=> All(d, loc)
<1> DEFINE w == [loc \in Locations(n) |-> All(d, loc)]
           f == CHOOSE f : IsExtended(n, d, f)
<1>1. \A loc \in Locations(n) :
        w[loc] = IF loc = Atom(Top(loc)) THEN d[Top(loc)]
                 ELSE w[loc - Atom(Top(loc))] /\ d[Top(loc)]
  <2> SUFFICES ASSUME NEW loc \in Locations(n)
               PROVE  w[loc] = IF loc = Atom(Top(loc)) THEN d[Top(loc)]
                               ELSE w[loc - Atom(Top(loc))] /\ d[Top(loc)]
    OBVIOUS
  <2>1. w[loc] = All(d, loc) /\ w[loc] \in BOOLEAN
    BY DEF All
  <2>2. CASE loc = Atom(Top(loc))
    BY <2>1, <2>2, ExtendedStep
  <2>3. CASE loc # Atom(Top(loc))
    <3>1. loc - Atom(Top(loc)) \in Locations(n)
          /\ (All(d, loc) <=> All(d, loc - Atom(Top(loc))) /\ d[Top(loc)])
      BY <2>3, ExtendedStep
    <3>2. w[loc - Atom(Top(loc))] = All(d, loc - Atom(Top(loc)))
      BY <3>1
    <3> HIDE DEF w
    <3> QED BY <2>1, <2>3, <3>1, <3>2
  <2> QED BY <2>2, <2>3
<1>2. IsExtended(n, d, w)
  BY <1>1, Zenon DEF IsExtended
<1>3. IsExtended(n, d, f)
  BY <1>2, Zenon
<1>4. Extended(n, d) = f
  BY Zenon DEF Extended, IsExtended
<1> HIDE DEF f
<1>5. \A loc \in Locations(n) :
        f[loc] = IF loc = Atom(Top(loc)) THEN d[Top(loc)]
                 ELSE f[loc - Atom(Top(loc))] /\ d[Top(loc)]
  BY <1>3, Zenon DEF IsExtended
<1> DEFINE Bad == {loc \in Locations(n) : ~(f[loc] <=> All(d, loc))}
<1>6. Bad = {}
  <2> SUFFICES ASSUME Bad # {} PROVE FALSE
    OBVIOUS
  <2>1. Bad \subseteq Nat
    BY DEF Locations
  <2>2. PICK loc \in Bad : \A j \in Bad : loc <= j
    BY <2>1, Least
  <2>3. CASE loc = Atom(Top(loc))
    BY <1>5, <2>2, <2>3, ExtendedStep
  <2>4. CASE loc # Atom(Top(loc))
    <3>1. /\ loc - Atom(Top(loc)) \in Locations(n) /\ loc - Atom(Top(loc)) < loc
          /\ All(d, loc) <=> All(d, loc - Atom(Top(loc))) /\ d[Top(loc)]
      BY <2>4, ExtendedStep
    <3>2. loc \in Nat /\ loc - Atom(Top(loc)) \in Nat
      BY <2>1, <3>1 DEF Locations
    <3>3. loc - Atom(Top(loc)) \notin Bad
      BY <2>2, <3>1, <3>2
    <3> QED BY <1>5, <2>2, <2>4, <3>1, <3>3
  <2> QED BY <2>3, <2>4
<1> QED BY <1>4, <1>6

-----------------------------------------------------------------------------
(* Parity.                                                                 *)
LEMMA OddUnion ==
  ASSUME NEW A, IsFiniteSet(A), NEW B, IsFiniteSet(B), A \cap B = {}
  PROVE  IsFiniteSet(A \cup B) /\ (Odd(A \cup B) <=> ~(Odd(A) <=> Odd(B)))
<1>1. Cardinality(A) \in Nat /\ Cardinality(B) \in Nat /\ IsFiniteSet(A \cup B)
  BY FS_CardinalityType, FS_Union
<1>2. Cardinality(A \cup B) = Cardinality(A) + Cardinality(B) - Cardinality({})
  BY FS_Union
<1>3. Cardinality(A \cup B) = Cardinality(A) + Cardinality(B)
  BY <1>1, <1>2, FS_EmptySet
<1> QED BY <1>1, <1>3 DEF Odd

(* The parity of a symmetric difference: two parties that each count some  *)
(* terms count, together, those that only one of them counts.              *)
LEMMA OddDifference ==
  ASSUME NEW A, IsFiniteSet(A), NEW B, IsFiniteSet(B)
  PROVE  Odd((A \ B) \cup (B \ A)) <=> ~(Odd(A) <=> Odd(B))
<1> DEFINE C == A \cap B
<1>1. IsFiniteSet(A \ B) /\ IsFiniteSet(B \ A) /\ IsFiniteSet(C)
  BY FS_Difference, FS_Intersection
<1>2. A = (A \ B) \cup C /\ (A \ B) \cap C = {}
  OBVIOUS
<1>3. B = (B \ A) \cup C /\ (B \ A) \cap C = {} /\ (A \ B) \cap (B \ A) = {}
  OBVIOUS
<1> HIDE DEF C
<1>4. Odd(A) <=> ~(Odd(A \ B) <=> Odd(C))
  BY <1>1, <1>2, OddUnion
<1>5. Odd(B) <=> ~(Odd(B \ A) <=> Odd(C))
  BY <1>1, <1>3, OddUnion
<1>6. Odd((A \ B) \cup (B \ A)) <=> ~(Odd(A \ B) <=> Odd(B \ A))
  BY <1>1, <1>3, OddUnion
<1> QED BY <1>4, <1>5, <1>6

LEMMA OddShift ==
  ASSUME NEW A \in SUBSET Nat, IsFiniteSet(A), NEW u \in Nat,
         NEW T, T = {u + e : e \in A}
  PROVE  IsFiniteSet(T) /\ (Odd(T) <=> Odd(A))
<1> DEFINE f == [e \in A |-> u + e]
<1>1. f \in [A -> T]
  OBVIOUS
<1>2. \A e, y \in A : f[e] = f[y] => e = y
  OBVIOUS
<1>3. \A y \in T : \E e \in A : f[e] = y
  OBVIOUS
<1> HIDE DEF f
<1>4. f \in Bijection(A, T)
  BY <1>1, <1>2, <1>3 DEF Bijection, Injection, Surjection, IsInjective
<1>5. IsFiniteSet(T) /\ Cardinality(T) = Cardinality(A)
  BY <1>4, FS_Bijection DEF ExistsBijection
<1> QED BY <1>5 DEF Odd

LEMMA OddSingle ==
  /\ IsFiniteSet({}) /\ ~Odd({})
  /\ \A e : IsFiniteSet({e}) /\ Odd({e})
<1>1. IsFiniteSet({}) /\ Cardinality({}) = 0
  BY FS_EmptySet
<1>2. \A e : IsFiniteSet({e}) /\ Cardinality({e}) = 1
  BY FS_Singleton
<1>3. ~Odd({})
  BY <1>1 DEF Odd
<1>4. \A e : Odd({e})
  <2> SUFFICES ASSUME NEW e PROVE Odd({e})
    OBVIOUS
  <2>1. Cardinality({e}) % 2 = 1
    BY <1>2
  <2> QED BY <2>1, Zenon DEF Odd
<1> QED BY <1>1, <1>2, <1>3, <1>4, Zenon

-----------------------------------------------------------------------------
(* Of k masked bits d and the masks a: the products of opened bits and     *)
(* complementary masks that are set.                                       *)
Terms(d, a, k) == {loc \in 0 .. Pow2[k] - 1 : All(d, loc) /\ All(a, Pow2[k] - 1 - loc)}

LEMMA TermsFinite ==
  ASSUME NEW d, NEW a, NEW k \in Nat
  PROVE  Terms(d, a, k) \in SUBSET Nat /\ IsFiniteSet(Terms(d, a, k))
<1>1. Terms(d, a, k) \subseteq 0 .. Pow2[k] - 1 /\ Pow2[k] \in Nat
  BY Powers DEF Terms
<1>2. IsFiniteSet(0 .. Pow2[k] - 1)
  BY <1>1, FS_Interval
<1> QED BY <1>1, <1>2, FS_Subset

(* One bit more: each term has the mask of the new bit, or the bit.        *)
LEMMA TermsStep ==
  ASSUME MBeaverAssumption, NEW d, NEW a, NEW k \in 0 .. Dim - 1
  PROVE  Terms(d, a, k + 1) =
           (IF a[k] THEN Terms(d, a, k) ELSE {})
             \cup (IF d[k] THEN {Pow2[k] + loc : loc \in Terms(d, a, k)} ELSE {})
<1> DEFINE P == Pow2[k]
           lower == IF a[k] THEN Terms(d, a, k) ELSE {}
           upper == IF d[k] THEN {P + loc : loc \in Terms(d, a, k)} ELSE {}
<1>1. k \in Nat /\ k \in 0 .. Dim /\ Dim \in Nat
  BY DEF MBeaverAssumption
<1>2. P \in Nat \ {0} /\ Pow2[k + 1] = 2 * P
  BY <1>1, Powers
<1>3. \A m \in 0 .. P - 1 :
        /\ All(d, P + m) <=> All(d, m) /\ d[k]
        /\ All(a, P + m) <=> All(a, m) /\ a[k]
  BY <1>1, AllBy
<1>4. Terms(d, a, k) = {loc \in 0 .. P - 1 : All(d, loc) /\ All(a, P - 1 - loc)}
  BY DEF Terms
<1>5. Terms(d, a, k + 1) =
        {loc \in 0 .. 2 * P - 1 : All(d, loc) /\ All(a, 2 * P - 1 - loc)}
  BY <1>2 DEF Terms
<1> HIDE DEF P
<1>6. ASSUME NEW loc \in 0 .. P - 1
      PROVE  loc \in Terms(d, a, k + 1) <=> loc \in lower
  <2> DEFINE m == P - 1 - loc
  <2>1. 2 * P - 1 - loc = P + m /\ m \in 0 .. P - 1
    BY <1>2
  <2> HIDE DEF m
  <2>6. All(a, P + m) <=> All(a, m) /\ a[k]
    BY <1>3, <2>1
  <2>2. All(a, 2 * P - 1 - loc) <=> All(a, m) /\ a[k]
    BY <2>1, <2>6
  <2>3. loc \in 0 .. 2 * P - 1
    BY <1>2
  <2>4. loc \in Terms(d, a, k) <=> All(d, loc) /\ All(a, m)
    BY <1>4 DEF m
  <2>5. loc \in Terms(d, a, k + 1) <=> All(d, loc) /\ All(a, m) /\ a[k]
    BY <1>5, <2>2, <2>3, Zenon
  <2> QED BY <2>4, <2>5
<1>7. ASSUME NEW m \in 0 .. P - 1
      PROVE  P + m \in Terms(d, a, k + 1) <=> m \in Terms(d, a, k) /\ d[k]
  <2>1. 2 * P - 1 - (P + m) = P - 1 - m /\ P + m \in 0 .. 2 * P - 1
    BY <1>2
  <2>2. P + m \in Terms(d, a, k + 1) <=> All(d, P + m) /\ All(a, P - 1 - m)
    BY <1>5, <2>1, Zenon
  <2>3. m \in Terms(d, a, k) <=> All(d, m) /\ All(a, P - 1 - m)
    BY <1>4
  <2>4. All(d, P + m) <=> All(d, m) /\ d[k]
    BY <1>3
  <2> QED BY <2>2, <2>3, <2>4
<1>8. Terms(d, a, k + 1) \subseteq 0 .. 2 * P - 1 /\ Terms(d, a, k) \subseteq 0 .. P - 1
  BY <1>4, <1>5
<1>9. ASSUME NEW e \in Terms(d, a, k + 1) PROVE e \in lower \cup upper
  <2>1. CASE e \in 0 .. P - 1
    BY <1>6, <2>1
  <2>2. CASE e \notin 0 .. P - 1
    <3>1. e - P \in 0 .. P - 1 /\ e = P + (e - P)
      BY <1>2, <1>8, <2>2
    <3>2. e - P \in Terms(d, a, k) /\ d[k]
      BY <1>7, <3>1
    <3> QED BY <3>1, <3>2
  <2> QED BY <2>1, <2>2
<1>10. ASSUME NEW e \in lower PROVE e \in Terms(d, a, k + 1)
  BY <1>6, <1>8
<1>11. ASSUME NEW e \in upper PROVE e \in Terms(d, a, k + 1)
  BY <1>7, <1>8
<1> QED BY <1>9, <1>10, <1>11 DEF P

(* The number of terms is odd if each bit is set.                          *)
LEMMA TermsParity ==
  ASSUME MBeaverAssumption, NEW n \in 0 .. Dim, NEW d \in Bits(n), NEW a \in Bits(n)
  PROVE  Odd(Terms(d, a, n)) <=> \A i \in 0 .. n - 1 : ~(d[i] <=> a[i])
<1> DEFINE AllTo(k) == \A i \in 0 .. k - 1 : ~(d[i] <=> a[i])
           Bad == {k \in 0 .. n : ~(Odd(Terms(d, a, k)) <=> AllTo(k))}
<1>1. n \in Nat /\ Dim \in Nat
  BY DEF MBeaverAssumption
<1>2. Bad = {}
  <2> SUFFICES ASSUME Bad # {} PROVE FALSE
    OBVIOUS
  <2>1. PICK k \in Bad : \A j \in Bad : k <= j
    <3>1. Bad \subseteq Nat
      BY <1>1
    <3> QED BY <3>1, Least
  <2>2. k # 0
    <3>1. Pow2[0] = 1
      BY Powers
    <3>2. All(d, 0) /\ All(a, 0)
      <4>1. 0 \in 0 .. Dim /\ 0 \in 0 .. Pow2[0] - 1
        BY <1>1, <3>1
      <4> QED BY <4>1, AllBy
    <3>3. Terms(d, a, 0) = {0}
      BY <3>1, <3>2 DEF Terms
    <3>4. Odd(Terms(d, a, 0))
      BY <3>3, OddSingle, Zenon
    <3>5. AllTo(0)
      OBVIOUS
    <3> QED BY <2>1, <3>4, <3>5
  <2> DEFINE j == k - 1
  <2>3. /\ j \in 0 .. n /\ j \in 0 .. Dim - 1 /\ j \in Nat /\ j + 1 = k
        /\ j \in 0 .. n - 1 /\ k - 1 = j
    BY <1>1, <2>1, <2>2
  <2>4. j \notin Bad
    BY <2>1, <2>3
  <2> HIDE DEF j
  <2>5. Odd(Terms(d, a, j)) <=> AllTo(j)
    BY <2>3, <2>4
  <2>6. AllTo(k) <=> AllTo(j) /\ ~(d[j] <=> a[j])
    <3>1. \A i : i \in 0 .. k - 1 <=> (i \in 0 .. j - 1 \/ i = j)
      BY <2>3
    <3> QED BY <3>1
  <2> DEFINE T == Terms(d, a, j)
             U == {Pow2[j] + loc : loc \in T}
  <2>7. Terms(d, a, k) = (IF a[j] THEN T ELSE {}) \cup (IF d[j] THEN U ELSE {})
    BY <2>3, TermsStep
  <2>8. T \in SUBSET Nat /\ IsFiniteSet(T) /\ Pow2[j] \in Nat
    BY <2>3, TermsFinite, Powers
  <2>9. T \cap U = {}
    <3>1. T \subseteq 0 .. Pow2[j] - 1
      BY DEF Terms
    <3> QED BY <2>8, <3>1
  <2> HIDE DEF T
  <2> HIDE DEF U
  <2>10. IsFiniteSet(U) /\ (Odd(U) <=> Odd(T))
    <3>1. U = {Pow2[j] + loc : loc \in T}
      BY DEF U
    <3> QED BY <2>8, <3>1, OddShift
  <2>11. d[j] \in BOOLEAN /\ a[j] \in BOOLEAN
    BY <2>3 DEF Bits
  <2>12. T \cup U = (T \cup U) /\ (Odd(T \cup U) <=> ~(Odd(T) <=> Odd(U)))
    BY <2>8, <2>9, <2>10, OddUnion
  <2>13. Odd(Terms(d, a, k)) <=> (~(d[j] <=> a[j]) /\ Odd(T))
    <3>1. CASE a[j] /\ d[j]
      <4>1. Terms(d, a, k) = T \cup U
        BY <2>7, <3>1
      <4> QED BY <2>10, <2>12, <3>1, <4>1
    <3>2. CASE a[j] /\ ~d[j]
      <4>1. Terms(d, a, k) = T
        BY <2>7, <3>2
      <4> QED BY <3>2, <4>1
    <3>3. CASE ~a[j] /\ d[j]
      <4>1. Terms(d, a, k) = U
        BY <2>7, <3>3
      <4> QED BY <2>10, <3>3, <4>1
    <3>4. CASE ~a[j] /\ ~d[j]
      <4>1. Terms(d, a, k) = {}
        BY <2>7, <3>4
      <4> QED BY <3>4, <4>1, OddSingle
    <3> QED BY <3>1, <3>2, <3>3, <3>4
  <2> QED BY <2>1, <2>5, <2>6, <2>13 DEF T
<1> QED BY <1>1, <1>2

-----------------------------------------------------------------------------
(* The two halves are of the products of the bits a.                       *)
HalvesOf(half, n, a) ==
  \A loc \in Locations(n) : ~(half[0][loc] <=> half[1][loc]) <=> All(a, loc)

(* The bits d are the shared bits w under the masks of both halves.        *)
IsMasked(d, w, half, n) ==
  \A i \in 0 .. n - 1 :
    d[i] <=> ~(~(w[0][i] <=> half[0][Atom(i)]) <=> ~(w[1][i] <=> half[1][Atom(i)]))

(* What Muls computes from either half adds up to the conjunction.         *)
LEMMA MulsSum ==
  ASSUME MBeaverAssumption, NEW n \in 1 .. Dim, NEW d \in Bits(n), NEW a \in Bits(n),
         NEW half \in [Party -> [Locations(n) -> BOOLEAN]],
         HalvesOf(half, n, a)
  PROVE  ~(Muls(n, Extended(n, d), half[0], FALSE) <=> Muls(n, Extended(n, d), half[1], TRUE))
           <=> \A i \in 0 .. n - 1 : ~(d[i] <=> a[i])
<1> DEFINE N == Pow2[n] - 1
           D == Extended(n, d)
           T(p) == {loc \in 1 .. N - 1 : D[loc] /\ half[p][N - loc]}
           U == {loc \in 1 .. N - 1 : All(d, loc) /\ All(a, N - loc)}
<1>1. n \in 0 .. Dim /\ n \in Nat /\ Dim \in Nat /\ 0 \in Party /\ 1 \in Party
  BY DEF MBeaverAssumption, Party
<1>2. N \in Nat \ {0} /\ Locations(n) = 1 .. N
  <2>1. 2 * Pow2[0] <= Pow2[n] /\ Pow2[n] \in Nat /\ Pow2[0] = 1
    BY <1>1, PowersGrow, Powers
  <2> QED BY <2>1 DEF Locations
<1>3. \A loc \in 1 .. N : D[loc] <=> All(d, loc)
  BY <1>1, <1>2, ExtendedIs
<1>4. \A loc \in 1 .. N : ~(half[0][loc] <=> half[1][loc]) <=> All(a, loc)
  BY <1>2 DEF HalvesOf
<1>5. All(d, 0) /\ All(a, 0)
  <2>1. 0 \in 0 .. Dim /\ 0 \in 0 .. Pow2[0] - 1
    BY <1>1, Powers
  <2> QED BY <2>1, AllBy
<1>6. Terms(d, a, n) = {loc \in 0 .. N : All(d, loc) /\ All(a, N - loc)}
  BY DEF Terms
<1> HIDE DEF N, D
<1>7. \A p \in Party : IsFiniteSet(T(p))
  <2>1. IsFiniteSet(1 .. N - 1) /\ \A p \in Party : T(p) \subseteq 1 .. N - 1
    BY <1>2, FS_Interval
  <2> QED BY <2>1, FS_Subset
<1>8. U = (T(0) \ T(1)) \cup (T(1) \ T(0))
  <2>1. \A loc \in 1 .. N - 1 : N - loc \in 1 .. N /\ loc \in 1 .. N
    BY <1>2
  <2> QED BY <1>3, <1>4, <2>1
<1> HIDE DEF T
<1>9. Odd(U) <=> ~(Odd(T(0)) <=> Odd(T(1)))
  BY <1>1, <1>7, <1>8, OddDifference
<1> DEFINE ends == {loc \in {0, N} : All(d, loc) /\ All(a, N - loc)}
<1>10. Terms(d, a, n) = U \cup ends /\ U \cap ends = {}
  <2>1. \A loc : loc \in 0 .. N <=> (loc \in 1 .. N - 1 \/ loc \in {0, N})
    BY <1>2
  <2>2. (1 .. N - 1) \cap {0, N} = {}
    BY <1>2
  <2> QED BY <1>6, <2>1, <2>2
<1>11. (0 \in ends <=> All(a, N)) /\ (N \in ends <=> All(d, N)) /\ ends \subseteq {0, N}
  <2>1. N - 0 = N /\ N - N = 0
    BY <1>2
  <2> QED BY <1>5, <2>1
<1>12. IsFiniteSet(U) /\ IsFiniteSet(ends)
  <2>1. IsFiniteSet(1 .. N - 1) /\ U \subseteq 1 .. N - 1
    BY <1>2, FS_Interval
  <2>2. IsFiniteSet({0} \cup {N}) /\ ends \subseteq {0} \cup {N}
    BY FS_Singleton, FS_Union
  <2> QED BY <2>1, <2>2, FS_Subset
<1> HIDE DEF U, ends
<1>13. Odd(ends) <=> ~(All(a, N) <=> All(d, N))
  <2>1. 0 # N
    BY <1>2
  <2>2. IsFiniteSet({0}) /\ IsFiniteSet({N}) /\ {0} \cap {N} = {}
        /\ Odd({0}) /\ Odd({N}) /\ ~Odd({})
    BY <2>1, OddSingle
  <2>3. ~Odd({0} \cup {N})
    BY <2>2, OddUnion
  <2>4. CASE All(a, N) /\ All(d, N)
    <3>1. ends = {0} \cup {N}
      BY <1>11, <2>4
    <3> QED BY <2>3, <2>4, <3>1
  <2>5. CASE All(a, N) /\ ~All(d, N)
    <3>1. ends = {0}
      BY <1>11, <2>5
    <3> QED BY <2>2, <2>5, <3>1
  <2>6. CASE ~All(a, N) /\ All(d, N)
    <3>1. ends = {N}
      BY <1>11, <2>6
    <3> QED BY <2>2, <2>6, <3>1
  <2>7. CASE ~All(a, N) /\ ~All(d, N)
    <3>1. ends = {}
      BY <1>11, <2>7
    <3> QED BY <2>2, <2>7, <3>1
  <2> QED BY <2>4, <2>5, <2>6, <2>7
<1>14. Odd(Terms(d, a, n)) <=> ~(Odd(U) <=> Odd(ends))
  BY <1>10, <1>12, OddUnion
<1>15. N \in 1 .. N
  BY <1>2
<1>16. (D[N] <=> All(d, N)) /\ (~(half[0][N] <=> half[1][N]) <=> All(a, N))
  BY <1>3, <1>4, <1>15
<1>17. half[0][N] \in BOOLEAN /\ half[1][N] \in BOOLEAN
  BY <1>1, <1>2, <1>15
<1>18. Muls(n, D, half[0], FALSE) <=> ~(half[0][N] <=> Odd(T(0)))
  <2>1. Muls(n, D, half[0], FALSE) = ((FALSE /\ D[N]) # (half[0][N] # Odd(T(0))))
    BY Zenon DEF Muls, T, N
  <2>2. Odd(T(0)) \in BOOLEAN
    BY Zenon DEF Odd
  <2> QED BY <1>17, <2>1, <2>2, Zenon
<1>19. Muls(n, D, half[1], TRUE) <=> ~(All(d, N) <=> ~(half[1][N] <=> Odd(T(1))))
  <2>1. Muls(n, D, half[1], TRUE) = ((TRUE /\ D[N]) # (half[1][N] # Odd(T(1))))
    BY Zenon DEF Muls, T, N
  <2>2. Odd(T(1)) \in BOOLEAN
    BY Zenon DEF Odd
  <2> QED BY <1>16, <1>17, <2>1, <2>2, Zenon
<1>20. Odd(Terms(d, a, n)) <=> \A i \in 0 .. n - 1 : ~(d[i] <=> a[i])
  BY <1>1, TermsParity
<1>21. Odd(Terms(d, a, n)) <=> ~(Muls(n, D, half[0], FALSE) <=> Muls(n, D, half[1], TRUE))
  BY <1>9, <1>13, <1>14, <1>16, <1>18, <1>19
<1> QED BY <1>20, <1>21 DEF D

(* The location of one bit has that bit for its only digit.                *)
LEMMA AtomBy ==
  ASSUME MBeaverAssumption, NEW n \in 1 .. Dim, NEW i \in 0 .. n - 1, NEW a
  PROVE  Atom(i) \in Locations(n) /\ (All(a, Atom(i)) <=> a[i])
<1>1. i \in 0 .. Dim /\ i \in Nat /\ n \in Nat /\ i < n
  BY DEF MBeaverAssumption
<1>2. Pow2[i] \in Nat \ {0} /\ 2 * Pow2[i] <= Pow2[n] /\ Pow2[n] \in Nat
  BY <1>1, Powers, PowersGrow
<1>3. 0 \in 0 .. Pow2[i] - 1 /\ Pow2[i] + 0 = Pow2[i]
  BY <1>2
<1>4. (All(a, Pow2[i] + 0) <=> All(a, 0) /\ a[i]) /\ All(a, 0)
  BY <1>1, <1>3, AllBy
<1>5. Pow2[i] \in 1 .. Pow2[n] - 1
  BY <1>2
<1> QED BY <1>3, <1>4, <1>5 DEF Atom, Locations

(* The material for n bits is told from that for any other number by its   *)
(* length: this is what product compares.                                  *)
LEMMA LocationsApart ==
  ASSUME MBeaverAssumption, NEW n \in 1 .. Dim, NEW m \in 1 .. Dim
  PROVE  /\ n <= m => Locations(n) \subseteq Locations(m)
         /\ Locations(n) = Locations(m) => n = m
<1>1. n \in Nat /\ m \in Nat
  OBVIOUS
<1>2. /\ Pow2[n] \in Nat \ {0} /\ Pow2[m] \in Nat \ {0}
      /\ n < m => 2 * Pow2[n] <= Pow2[m]
      /\ m < n => 2 * Pow2[m] <= Pow2[n]
  BY <1>1, Powers, PowersGrow
<1>3. ASSUME n < m PROVE Pow2[m] - 1 \in Locations(m) /\ Pow2[m] - 1 \notin Locations(n)
  BY <1>2, <1>3 DEF Locations
<1>4. ASSUME m < n PROVE Pow2[n] - 1 \in Locations(n) /\ Pow2[n] - 1 \notin Locations(m)
  BY <1>2, <1>4 DEF Locations
<1>5. n <= m => Locations(n) \subseteq Locations(m)
  BY <1>1, <1>2 DEF Locations
<1> QED BY <1>1, <1>3, <1>4, <1>5

(* The same of the whole gadget: d are the masked bits, put together.      *)
LEMMA ConjunctionBy ==
  ASSUME MBeaverAssumption, NEW n \in 2 .. Dim, NEW a \in Bits(n),
         NEW half \in [Party -> [Locations(n) -> BOOLEAN]],
         HalvesOf(half, n, a),
         NEW w \in [Party -> Bits(n)], NEW d \in Bits(n), IsMasked(d, w, half, n)
  PROVE  ConjunctionShare(n, d, half[0], FALSE) # ConjunctionShare(n, d, half[1], TRUE)
           <=> \A i \in 0 .. n - 1 : w[0][i] # w[1][i]
<1>1. n \in 1 .. Dim /\ 0 \in Party /\ 1 \in Party
  BY DEF Party
<1>2. ~(Muls(n, Extended(n, d), half[0], FALSE) <=> Muls(n, Extended(n, d), half[1], TRUE))
        <=> \A i \in 0 .. n - 1 : ~(d[i] <=> a[i])
  BY <1>1, MulsSum
<1>3. \A i \in 0 .. n - 1 : ~(d[i] <=> a[i]) <=> w[0][i] # w[1][i]
  <2> SUFFICES ASSUME NEW i \in 0 .. n - 1
               PROVE  ~(d[i] <=> a[i]) <=> w[0][i] # w[1][i]
    OBVIOUS
  <2>1. w[0][i] \in BOOLEAN /\ w[1][i] \in BOOLEAN
    BY <1>1 DEF Bits
  <2>2. Atom(i) \in Locations(n) /\ (All(a, Atom(i)) <=> a[i])
    BY <1>1, AtomBy
  <2>3. ~(half[0][Atom(i)] <=> half[1][Atom(i)]) <=> a[i]
    BY <2>2 DEF HalvesOf
  <2>4. ~(d[i] <=> a[i]) <=> ~(w[0][i] <=> w[1][i])
    BY <2>3 DEF IsMasked
  <2> QED BY <2>1, <2>4, Zenon
<1>4. DOMAIN half[0] = Locations(n) /\ DOMAIN half[1] = Locations(n)
  BY <1>1
<1> DEFINE M0 == Muls(n, Extended(n, d), half[0], FALSE)
           M1 == Muls(n, Extended(n, d), half[1], TRUE)
           C0 == ConjunctionShare(n, d, half[0], FALSE)
           C1 == ConjunctionShare(n, d, half[1], TRUE)
<1>5. C0 = (IF M0 THEN "set" ELSE "clear") /\ C1 = (IF M1 THEN "set" ELSE "clear")
  BY <1>4, Zenon DEF ConjunctionShare
<1>6. (\A i \in 0 .. n - 1 : ~(d[i] <=> a[i])) <=> \A i \in 0 .. n - 1 : w[0][i] # w[1][i]
  BY <1>3, Zenon
<1> HIDE DEF M0, M1, C0, C1
<1>7. C0 # C1 <=> ~(M0 <=> M1)
  BY <1>5
<1> QED BY <1>2, <1>6, <1>7 DEF M0, M1, C0, C1

-----------------------------------------------------------------------------
(* The invariant.                                                          *)
Masking(p) == [i \in 0 .. bits - 1 |-> value[p][i] # share[p][Atom(i)]]

(* The halves add up to the products of some bits.                         *)
MaterialDealt == \E a \in Bits(entry) : HalvesOf(share, entry, a)

(* What is opened is what the code says.                                   *)
MaskedRight == \A p \in Party : masked[p] # <<>> => masked[p] = <<Masking(p)>>

(* The opened bits, put together.                                          *)
OpenedBits == [i \in 0 .. bits - 1 |-> masked[0][1][i] # masked[1][1][i]]

(* A share of the conjunction was taken after both had opened, and is what *)
(* product returns for the bits they opened.                               *)
SharesRight ==
  \A p \in Party : bit[p] # "none" =>
    /\ \A q \in Party : masked[q] # <<>>
    /\ bit[p] = ConjunctionShare(bits, OpenedBits, share[p], p = 1)

BlockInv == MBeaverTypeOK /\ MaterialDealt /\ MaskedRight /\ SharesRight

LEMMA MaskingType ==
  ASSUME MBeaverAssumption, MBeaverTypeOK, NEW p \in Party
  PROVE  Masking(p) \in Bits(bits)
<1>1. \A i \in 0 .. bits - 1 : (value[p][i] # share[p][Atom(i)]) \in BOOLEAN
  BY Zenon
<1> QED BY <1>1 DEF Masking, Bits

LEMMA BlockInit == MBeaverAssumption /\ MBeaverInit => BlockInv
<1> SUFFICES ASSUME MBeaverAssumption, MBeaverInit PROVE BlockInv
  OBVIOUS
<1>1. /\ bits \in 2 .. Dim /\ entry \in bits .. Dim /\ Dim \in Nat
      /\ value \in [Party -> Bits(bits)]
      /\ masked = [p \in Party |-> <<>>] /\ bit = [p \in Party |-> "none"]
  BY DEF MBeaverInit, MBeaverAssumption
<1>2. PICK a \in Bits(entry), pad \in Pads : share = SplitMaterial(Material(entry, a), pad)
  BY DEF MBeaverInit
<1>3. Locations(entry) \subseteq Locations(Dim)
  BY <1>1, LocationsApart
<1>4. \A loc \in Locations(entry) : pad[loc] \in BOOLEAN
  BY <1>3 DEF MBeaverAssumption, Locations
<1> DEFINE M == Material(entry, a)
<1>5. /\ DOMAIN M = Locations(entry)
      /\ \A loc \in Locations(entry) : M[loc] = All(a, loc)
  BY Zenon DEF Material, All
<1> HIDE DEF M
<1>6. /\ share = [p \in Party |-> [loc \in Locations(entry) |->
                    IF p = 0 THEN M[loc] # pad[loc] ELSE pad[loc]]]
  BY <1>2, <1>5, Zenon DEF SplitMaterial, M
<1>7. ASSUME NEW loc \in Locations(entry)
      PROVE  /\ share[0][loc] = (M[loc] # pad[loc]) /\ share[1][loc] = pad[loc]
             /\ (M[loc] # pad[loc]) \in BOOLEAN
  <2>1. 0 \in Party /\ 1 \in Party /\ 1 # 0
    BY DEF Party
  <2> QED BY <1>6, <2>1, Zenon
<1>8. share \in [Party -> [Locations(entry) -> BOOLEAN]]
  <2>1. \A p \in Party : \A loc \in Locations(entry) :
          (IF p = 0 THEN M[loc] # pad[loc] ELSE pad[loc]) \in BOOLEAN
    BY <1>4, <1>7
  <2> QED BY <1>6, <2>1
<1>9. MaterialDealt
  <2> SUFFICES ASSUME NEW loc \in Locations(entry)
               PROVE  ~(share[0][loc] <=> share[1][loc]) <=> All(a, loc)
    BY DEF MaterialDealt, HalvesOf
  <2>1. M[loc] \in BOOLEAN /\ M[loc] = All(a, loc) /\ pad[loc] \in BOOLEAN
    BY <1>4, <1>5 DEF All
  <2> QED BY <1>7, <2>1, Zenon
<1>10. MBeaverTypeOK
  BY <1>1, <1>8 DEF MBeaverTypeOK
<1> QED BY <1>1, <1>9, <1>10 DEF BlockInv, MaskedRight, SharesRight

LEMMA ConjunctionType ==
  ASSUME NEW n, NEW d, NEW half, NEW b \in BOOLEAN
  PROVE  ConjunctionShare(n, d, half, b) \in {"mismatch", "clear", "set"}
BY Zenon DEF ConjunctionShare

LEMMA BlockStep == MBeaverAssumption /\ BlockInv /\ [MBeaverNext]_mbeaverVars => BlockInv'
<1> SUFFICES ASSUME MBeaverAssumption, BlockInv, [MBeaverNext]_mbeaverVars PROVE BlockInv'
  OBVIOUS
<1> USE DEF BlockInv
<1>1. UNCHANGED <<bits, entry, share, value>>
  BY DEF MBeaverNext, OpenBits, Conjoin, MBeaverDone, mbeaverVars
<1>2. MaterialDealt'
  BY <1>1 DEF MaterialDealt, HalvesOf
<1>3. \A p \in Party : Masking(p)' = Masking(p)
  BY <1>1 DEF Masking
<1>4. masked \in [Party -> {<<>>} \cup {<<d>> : d \in Bits(bits)}]
      /\ bit \in [Party -> {"none", "mismatch", "clear", "set"}]
  BY DEF MBeaverTypeOK
<1>5. ASSUME NEW p \in Party, OpenBits(p) PROVE BlockInv'
  <2>1. /\ masked[p] = <<>> /\ bit' = bit
        /\ masked' = [masked EXCEPT ![p] = <<Masking(p)>>]
    BY <1>5 DEF OpenBits, Masking
  <2>2. Masking(p) \in Bits(bits)
    BY MaskingType
  <2> HIDE DEF Masking
  <2>3. MBeaverTypeOK'
    BY <1>1, <1>4, <2>1, <2>2 DEF MBeaverTypeOK
  <2>4. MaskedRight'
    BY <1>3, <1>4, <2>1 DEF MaskedRight
  <2>5. SharesRight'
    <3>1. \A q \in Party : bit[q] = "none"
      BY <2>1 DEF SharesRight
    <3> QED BY <2>1, <3>1 DEF SharesRight
  <2> QED BY <1>2, <2>3, <2>4, <2>5
<1>6. ASSUME NEW p \in Party, Conjoin(p) PROVE BlockInv'
  <2>1. /\ bit[p] = "none" /\ \A q \in Party : masked[q] # <<>>
        /\ masked' = masked
        /\ bit' = [bit EXCEPT ![p] = ConjunctionShare(bits, OpenedBits, share[p], p = 1)]
    BY <1>6 DEF Conjoin, OpenedBits
  <2>2. OpenedBits' = OpenedBits
    BY <1>1, <2>1 DEF OpenedBits
  <2>3. ConjunctionShare(bits, OpenedBits, share[p], p = 1) \in {"mismatch", "clear", "set"}
    BY ConjunctionType
  <2>4. MBeaverTypeOK'
    BY <1>1, <1>4, <2>1, <2>3 DEF MBeaverTypeOK
  <2>5. MaskedRight'
    BY <1>3, <2>1 DEF MaskedRight
  <2>6. SharesRight'
    <3> SUFFICES ASSUME NEW q \in Party, bit'[q] # "none"
                 PROVE  /\ \A o \in Party : masked'[o] # <<>>
                        /\ bit'[q] = ConjunctionShare(bits, OpenedBits, share[q], q = 1)
      BY <1>1, <2>2 DEF SharesRight
    <3>1. CASE q = p
      BY <1>4, <2>1, <3>1
    <3>2. CASE q # p
      <4>1. bit'[q] = bit[q]
        BY <1>4, <2>1, <3>2
      <4> QED BY <2>1, <4>1 DEF SharesRight
    <3> QED BY <3>1, <3>2
  <2> QED BY <1>2, <2>4, <2>5, <2>6
<1>7. ASSUME UNCHANGED mbeaverVars PROVE BlockInv'
  <2>1. masked' = masked /\ bit' = bit /\ OpenedBits' = OpenedBits
    BY <1>1, <1>7 DEF mbeaverVars, OpenedBits
  <2>2. MBeaverTypeOK'
    BY <1>1, <2>1 DEF MBeaverTypeOK
  <2>3. MaskedRight'
    BY <1>3, <2>1 DEF MaskedRight
  <2>4. SharesRight'
    BY <1>1, <2>1 DEF SharesRight
  <2> QED BY <1>2, <2>2, <2>3, <2>4
<1> QED BY <1>5, <1>6, <1>7 DEF MBeaverNext, MBeaverDone

LEMMA InvConjunctions == MBeaverAssumption /\ BlockInv => ConjunctionsRecombine
<1> SUFFICES ASSUME MBeaverAssumption, BlockInv, \A p \in Party : bit[p] # "none"
             PROVE  IF bits = entry
                    THEN /\ \A p \in Party : bit[p] # "mismatch"
                         /\ bit[0] # bit[1] <=> \A i \in 0 .. bits - 1 : value[0][i] # value[1][i]
                    ELSE \A p \in Party : bit[p] = "mismatch"
  BY DEF ConjunctionsRecombine
<1> DEFINE d == OpenedBits
<1>1. /\ \A p \in Party : bit[p] = ConjunctionShare(bits, d, share[p], p = 1)
      /\ \A p \in Party : masked[p] = <<Masking(p)>>
  BY DEF BlockInv, SharesRight, MaskedRight
<1>2. /\ bits \in 2 .. Dim /\ entry \in bits .. Dim /\ Dim \in Nat
      /\ share \in [Party -> [Locations(entry) -> BOOLEAN]]
      /\ value \in [Party -> Bits(bits)]
      /\ 0 \in Party /\ 1 \in Party /\ Party = {0, 1}
  BY DEF BlockInv, MBeaverTypeOK, MBeaverAssumption, Party
<1> HIDE DEF d
<1>3. CASE bits # entry
  <2>1. Locations(entry) # Locations(bits)
    BY <1>2, <1>3, LocationsApart
  <2>2. \A p \in Party : DOMAIN share[p] # Locations(bits)
    BY <1>2, <2>1
  <2>3. \A p \in Party : bit[p] = "mismatch"
    BY <1>1, <2>2, Zenon DEF ConjunctionShare
  <2> QED BY <1>3, <2>3
<1>4. CASE bits = entry
  <2>1. \A p \in Party : DOMAIN share[p] = Locations(bits)
    BY <1>2, <1>4
  <2>2. \A p \in Party : ConjunctionShare(bits, d, share[p], p = 1) # "mismatch"
    BY <2>1, Zenon DEF ConjunctionShare
  <2>3. PICK a \in Bits(bits) : HalvesOf(share, bits, a)
    BY <1>4 DEF BlockInv, MaterialDealt
  <2>4. \A p \in Party : Masking(p) \in Bits(bits)
    BY MaskingType DEF BlockInv
  <2>5. \A i \in 0 .. bits - 1 : d[i] = (masked[0][1][i] # masked[1][1][i])
    BY Zenon DEF d, OpenedBits
  <2>6. masked[0][1] = Masking(0) /\ masked[1][1] = Masking(1)
    BY <1>1, <1>2
  <2>7. d \in Bits(bits)
    <3>1. \A i \in 0 .. bits - 1 : (masked[0][1][i] # masked[1][1][i]) \in BOOLEAN
      BY Zenon
    <3> QED BY <3>1 DEF d, OpenedBits, Bits
  <2>8. ASSUME NEW i \in 0 .. bits - 1
        PROVE  d[i] <=> ~(~(value[0][i] <=> share[0][Atom(i)])
                          <=> ~(value[1][i] <=> share[1][Atom(i)]))
    <3>1. Atom(i) \in Locations(bits)
      BY <1>2, AtomBy
    <3>2. /\ value[0][i] \in BOOLEAN /\ value[1][i] \in BOOLEAN
          /\ share[0][Atom(i)] \in BOOLEAN /\ share[1][Atom(i)] \in BOOLEAN
      BY <1>2, <1>4, <3>1 DEF Bits
    <3>3. /\ Masking(0)[i] = (value[0][i] # share[0][Atom(i)])
          /\ Masking(1)[i] = (value[1][i] # share[1][Atom(i)])
      BY Zenon DEF Masking
    <3>4. d[i] = (Masking(0)[i] # Masking(1)[i])
      BY <2>5, <2>6
    <3>5. Masking(0)[i] \in BOOLEAN /\ Masking(1)[i] \in BOOLEAN
      BY <1>2, <2>4 DEF Bits
    <3> QED BY <3>2, <3>3, <3>4, <3>5, Zenon
  <2>9. ConjunctionShare(bits, d, share[0], FALSE) # ConjunctionShare(bits, d, share[1], TRUE)
          <=> \A i \in 0 .. bits - 1 : value[0][i] # value[1][i]
    <3>1. PICK n, e, h, w : n = bits /\ e = d /\ h = share /\ w = value
      OBVIOUS
    <3>2. /\ n \in 2 .. Dim /\ a \in Bits(n) /\ e \in Bits(n)
          /\ h \in [Party -> [Locations(n) -> BOOLEAN]] /\ w \in [Party -> Bits(n)]
      BY <1>2, <1>4, <2>3, <2>7, <3>1
    <3>3. HalvesOf(h, n, a) /\ IsMasked(e, w, h, n)
      BY <2>3, <2>8, <3>1 DEF IsMasked
    <3>5. ConjunctionShare(n, e, h[0], FALSE) # ConjunctionShare(n, e, h[1], TRUE)
            <=> \A i \in 0 .. n - 1 : w[0][i] # w[1][i]
      BY <3>2, <3>3, ConjunctionBy, Zenon
    <3> QED BY <3>1, <3>5
  <2>10. /\ bit[0] = ConjunctionShare(bits, d, share[0], FALSE)
         /\ bit[1] = ConjunctionShare(bits, d, share[1], TRUE)
    <3>1. (0 = 1) = FALSE /\ (1 = 1) = TRUE
      OBVIOUS
    <3>2. /\ bit[0] = ConjunctionShare(bits, d, share[0], 0 = 1)
          /\ bit[1] = ConjunctionShare(bits, d, share[1], 1 = 1)
      BY <1>1, <1>2, Zenon
    <3> QED BY <3>1, <3>2, Zenon
  <2>11. \A p \in Party : bit[p] # "mismatch"
    BY <1>1, <2>2
  <2>12. bit[0] # bit[1] <=> \A i \in 0 .. bits - 1 : value[0][i] # value[1][i]
    BY <2>9, <2>10, Zenon
  <2> QED BY <1>4, <2>11, <2>12
<1> QED BY <1>3, <1>4

(* The types of the Boolean products, for every number of bits             *)
(* (mbeaver.rs).                                                           *)
THEOREM BlockKeepsType == MBeaverSpec => []MBeaverTypeOK
<1>1. MBeaverAssumption /\ BlockInv => MBeaverTypeOK
  BY DEF BlockInv
<1> QED BY <1>1, BlockInit, BlockStep, MBeaverAssumption, PTL DEF MBeaverSpec

(* With the material for their number of bits the parties' shares differ   *)
(* exactly when all the shared bits are set, and with that for another     *)
(* number both are refused: for every number of bits, all random bits of   *)
(* the dealer, every pad and every sharing (extendfrom, Muls and product,  *)
(* mbeaver.rs:17-168).                                                     *)
THEOREM ConjunctionsAlwaysRecombine == MBeaverSpec => []ConjunctionsRecombine
BY BlockInit, BlockStep, InvConjunctions, MBeaverAssumption, PTL DEF MBeaverSpec

(* The digits of a number are its last one and those of its half.          *)
LEMMA DigitsByHalf ==
  ASSUME NEW u \in Nat, NEW b \in {0, 1}
  PROVE  /\ Digit(2 * u + b, 0) <=> b = 1
         /\ \A i \in Nat : Digit(2 * u + b, i + 1) <=> Digit(u, i)
<1>1. Digit(2 * u + b, 0) <=> b = 1
  <2>1. Pow2[0] = 1
    BY Powers
  <2>2. (2 * u + b) \div 1 = 2 * u + b /\ ((2 * u + b) % 2 = 1 <=> b = 1)
    OBVIOUS
  <2> QED BY <2>1, <2>2 DEF Digit
<1>2. ASSUME NEW i \in Nat PROVE Digit(2 * u + b, i + 1) <=> Digit(u, i)
  <2> DEFINE P == Pow2[i]
             q == u \div P
             rest == u % P
  <2>1. P \in Nat \ {0} /\ Pow2[i + 1] = 2 * P
    BY Powers
  <2> HIDE DEF P
  <2>2. q \in Nat /\ rest \in 0 .. P - 1 /\ u = P * q + rest
    BY <2>1
  <2> HIDE DEF q, rest
  <2>3. 2 * u + b = q * (2 * P) + (2 * rest + b) /\ 2 * rest + b \in 0 .. 2 * P - 1
    <3>1. P * q \in Nat /\ q * (2 * P) = 2 * (P * q)
      BY <2>1, <2>2
    <3> QED BY <2>1, <2>2, <3>1
  <2>4. (2 * rest + b) \div (2 * P) = 0
    BY <2>1, <2>3
  <2>5. (q * (2 * P) + (2 * rest + b)) \div (2 * P) = q + ((2 * rest + b) \div (2 * P))
    <3>1. 2 * P \in Nat \ {0} /\ 2 * rest + b \in Nat
      BY <2>1, <2>3
    <3> QED BY <2>2, <3>1, DivBy
  <2>6. (2 * u + b) \div (2 * P) = q
    BY <2>2, <2>3, <2>4, <2>5
  <2> QED BY <2>1, <2>6 DEF Digit, P, q
<1> QED BY <1>1, <1>2

(* The half of a number of k + 1 bits is one of k bits.                    *)
LEMMA HalfOf ==
  ASSUME NEW k \in Nat, NEW m \in 0 .. Pow2[k + 1] - 1
  PROVE  \E u \in 0 .. Pow2[k] - 1 : \E b \in {0, 1} : m = 2 * u + b
<1>1. Pow2[k + 1] = 2 * Pow2[k] /\ Pow2[k] \in Nat \ {0}
  BY Powers
<1>2. m \div 2 \in 0 .. Pow2[k] - 1 /\ m % 2 \in {0, 1} /\ m = 2 * (m \div 2) + (m % 2)
  BY <1>1
<1> QED BY <1>2

(* Numbers with the same digits are the same.                              *)
LEMMA DigitsTell ==
  ASSUME NEW n \in Nat, NEW m1 \in 0 .. Pow2[n] - 1, NEW m2 \in 0 .. Pow2[n] - 1,
         \A i \in 0 .. n - 1 : Digit(m1, i) <=> Digit(m2, i)
  PROVE  m1 = m2
<1> DEFINE Told(k) ==
             \A m, l \in 0 .. Pow2[k] - 1 :
               (\A i \in 0 .. k - 1 : Digit(m, i) <=> Digit(l, i)) => m = l
           Bad == {k \in Nat : ~Told(k)}
<1>1. Bad = {}
  <2> SUFFICES ASSUME Bad # {} PROVE FALSE
    OBVIOUS
  <2>1. PICK k \in Bad : \A j \in Bad : k <= j
    BY Least
  <2>2. k # 0
    <3>1. Pow2[0] = 1
      BY Powers
    <3>2. Told(0)
      BY <3>1
    <3> QED BY <2>1, <3>2
  <2>3. PICK j \in Nat : j + 1 = k
    <3>1. k - 1 \in Nat /\ (k - 1) + 1 = k
      BY <2>1, <2>2
    <3> QED BY <3>1
  <2>4. Told(j)
    BY <2>1, <2>3
  <2>5. ASSUME NEW m \in 0 .. Pow2[k] - 1, NEW l \in 0 .. Pow2[k] - 1,
               \A i \in 0 .. k - 1 : Digit(m, i) <=> Digit(l, i)
        PROVE  m = l
    <3>1. PICK u \in 0 .. Pow2[j] - 1 : \E b \in {0, 1} : m = 2 * u + b
      BY <2>3, HalfOf
    <3>2. PICK b \in {0, 1} : m = 2 * u + b
      BY <3>1
    <3>3. PICK e \in 0 .. Pow2[j] - 1 : \E f \in {0, 1} : l = 2 * e + f
      BY <2>3, HalfOf
    <3>4. PICK f \in {0, 1} : l = 2 * e + f
      BY <3>3
    <3>5. Pow2[j] \in Nat
      BY Powers
    <3>6. u \in Nat /\ e \in Nat
      BY <3>5
    <3>7. /\ Digit(m, 0) <=> b = 1
          /\ Digit(l, 0) <=> f = 1
          /\ \A i \in Nat : Digit(m, i + 1) <=> Digit(u, i)
          /\ \A i \in Nat : Digit(l, i + 1) <=> Digit(e, i)
      BY <3>2, <3>4, <3>6, DigitsByHalf
    <3>8. 0 \in 0 .. k - 1 /\ \A i \in 0 .. j - 1 : i \in Nat /\ i + 1 \in 0 .. k - 1
      BY <2>3
    <3>9. b = f
      BY <2>5, <3>7, <3>8
    <3>10. \A i \in 0 .. j - 1 : Digit(u, i) <=> Digit(e, i)
      BY <2>5, <3>7, <3>8
    <3>11. u = e
      BY <2>4, <3>10
    <3> QED BY <3>2, <3>4, <3>9, <3>11
  <2>6. Told(k)
    BY <2>5
  <2> QED BY <2>1, <2>6
<1>2. Told(n)
  BY <1>1
<1> QED BY <1>2

(* Counted from the other end, a number has the other digits.              *)
LEMMA DigitsTurn ==
  ASSUME NEW n \in Nat, NEW m \in 0 .. Pow2[n] - 1, NEW i \in 0 .. n - 1
  PROVE  Digit(Pow2[n] - 1 - m, i) <=> ~Digit(m, i)
<1> DEFINE Turned(k) ==
             \A l \in 0 .. Pow2[k] - 1 : \A h \in 0 .. k - 1 :
               Digit(Pow2[k] - 1 - l, h) <=> ~Digit(l, h)
           Bad == {k \in Nat : ~Turned(k)}
<1>1. Bad = {}
  <2> SUFFICES ASSUME Bad # {} PROVE FALSE
    OBVIOUS
  <2>1. PICK k \in Bad : \A j \in Bad : k <= j
    BY Least
  <2>2. k # 0
    <3>1. Turned(0)
      OBVIOUS
    <3> QED BY <2>1, <3>1
  <2>3. PICK j \in Nat : j + 1 = k
    <3>1. k - 1 \in Nat /\ (k - 1) + 1 = k
      BY <2>1, <2>2
    <3> QED BY <3>1
  <2>4. Turned(j)
    BY <2>1, <2>3
  <2>5. ASSUME NEW l \in 0 .. Pow2[k] - 1, NEW h \in 0 .. k - 1
        PROVE  Digit(Pow2[k] - 1 - l, h) <=> ~Digit(l, h)
    <3>1. PICK u \in 0 .. Pow2[j] - 1 : \E b \in {0, 1} : l = 2 * u + b
      BY <2>3, HalfOf
    <3>2. PICK b \in {0, 1} : l = 2 * u + b
      BY <3>1
    <3>3. Pow2[j] \in Nat \ {0} /\ Pow2[k] = 2 * Pow2[j]
      BY <2>3, Powers
    <3> DEFINE e == Pow2[j] - 1 - u
               f == 1 - b
    <3>4. e \in Nat /\ f \in {0, 1} /\ Pow2[k] - 1 - l = 2 * e + f /\ u \in Nat
      BY <3>2, <3>3
    <3> HIDE DEF e, f
    <3>5. /\ Digit(2 * u + b, 0) <=> b = 1
          /\ \A g \in Nat : Digit(2 * u + b, g + 1) <=> Digit(u, g)
      BY <3>4, DigitsByHalf
    <3>6. /\ Digit(2 * e + f, 0) <=> f = 1
          /\ \A g \in Nat : Digit(2 * e + f, g + 1) <=> Digit(e, g)
      BY <3>4, DigitsByHalf
    <3>7. CASE h = 0
      <4>1. f = 1 <=> ~(b = 1)
        BY DEF f
      <4> QED BY <3>2, <3>4, <3>5, <3>6, <3>7, <4>1
    <3>8. CASE h # 0
      <4>1. PICK g \in 0 .. j - 1 : g + 1 = h
        <5>1. h - 1 \in 0 .. j - 1 /\ (h - 1) + 1 = h
          BY <2>3, <3>8
        <5> QED BY <5>1
      <4>2. Digit(Pow2[j] - 1 - u, g) <=> ~Digit(u, g)
        BY <2>4
      <4>3. g \in Nat
        OBVIOUS
      <4>4. Digit(2 * e + f, h) <=> Digit(e, g)
        BY <3>6, <4>1, <4>3
      <4>5. Digit(2 * u + b, h) <=> Digit(u, g)
        BY <3>5, <4>1, <4>3
      <4> QED BY <3>2, <3>4, <4>2, <4>4, <4>5 DEF e
    <3> QED BY <3>7, <3>8
  <2>6. Turned(k)
    BY <2>5
  <2> QED BY <2>1, <2>6
<1>2. Turned(n)
  BY <1>1
<1> QED BY <1>2

-----------------------------------------------------------------------------
(* The byte of a string that fits has the bits of the string for digits.   *)
IsRead(s, m, n, f) ==
  f = [i \in 0 .. n |-> IF i = 0 THEN 0 ELSE WithDigit(f[i - 1], s[i], (m - i) % ByteBits)]

LEMMA ReadExists ==
  ASSUME NEW s, NEW m, NEW n \in Nat
  PROVE  \E f : IsRead(s, m, n, f)
<1> DEFINE Without == {k \in Nat : ~ \E f : IsRead(s, m, k, f)}
<1> SUFFICES ASSUME Without # {} PROVE FALSE
  OBVIOUS
<1>1. PICK k \in Without : \A i \in Without : k <= i
  BY Least
<1>2. k # 0
  <2>1. IsRead(s, m, 0, [i \in {0} |-> 0])
    BY DEF IsRead
  <2> QED BY <2>1
<1>3. k - 1 \in Nat /\ k - 1 \notin Without
  BY <1>1, <1>2
<1>4. PICK f : IsRead(s, m, k - 1, f)
  BY <1>3
<1> DEFINE next == WithDigit(f[k - 1], s[k], (m - k) % ByteBits)
           g    == [i \in 0 .. k |-> IF i = k THEN next ELSE f[i]]
<1>5. \A i \in 0 .. k - 1 :
        f[i] = IF i = 0 THEN 0 ELSE WithDigit(f[i - 1], s[i], (m - i) % ByteBits)
  BY <1>4, Zenon DEF IsRead
<1>6. \A i \in 0 .. k :
        g[i] = IF i = 0 THEN 0 ELSE WithDigit(g[i - 1], s[i], (m - i) % ByteBits)
  BY <1>2, <1>5
<1>7. IsRead(s, m, k, g)
  BY <1>6, Zenon DEF IsRead
<1> QED BY <1>7

(* After i bits: the number of these, in the places they have.             *)
ReadTo(s, n, i, acc) ==
  \E u \in 0 .. Pow2[i] - 1 :
    /\ acc = u * Pow2[n - i]
    /\ \A j \in 1 .. i : Digit(u, i - j) <=> s[j]

LEMMA ReadStep ==
  ASSUME NEW n \in Nat, NEW s \in [1 .. n -> BOOLEAN], NEW i \in 1 .. n, NEW acc,
         ReadTo(s, n, i - 1, acc)
  PROVE  ReadTo(s, n, i, WithDigit(acc, s[i], n - i))
<1> DEFINE P == Pow2[n - i]
           Q == Pow2[i - 1]
<1>1. /\ P \in Nat \ {0} /\ Q \in Nat \ {0} /\ Pow2[i] = 2 * Q /\ Pow2[n - (i - 1)] = 2 * P
      /\ i - 1 \in Nat
  <2>1. n - i \in Nat /\ i - 1 \in Nat /\ (i - 1) + 1 = i /\ n - (i - 1) = (n - i) + 1
    OBVIOUS
  <2>2. Pow2[(i - 1) + 1] = 2 * Q /\ Pow2[(n - i) + 1] = 2 * P
    BY <2>1, Powers
  <2> QED BY <2>1, <2>2, Powers
<1>2. PICK u \in 0 .. Q - 1 : /\ acc = u * Pow2[n - (i - 1)]
                              /\ \A j \in 1 .. i - 1 : Digit(u, (i - 1) - j) <=> s[j]
  BY DEF ReadTo
<1> HIDE DEF P, Q
<1>3. acc = (2 * u) * P /\ u \in Nat
  BY <1>1, <1>2
<1>4. ~Digit(acc, n - i)
  <2>1. 2 * u \in Nat /\ 0 \in Nat
    BY <1>3
  <2>2. ((2 * u) * P + 0) \div P = 2 * u + (0 \div P)
    BY <1>1, <2>1, DivBy
  <2>3. 0 \div P = 0
    BY <1>1
  <2>4. (2 * u) * P \in Nat
    BY <1>1, <2>1
  <2>5. acc \div P = 2 * u
    BY <1>3, <2>1, <2>2, <2>3, <2>4
  <2>6. (2 * u) % 2 = 0
    BY <1>3
  <2> QED BY <2>5, <2>6 DEF Digit, P
<1> DEFINE b == IF s[i] THEN 1 ELSE 0
<1>5. b \in {0, 1} /\ (b = 1 <=> s[i])
  OBVIOUS
<1>6. WithDigit(acc, s[i], n - i) = (2 * u + b) * P
  <2>1. CASE s[i]
    <3>1. WithDigit(acc, s[i], n - i) = acc + P
      BY <1>4, <2>1 DEF WithDigit, P
    <3>2. (2 * u + 1) * P = (2 * u) * P + P
      BY <1>1, <1>3
    <3> QED BY <1>3, <2>1, <3>1, <3>2
  <2>2. CASE ~s[i]
    <3>1. WithDigit(acc, s[i], n - i) = acc
      BY <2>2 DEF WithDigit
    <3>2. 2 * u + 0 = 2 * u
      BY <1>3
    <3> QED BY <1>3, <2>2, <3>1, <3>2
  <2> QED BY <2>1, <2>2
<1> HIDE DEF b
<1>7. 2 * u + b \in 0 .. Pow2[i] - 1
  BY <1>1, <1>2, <1>5
<1>8. /\ Digit(2 * u + b, 0) <=> b = 1
      /\ \A h \in Nat : Digit(2 * u + b, h + 1) <=> Digit(u, h)
  BY <1>3, <1>5, DigitsByHalf
<1>9. ASSUME NEW j \in 1 .. i PROVE Digit(2 * u + b, i - j) <=> s[j]
  <2>1. CASE j = i
    <3>1. i - j = 0
      BY <2>1
    <3> QED BY <1>5, <1>8, <2>1, <3>1
  <2>2. CASE j # i
    <3>1. PICK h \in Nat : h = (i - 1) - j /\ h + 1 = i - j
      <4>1. (i - 1) - j \in Nat /\ ((i - 1) - j) + 1 = i - j
        BY <2>2
      <4> QED BY <4>1
    <3>2. j \in 1 .. i - 1
      BY <2>2
    <3>3. Digit(u, h) <=> s[j]
      BY <1>2, <3>1, <3>2
    <3>4. Digit(2 * u + b, i - j) <=> Digit(u, h)
      BY <1>8, <3>1
    <3> QED BY <3>3, <3>4
  <2> QED BY <2>1, <2>2
<1> QED BY <1>6, <1>7, <1>9 DEF ReadTo, P

(* So the i-th bit of a string no longer than a byte is the i-th digit of  *)
(* its byte, and the byte is less than the power of the length.            *)
LEMMA ToByteReads ==
  ASSUME QMatrixAssumption, BitStringsAssumption,
         NEW n \in Nat, n <= ByteBits, NEW s \in [1 .. n -> BOOLEAN]
  PROVE  /\ ToByte(s) \in 0 .. Pow2[n] - 1
         /\ \A j \in 1 .. n : Digit(ToByte(s), n - j) <=> s[j]
<1> DEFINE f == CHOOSE f : IsRead(s, n, n, f)
<1>1. IsRead(s, n, n, f)
  BY ReadExists, Zenon
<1>2. Len(s) = n
  BY LenProperties
<1>3. ToByte(s) = f[n]
  BY <1>2, Zenon DEF ToByte, IsRead
<1> HIDE DEF f
<1>4. \A i \in 0 .. n :
        f[i] = IF i = 0 THEN 0 ELSE WithDigit(f[i - 1], s[i], (n - i) % ByteBits)
  BY <1>1, Zenon DEF IsRead
<1>5. \A i \in 1 .. n : (n - i) % ByteBits = n - i
  BY DEF BitStringsAssumption
<1> DEFINE Bad == {i \in 0 .. n : ~ReadTo(s, n, i, f[i])}
<1>6. Bad = {}
  <2> SUFFICES ASSUME Bad # {} PROVE FALSE
    OBVIOUS
  <2>1. Bad \subseteq Nat
    OBVIOUS
  <2>2. PICK i \in Bad : \A j \in Bad : i <= j
    BY <2>1, Least
  <2>3. i # 0
    <3>1. Pow2[0] = 1 /\ Pow2[n - 0] \in Nat /\ f[0] = 0
      <4>1. n - 0 = n /\ 0 \in 0 .. n
        OBVIOUS
      <4> QED BY <1>4, <4>1, Powers
    <3>2. 0 \in 0 .. Pow2[0] - 1 /\ f[0] = 0 * Pow2[n - 0]
      BY <3>1
    <3>3. ReadTo(s, n, 0, f[0])
      BY <3>2 DEF ReadTo
    <3> QED BY <2>2, <3>3
  <2>4. i \in 1 .. n /\ i - 1 \in 0 .. n /\ i - 1 \notin Bad
    BY <2>2, <2>3
  <2>5. ReadTo(s, n, i - 1, f[i - 1])
    BY <2>4
  <2>6. f[i] = WithDigit(f[i - 1], s[i], n - i)
    BY <1>4, <1>5, <2>3, <2>4
  <2>7. ReadTo(s, n, i, f[i])
    BY <2>4, <2>5, <2>6, ReadStep
  <2> QED BY <2>2, <2>7
<1>7. ReadTo(s, n, n, f[n])
  BY <1>6
<1>8. PICK u \in 0 .. Pow2[n] - 1 : /\ f[n] = u * Pow2[n - n]
                                    /\ \A j \in 1 .. n : Digit(u, n - j) <=> s[j]
  BY <1>7 DEF ReadTo
<1>9. f[n] = u
  <2>1. Pow2[n - n] = 1 /\ u \in Int
    BY Powers
  <2> QED BY <1>8, <2>1
<1> QED BY <1>3, <1>8, <1>9

-----------------------------------------------------------------------------
(* The matrix.                                                             *)
IsSelected(n, q, at) == ToBits(n, at[2]) = XorBits(q, ToBits(n, at[1]))

(* The digits of the column are those of the row, flipped by the query.    *)
LEMMA SelectedBy ==
  ASSUME NEW n \in Nat, NEW q \in [1 .. n -> BOOLEAN], NEW row, NEW column
  PROVE  IsSelected(n, q, <<row, column>>)
           <=> \A j \in 1 .. n : Digit(column, n - j) <=> ~(q[j] <=> Digit(row, n - j))
<1> DEFINE rowBits == ToBits(n, row)
           s == ToBits(n, column)
           z == XorBits(q, rowBits)
<1>1. /\ DOMAIN s = 1 .. n /\ \A j \in 1 .. n : s[j] = Digit(column, n - j)
      /\ s = [j \in 1 .. n |-> s[j]]
  BY Zenon DEF ToBits
<1>2. \A j \in 1 .. n : rowBits[j] = Digit(row, n - j)
  BY Zenon DEF ToBits
<1>3. /\ \A j \in 1 .. n : z[j] = (q[j] # rowBits[j])
      /\ z = [j \in 1 .. n |-> z[j]]
  <2>1. DOMAIN q = 1 .. n
    OBVIOUS
  <2>2. z = [j \in 1 .. n |-> q[j] # rowBits[j]]
    BY <2>1, Zenon DEF XorBits
  <2> HIDE DEF z
  <2> QED BY <2>2, Zenon
<1> HIDE DEF rowBits, s, z
<1>4. s = z <=> \A j \in 1 .. n : s[j] = z[j]
  BY <1>1, <1>3
<1>5. ASSUME NEW j \in 1 .. n
      PROVE  s[j] = z[j] <=> (Digit(column, n - j) <=> ~(q[j] <=> Digit(row, n - j)))
  <2>1. q[j] \in BOOLEAN /\ Digit(row, n - j) \in BOOLEAN /\ Digit(column, n - j) \in BOOLEAN
    BY DEF Digit
  <2> QED BY <1>1, <1>2, <1>3, <2>1, Zenon
<1>6. <<row, column>>[1] = row /\ <<row, column>>[2] = column
  OBVIOUS
<1>7. IsSelected(n, q, <<row, column>>) <=> s = z
  BY <1>6 DEF IsSelected, rowBits, s, z
<1> QED BY <1>4, <1>5, <1>7

(* The column f_conv_matrix marks is the selected one, and the only one.   *)
LEMMA ColumnSelected ==
  ASSUME QMatrixAssumption, BitStringsAssumption, NEW n \in Nat, n <= ByteBits,
         NEW q \in [1 .. n -> BOOLEAN], NEW row \in Indices(n), NEW column \in Indices(n)
  PROVE  column = ColumnOf(n, q, row) <=> IsSelected(n, q, <<row, column>>)
<1> DEFINE N == Pow2[n] - 1
           X == XorBits(q, ToBits(n, N - row))
           T == ToByte(X)
           C == N - T
<1>1. Pow2[n] \in Nat \ {0}
  BY Powers
<1>2. /\ row \in 0 .. Pow2[n] - 1 /\ column \in 0 .. Pow2[n] - 1
      /\ Pow2[n] - 1 - row \in 0 .. Pow2[n] - 1 /\ N - row = Pow2[n] - 1 - row
  BY <1>1 DEF Indices
<1>3. /\ \A j \in 1 .. n : X[j] <=> ~(q[j] <=> Digit(N - row, n - j))
      /\ X \in [1 .. n -> BOOLEAN]
  <2> DEFINE rowBits == ToBits(n, N - row)
  <2>1. \A j \in 1 .. n : rowBits[j] = Digit(N - row, n - j)
    BY Zenon DEF ToBits
  <2>2. DOMAIN q = 1 .. n
    OBVIOUS
  <2>3. X = [j \in 1 .. n |-> q[j] # rowBits[j]]
    BY <2>2, Zenon DEF XorBits
  <2> HIDE DEF rowBits, X
  <2>4. \A j \in 1 .. n : X[j] = (q[j] # rowBits[j]) /\ (q[j] # rowBits[j]) \in BOOLEAN
    BY <2>3, Zenon
  <2>5. X \in [1 .. n -> BOOLEAN]
    BY <2>3, <2>4
  <2>6. ASSUME NEW j \in 1 .. n PROVE X[j] <=> ~(q[j] <=> Digit(N - row, n - j))
    <3>1. q[j] \in BOOLEAN /\ Digit(N - row, n - j) \in BOOLEAN
      BY DEF Digit
    <3> QED BY <2>1, <2>4, <3>1, Zenon
  <2> QED BY <2>5, <2>6
<1> HIDE DEF X
<1>4. T \in 0 .. Pow2[n] - 1 /\ \A j \in 1 .. n : Digit(T, n - j) <=> X[j]
  BY <1>3, ToByteReads
<1> HIDE DEF T
<1>5. C \in 0 .. Pow2[n] - 1 /\ C = Pow2[n] - 1 - T
  BY <1>1, <1>4
<1>6. \A j \in 1 .. n : n - j \in 0 .. n - 1
  OBVIOUS
<1>7. ASSUME NEW j \in 1 .. n
      PROVE  Digit(C, n - j) <=> ~(q[j] <=> Digit(row, n - j))
  <2>1. Digit(Pow2[n] - 1 - T, n - j) <=> ~Digit(T, n - j)
    BY <1>4, <1>6, DigitsTurn
  <2>2. Digit(Pow2[n] - 1 - row, n - j) <=> ~Digit(row, n - j)
    BY <1>2, <1>6, DigitsTurn
  <2>3. X[j] <=> ~(q[j] <=> ~Digit(row, n - j))
    BY <1>2, <1>3, <2>2
  <2>4. Digit(T, n - j) <=> X[j]
    BY <1>4
  <2> QED BY <1>5, <2>1, <2>3, <2>4
<1>8. ColumnOf(n, q, row) = C
  BY DEF ColumnOf, X, T
<1> HIDE DEF C
<1>9. IsSelected(n, q, <<row, column>>)
        <=> \A j \in 1 .. n : Digit(column, n - j) <=> Digit(C, n - j)
  BY <1>7, SelectedBy
<1>10. ASSUME \A j \in 1 .. n : Digit(column, n - j) <=> Digit(C, n - j)
       PROVE  column = C
  <2>1. ASSUME NEW i \in 0 .. n - 1 PROVE Digit(column, i) <=> Digit(C, i)
    <3>1. n - i \in 1 .. n /\ n - (n - i) = i
      OBVIOUS
    <3> QED BY <1>10, <3>1
  <2> QED BY <1>2, <1>5, <2>1, DigitsTell
<1> QED BY <1>8, <1>9, <1>10

-----------------------------------------------------------------------------
LEMMA MatrixTypeInit == QMatrixAssumption /\ MatrixInit => MatrixTypeOK
BY DEF MatrixInit, MatrixTypeOK, Party

(* Where the generator draws, a ring element comes of it.                  *)
LEMMA DrawnNat ==
  ASSUME NEW mask \in Masks, QMatrixAssumption, RingAssumption, NEW n \in Nat,
         NEW at \in Square(n)
  PROVE  Drawn(mask, at) \in Nat /\ FromRaw(Drawn(mask, at)) \in Ring
<1>1. at[1] \in Nat /\ at[2] \in Nat
  <2>1. Pow2[n] \in Nat
    BY Powers
  <2> QED BY <2>1 DEF Square, Indices
<1>2. mask.row \in Nat /\ mask.column \in Nat /\ mask.shift \in Nat
  BY DEF QMatrixAssumption
<1>3. mask.row * at[1] \in Nat /\ mask.column * at[2] \in Nat
  BY <1>1, <1>2
<1>4. Drawn(mask, at) \in Nat
  BY <1>2, <1>3 DEF Drawn
<1> QED BY <1>4 DEF FromRaw, ZRaw, Ring, Z, RingAssumption

(* Whether a place of this matrix is to hold the 1 of its row.             *)
Selected(at) == IsSelected(width, query, at)

(* Before it is shared the matrix selects, and shared it does so together. *)
MatrixRight ==
  /\ form = "bits" => \A at \in Square(width) : matrix[at] <=> Selected(at)
  /\ form = "ring" => \A at \in Square(width) : matrix[at] = IF Selected(at) THEN 1 ELSE 0
  /\ form = "bit shares" => \A at \in Square(width) :
       part[0][at] # part[1][at] <=> Selected(at)
  /\ form = "ring shares" => \A at \in Square(width) :
       RAdd(part[0][at], part[1][at]) = IF Selected(at) THEN 1 ELSE 0

MatrixAssumptions == QMatrixAssumption /\ BitStringsAssumption /\ RingAssumption

LEMMA MatrixTypeStep ==
  MatrixAssumptions /\ MatrixTypeOK /\ [MatrixNext]_matrixVars => MatrixTypeOK'
<1> SUFFICES ASSUME MatrixAssumptions, MatrixTypeOK, [MatrixNext]_matrixVars
             PROVE  MatrixTypeOK'
  OBVIOUS
<1>1. /\ width \in Widths /\ width \in Nat /\ query \in [1 .. width -> BOOLEAN]
      /\ QMatrixAssumption /\ RingAssumption /\ 0 \in Ring /\ 1 \in Ring
      /\ width' = width /\ query' = query
  <2>1. width' = width /\ query' = query
    BY DEF matrixVars, MatrixNext, MakeMatrix, PanicOnShift, ConvertMatrix, SplitBits,
           SplitRing, MatrixDone
  <2>2. width \in Widths /\ query \in [1 .. width -> BOOLEAN]
    BY DEF MatrixTypeOK
  <2>3. QMatrixAssumption /\ RingAssumption
    BY DEF MatrixAssumptions
  <2>4. width \in Nat /\ 0 \in Ring /\ 1 \in Ring
    BY <2>2, <2>3 DEF QMatrixAssumption, RingAssumption, Ring, Z
  <2> QED BY <2>1, <2>2, <2>3, <2>4
<1>2. CASE MakeMatrix
  <2>1. /\ form = "none" /\ form' = "bits" /\ part' = part
        /\ matrix' = Convolution(width, query)
    BY <1>2 DEF MakeMatrix
  <2>2. Convolution(width, query) \in [Square(width) -> BOOLEAN]
    <3>1. \A at : (at[2] = ColumnOf(width, query, at[1])) \in BOOLEAN
      OBVIOUS
    <3> QED BY <3>1 DEF Convolution
  <2>3. \A p \in Party : part[p] = <<>>
    BY <2>1 DEF MatrixTypeOK
  <2> QED BY <1>1, <2>1, <2>2, <2>3 DEF MatrixTypeOK
<1>3. CASE PanicOnShift
  BY <1>1, <1>3 DEF PanicOnShift, MatrixTypeOK
<1>4. CASE ConvertMatrix
  BY <1>1, <1>4 DEF ConvertMatrix, MatrixTypeOK
<1>5. CASE SplitBits
  <2>1. form = "bits" /\ form' = "bit shares" /\ matrix' = matrix
    BY <1>5 DEF SplitBits
  <2>2. PICK mask \in Masks :
          part' = [p \in Party |-> [at \in Square(width) |->
                     IF p = 0 THEN matrix[at] # (Drawn(mask, at) % 2 = 1)
                     ELSE Drawn(mask, at) % 2 = 1]]
    BY <1>5 DEF SplitBits
  <2>3. \A p \in Party : \A at \in Square(width) :
          (IF p = 0 THEN matrix[at] # (Drawn(mask, at) % 2 = 1)
           ELSE Drawn(mask, at) % 2 = 1) \in BOOLEAN
    <3>1. \A e, y : (e # y) \in BOOLEAN /\ (e = y) \in BOOLEAN
      OBVIOUS
    <3> QED BY <3>1, Zenon
  <2>4. \A p \in Party : part'[p] \in [Square(width) -> BOOLEAN]
    BY <2>2, <2>3
  <2> QED BY <1>1, <2>1, <2>4 DEF MatrixTypeOK
<1>6. CASE SplitRing
  <2>1. form = "ring" /\ form' = "ring shares" /\ matrix' = matrix
    BY <1>6 DEF SplitRing
  <2>2. PICK mask \in Masks :
          part' = [p \in Party |-> [at \in Square(width) |->
                     Share(Modulus, matrix[at], FromRaw(Drawn(mask, at)))[p + 1]]]
    BY <1>6 DEF SplitRing
  <2>3. matrix \in [Square(width) -> Ring]
    BY <2>1 DEF MatrixTypeOK
  <2>4. \A p \in Party : \A at \in Square(width) :
          Share(Modulus, matrix[at], FromRaw(Drawn(mask, at)))[p + 1] \in Ring
    <3> SUFFICES ASSUME NEW p \in Party, NEW at \in Square(width)
                 PROVE  Share(Modulus, matrix[at], FromRaw(Drawn(mask, at)))[p + 1] \in Ring
      OBVIOUS
    <3>1. PICK e, y : e = matrix[at] /\ y = FromRaw(Drawn(mask, at))
      OBVIOUS
    <3>2. e \in Ring /\ y \in Ring
      BY <1>1, <2>3, <3>1, DrawnNat
    <3>3. Share(Modulus, e, y)[1] \in Ring /\ Share(Modulus, e, y)[2] \in Ring
      BY <3>2, RingHalves
    <3>4. p + 1 = 1 \/ p + 1 = 2
      BY DEF Party
    <3> QED BY <3>1, <3>3, <3>4
  <2>5. \A p \in Party : part'[p] \in [Square(width) -> Ring]
    BY <2>2, <2>4
  <2> QED BY <1>1, <2>1, <2>3, <2>5 DEF MatrixTypeOK
<1>7. CASE UNCHANGED matrixVars
  BY <1>7 DEF matrixVars, MatrixTypeOK
<1> QED BY <1>2, <1>3, <1>4, <1>5, <1>6, <1>7 DEF MatrixNext, MatrixDone

(* No string is longer than a byte where this is not checked.              *)
BytesFit == Checked \/ \A n \in Widths : n <= ByteBits

LEMMA MatrixStep ==
  ASSUME MatrixAssumptions, BytesFit, MatrixTypeOK, MatrixRight, [MatrixNext]_matrixVars
  PROVE  MatrixRight'
<1>1. /\ width \in Widths /\ width \in Nat /\ query \in [1 .. width -> BOOLEAN]
      /\ QMatrixAssumption /\ BitStringsAssumption /\ RingAssumption
      /\ width' = width /\ query' = query
      /\ 0 \in Party /\ 1 \in Party
  BY DEF MatrixTypeOK, MatrixAssumptions, QMatrixAssumption, matrixVars, Party,
         MatrixNext, MakeMatrix, PanicOnShift, ConvertMatrix, SplitBits, SplitRing, MatrixDone
<1>2. \A at : Selected(at)' = Selected(at)
  BY <1>1 DEF Selected
<1>3. CASE MakeMatrix
  <2>1. /\ form' = "bits" /\ matrix' = Convolution(width, query) /\ ByteFits(query)
    BY <1>3 DEF MakeMatrix
  <2>2. width <= ByteBits
    <3>1. Len(query) = width
      BY <1>1, LenProperties
    <3> QED BY <1>1, <2>1, <3>1 DEF ByteFits, BytesFit
  <2>3. ASSUME NEW at \in Square(width) PROVE matrix'[at] <=> Selected(at)
    <3>1. PICK n, q, i, j : /\ n = width /\ q = query /\ i = at[1] /\ j = at[2]
                            /\ at = <<i, j>> /\ i \in Indices(n) /\ j \in Indices(n)
      BY DEF Square
    <3>2. n \in Nat /\ n <= ByteBits /\ q \in [1 .. n -> BOOLEAN]
      BY <1>1, <2>2, <3>1
    <3>3. j = ColumnOf(n, q, i) <=> IsSelected(n, q, <<i, j>>)
      BY <1>1, <3>1, <3>2, ColumnSelected
    <3>4. matrix'[at] = (at[2] = ColumnOf(width, query, at[1]))
      BY <2>1, Zenon DEF Convolution
    <3> QED BY <3>1, <3>3, <3>4 DEF Selected
  <2> QED BY <1>1, <1>2, <2>1, <2>3 DEF MatrixRight
<1>4. CASE PanicOnShift
  BY <1>4 DEF PanicOnShift, MatrixRight
<1>5. CASE ConvertMatrix
  <2>1. /\ form = "bits" /\ form' = "ring"
        /\ matrix' = [at \in Square(width) |-> IF matrix[at] THEN 1 ELSE 0]
    BY <1>5 DEF ConvertMatrix
  <2>2. \A at \in Square(width) : matrix'[at] = IF Selected(at) THEN 1 ELSE 0
    BY <2>1 DEF MatrixRight
  <2> QED BY <1>1, <1>2, <2>1, <2>2 DEF MatrixRight
<1>6. CASE SplitBits
  <2>1. form = "bits" /\ form' = "bit shares"
    BY <1>6 DEF SplitBits
  <2>2. PICK mask \in Masks :
          part' = [p \in Party |-> [at \in Square(width) |->
                     IF p = 0 THEN matrix[at] # (Drawn(mask, at) % 2 = 1)
                     ELSE Drawn(mask, at) % 2 = 1]]
    BY <1>6 DEF SplitBits
  <2>3. ASSUME NEW at \in Square(width) PROVE part'[0][at] # part'[1][at] <=> Selected(at)
    <3>1. PICK b \in BOOLEAN : b = (Drawn(mask, at) % 2 = 1)
      OBVIOUS
    <3>2. /\ part'[0][at] = (matrix[at] # (Drawn(mask, at) % 2 = 1))
          /\ part'[1][at] = (Drawn(mask, at) % 2 = 1)
      <4>1. 1 # 0
        OBVIOUS
      <4> QED BY <1>1, <2>2, <4>1, Zenon
    <3>3. matrix[at] <=> Selected(at)
      BY <2>1 DEF MatrixRight
    <3>4. matrix[at] \in BOOLEAN
      BY <2>1 DEF MatrixTypeOK
    <3> QED BY <3>1, <3>2, <3>3, <3>4, Zenon
  <2> QED BY <1>1, <1>2, <2>1, <2>3 DEF MatrixRight
<1>7. CASE SplitRing
  <2>1. form = "ring" /\ form' = "ring shares"
    BY <1>7 DEF SplitRing
  <2>2. PICK mask \in Masks :
          part' = [p \in Party |-> [at \in Square(width) |->
                     Share(Modulus, matrix[at], FromRaw(Drawn(mask, at)))[p + 1]]]
    BY <1>7 DEF SplitRing
  <2>3. ASSUME NEW at \in Square(width)
        PROVE  RAdd(part'[0][at], part'[1][at]) = IF Selected(at) THEN 1 ELSE 0
    <3>1. PICK e, y : e = matrix[at] /\ y = FromRaw(Drawn(mask, at))
      OBVIOUS
    <3>2. matrix[at] \in Ring
      BY <2>1 DEF MatrixTypeOK
    <3>3. e \in Ring /\ y \in Ring
      BY <1>1, <3>1, <3>2, DrawnNat
    <3>4. RAdd(Share(Modulus, e, y)[1], Share(Modulus, e, y)[2]) = e
      BY <3>3, RingHalves
    <3>5. /\ part'[0][at] = Share(Modulus, e, y)[0 + 1] /\ part'[1][at] = Share(Modulus, e, y)[1 + 1]
          /\ 0 + 1 = 1 /\ 1 + 1 = 2
      BY <1>1, <2>2, <3>1
    <3>6. e = IF Selected(at) THEN 1 ELSE 0
      BY <2>1, <3>1 DEF MatrixRight
    <3> QED BY <3>4, <3>5, <3>6
  <2> QED BY <1>1, <1>2, <2>1, <2>3 DEF MatrixRight
<1>8. CASE UNCHANGED matrixVars
  BY <1>8 DEF matrixVars, MatrixRight, Selected
<1> QED BY <1>3, <1>4, <1>5, <1>6, <1>7, <1>8 DEF MatrixNext, MatrixDone

LEMMA InvRowsSelect == MatrixRight => RowsSelect
BY Zenon DEF MatrixRight, RowsSelect, Selected, IsSelected

(* The types of the matrices and of their shares, for every set of batch   *)
(* sizes (qmatrix.rs).                                                     *)
THEOREM MatrixKeepsType == MatrixSpec => []MatrixTypeOK
<1>1. MatrixAssumptions
  BY QMatrixAssumption, BitStringsAssumption, RingAssumption DEF MatrixAssumptions
<1> QED BY <1>1, QMatrixAssumption, MatrixTypeInit, MatrixTypeStep, PTL DEF MatrixSpec

(* A row of the shared matrix selects the place that is the row flipped by *)
(* the query and no other, whichever way it was shared, for every query    *)
(* and all randomness.  Where shifts are not checked this needs strings no *)
(* longer than the byte they are read into: beyond it two bits fall on the *)
(* same place, and two rows may select the same one (f_conv_matrix,        *)
(* convertFromQMatrix and both splits, qmatrix.rs:7-136; bits_to_u8_BE).   *)
THEOREM RowsAlwaysSelect == BytesFit => (MatrixSpec => []RowsSelect)
<1>1. MatrixAssumptions
  BY QMatrixAssumption, BitStringsAssumption, RingAssumption DEF MatrixAssumptions
<1>2. MatrixInit => MatrixRight
  BY DEF MatrixInit, MatrixRight
<1>3. ASSUME BytesFit PROVE MatrixSpec => []RowsSelect
  <2>1. MatrixTypeOK /\ MatrixRight /\ [MatrixNext]_matrixVars
          => MatrixTypeOK' /\ MatrixRight'
    BY <1>1, <1>3, MatrixStep, MatrixTypeStep
  <2>2. MatrixInit => MatrixTypeOK
    BY MatrixTypeInit, QMatrixAssumption
  <2> QED BY <1>2, <2>1, <2>2, InvRowsSelect, PTL DEF MatrixSpec
<1> QED BY <1>3
-----------------------------------------------------------------------------
(* The gadgets side by side.  A behaviour is that of one of them, and so   *)
(* is its invariant.                                                       *)
GadgetInv ==
  /\ gadget = "tuple" => TupleInv
  /\ gadget = "block" => BlockInv
  /\ gadget = "matrix" => MatrixTypeOK
  /\ gadget = "interval" => IntervalInv /\ IntervalTypeOK
  /\ gadget = "conditional" => CondInv

LEMMA GadgetInvInit == Init => GadgetInv
<1> SUFFICES ASSUME Init PROVE GadgetInv
  OBVIOUS
<1>1. CASE gadget = "tuple" /\ TupleInit
  BY <1>1, TupleInvInit DEF GadgetInv
<1>2. CASE gadget = "block" /\ MBeaverInit
  BY <1>2, BlockInit, MBeaverAssumption DEF GadgetInv
<1>3. CASE gadget = "matrix" /\ MatrixInit
  BY <1>3, MatrixTypeInit, QMatrixAssumption DEF GadgetInv
<1>4. CASE gadget = "interval" /\ IntervalInit
  BY <1>4, IntervalInvInit, IntervalTypeInit DEF GadgetInv
<1>5. CASE gadget = "conditional" /\ CondInit
  BY <1>5, CondInvInit DEF GadgetInv
<1>6. CASE gadget = "stream"
  BY <1>6 DEF GadgetInv
<1> QED BY <1>1, <1>2, <1>3, <1>4, <1>5, <1>6 DEF Init

LEMMA GadgetInvStep == GadgetInv /\ [Next]_gadgetVars => GadgetInv'
<1> SUFFICES ASSUME GadgetInv, [Next]_gadgetVars PROVE GadgetInv'
  OBVIOUS
<1>1. gadget' = gadget
  BY DEF Next, gadgetVars
<1>2. ASSUME gadget = "tuple" PROVE TupleInv'
  <2>1. TupleInv /\ [TupleNext]_tupleVars
    BY <1>2 DEF GadgetInv, Next, gadgetVars
  <2> QED BY <2>1, TupleInvStep
<1>3. ASSUME gadget = "block" PROVE BlockInv'
  <2>1. BlockInv /\ [MBeaverNext]_mbeaverVars
    BY <1>3 DEF GadgetInv, Next, gadgetVars
  <2> QED BY <2>1, BlockStep, MBeaverAssumption
<1>4. ASSUME gadget = "matrix" PROVE MatrixTypeOK'
  <2>1. MatrixTypeOK /\ [MatrixNext]_matrixVars
    BY <1>4 DEF GadgetInv, Next, gadgetVars
  <2>2. MatrixAssumptions
    BY QMatrixAssumption, BitStringsAssumption, RingAssumption DEF MatrixAssumptions
  <2> QED BY <2>1, <2>2, MatrixTypeStep
<1>5. ASSUME gadget = "interval" PROVE IntervalInv' /\ IntervalTypeOK'
  <2>1. IntervalInv /\ IntervalTypeOK
    BY <1>5 DEF GadgetInv
  <2>2. CASE Next
    <3>1. IntervalNext
      BY <1>5, <2>2 DEF Next
    <3> QED BY <2>1, <3>1, IntervalInvStep, IntervalTypeStep
  <2>3. CASE UNCHANGED gadgetVars
    <3>1. UNCHANGED intervalVars
      BY <2>3, Zenon DEF gadgetVars, condVars, intervalVars
    <3> QED BY <2>1, <3>1, IntervalInvStep, IntervalTypeStep
  <2> QED BY <2>2, <2>3
<1>6. ASSUME gadget = "conditional" PROVE CondInv'
  <2>1. CondInv /\ [CondNext]_condVars
    BY <1>6 DEF GadgetInv, Next, gadgetVars
  <2> QED BY <2>1, CondInvStep
<1> QED BY <1>1, <1>2, <1>3, <1>4, <1>5, <1>6 DEF GadgetInv

(* The types of every gadget of libfss, for every ring, group, number of   *)
(* bits and randomness (ic.rs, condEval.rs, beavertuple.rs, mbeaver.rs,    *)
(* qmatrix.rs).                                                            *)
THEOREM GadgetsKeepType == Spec => []TypeOK
<1>1. GadgetInv => TypeOK
  BY CondInvTypes DEF GadgetInv, TypeOK, TupleInv, BlockInv
<1> QED BY <1>1, GadgetInvInit, GadgetInvStep, PTL DEF Spec
=============================================================================
