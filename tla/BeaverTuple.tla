---------------------------- MODULE BeaverTuple ----------------------------
(***************************************************************************)
(* The Beaver tuples of libfss (beavertuple.rs).  Unlike the triples of    *)
(* the online protocol a tuple is an object with a memory: opening a       *)
(* product stores the differences in it, and closing the product adds the  *)
(* peer's half to what is stored.  Its ring is the whole word (u32), which *)
(* is RingArith with no bit to spare.                                      *)
(*                                                                         *)
(* The behaviour is that of two parties with one tuple between them, which *)
(* they use for one product after the other.  A party may be a product     *)
(* ahead, and either of the two ways to open and close may be taken for    *)
(* each product: beaver_mul0/beaver_mul1, on bytes, and                    *)
(* mul_open/mul_compute, on the sums the caller has formed.                *)
(***************************************************************************)
EXTENDS FixedRing, Parties, Sequences

CONSTANTS
  Draws,    \* what a tuple may be generated from: five words each
  Factors,  \* the shares of factors that are multiplied
  Products  \* bound on the products of a tuple

ASSUME TupleAssumption ==
  /\ WordSize = Modulus
  /\ Draws \subseteq [1 .. 5 -> Ring]
  /\ Factors \subseteq Ring \X Ring
  /\ Products \in Nat

VARIABLES
  server,   \* the party that passes is_server
  tuple,    \* each party's half [a, b, ab, da, db]
  given,    \* the shares of the factors each party has opened, in order
  sent,     \* the differences it has opened
  product   \* the shares of products it has closed

tupleVars == <<server, tuple, given, sent, product>>

Half == [a : Ring, b : Ring, ab : Ring, da : Ring, db : Ring]

(* genBeaver: the draw is a0, b0, a1, b1 and the first half of a * b.      *)
Generated(p, w) ==
  LET ab == RMul(RAdd(w[1], w[3]), RAdd(w[2], w[4]))
  IN  [a  |-> IF p = 0 THEN w[1] ELSE w[3],
       b  |-> IF p = 0 THEN w[2] ELSE w[4],
       ab |-> IF p = 0 THEN w[5] ELSE RSub(ab, w[5]),
       da |-> 0, db |-> 0]

TupleInit ==
  /\ server \in Party
  /\ \E w \in Draws : tuple = [p \in Party |-> Generated(p, w)]
  /\ given   = [p \in Party |-> <<>>]
  /\ sent    = [p \in Party |-> <<>>]
  /\ product = [p \in Party |-> <<>>]

(* Slip: the differences are added to those of the last product.           *)
OpenOnTop(p) ==
  /\ Len(given[p]) < Products
  /\ Len(product[p]) = Len(given[p])
  /\ \E f \in Factors :
       LET d == <<RSub(f[1], tuple[p].a), RSub(f[2], tuple[p].b)>>
       IN  /\ given' = [given EXCEPT ![p] = Append(@, f)]
           /\ tuple' = [tuple EXCEPT ![p].da = RAdd(@, d[1]), ![p].db = RAdd(@, d[2])]
           /\ sent'  = [sent EXCEPT ![p] = Append(@, d)]
  /\ UNCHANGED <<server, product>>

(* beaver_mul0 and mul_open: the differences are stored and returned.      *)
OpenProduct(p) ==
  /\ Len(given[p]) < Products
  /\ Len(product[p]) = Len(given[p])
  /\ \E f \in Factors :
       LET d == <<RSub(f[1], tuple[p].a), RSub(f[2], tuple[p].b)>>
       IN  /\ given' = [given EXCEPT ![p] = Append(@, f)]
           /\ tuple' = [tuple EXCEPT ![p].da = d[1], ![p].db = d[2]]
           /\ sent'  = [sent EXCEPT ![p] = Append(@, d)]
  /\ UNCHANGED <<server, product>>

(* A party's share of the product from both differences.                   *)
ShareOfProduct(p, d, e, t) ==
  RAdd(RAdd(RAdd(IF p = server THEN RMul(d, e) ELSE 0, RMul(d, t.b)), RMul(e, t.a)), t.ab)

CanClose(p) ==
  /\ Len(product[p]) < Len(given[p])
  /\ Len(product[p]) < Len(sent[Peer(p)])

Closed(p, d, e) ==
  /\ tuple'   = [tuple EXCEPT ![p].da = d, ![p].db = e]
  /\ product' = [product EXCEPT ![p] = Append(@, ShareOfProduct(p, d, e, tuple[p]))]
  /\ UNCHANGED <<server, given, sent>>

(* beaver_mul1: the peer's half is added to the differences of the tuple.  *)
CloseStored(p) ==
  /\ CanClose(p)
  /\ LET other == sent[Peer(p)][Len(product[p]) + 1]
     IN  Closed(p, RAdd(tuple[p].da, other[1]), RAdd(tuple[p].db, other[2]))

(* mul_compute: they are replaced by the sums the caller passes.           *)
CloseSummed(p) ==
  /\ CanClose(p)
  /\ LET k == Len(product[p]) + 1
         mine  == sent[p][k]
         other == sent[Peer(p)][k]
     IN  Closed(p, RAdd(mine[1], other[1]), RAdd(mine[2], other[2]))

TupleDone == (\A p \in Party : Len(product[p]) = Products) /\ UNCHANGED tupleVars

TupleStep(p) == OpenProduct(p) \/ CloseStored(p) \/ CloseSummed(p)

TupleNext == (\E p \in Party : TupleStep(p)) \/ TupleDone

TupleSpec == TupleInit /\ [][TupleNext]_tupleVars

-----------------------------------------------------------------------------
TupleTypeOK ==
  /\ server \in Party
  /\ tuple \in [Party -> Half]
  /\ given \in [Party -> Seq(Ring \X Ring)]
  /\ sent \in [Party -> Seq(Ring \X Ring)]
  /\ product \in [Party -> Seq(Ring)]

(* However often a tuple is used, whichever way each party closes a        *)
(* product, and although one of them may have opened the next before the   *)
(* other closed this one: the shares of a product add up to the product of *)
(* the factors (beavertuple.rs:77-129).                                    *)
ProductsRecombine ==
  \A k \in 1 .. Products :
    (\A p \in Party : k <= Len(product[p])) =>
      RAdd(product[0][k], product[1][k])
        = RMul(RAdd(given[0][k][1], given[1][k][1]), RAdd(given[0][k][2], given[1][k][2]))
=============================================================================
