------------------------------ MODULE QMatrix ------------------------------
(***************************************************************************)
(* The matrices that permute a batch by a secret query (qmatrix.rs).  For  *)
(* a query of `width` bits, f_conv_matrix makes a square of 2^width bits   *)
(* with one 1 in each row.  It is shared bit by bit, or first turned into  *)
(* ring elements and then shared over the ring.                            *)
(***************************************************************************)
EXTENDS FixedRing, Parties, BitStrings

CONSTANTS
  Widths,   \* the batch sizes
  Masks     \* the randomness of split, as [row, column, shift] weights

ASSUME QMatrixAssumption ==
  /\ Widths \subseteq Nat \ {0}
  /\ Masks \subseteq [row : Nat, column : Nat, shift : Nat]
  /\ Modulus > 1

VARIABLES
  width, query,  \* the batch size and the query
  matrix,        \* the square, once it is made
  form,          \* how far it is: "none", "panicked", "bits", "ring", or the
                 \* shares of either
  part           \* each party's share

matrixVars == <<width, query, matrix, form, part>>

Indices(n) == 0 .. Pow2[n] - 1
Square(n)  == Indices(n) \X Indices(n)

(* The column of the 1 in a row: the query, flipped by the row counted     *)
(* from the last, and counted from the last again.                         *)
ColumnOf(n, q, row) ==
  Pow2[n] - 1 - ToByte(XorBits(q, ToBits(n, Pow2[n] - 1 - row)))

Convolution(n, q) == [at \in Square(n) |-> at[2] = ColumnOf(n, q, at[1])]

(* One number per place, as the generator may draw them.                   *)
Drawn(mask, at) == mask.row * at[1] + mask.column * at[2] + mask.shift

MatrixInit ==
  /\ width \in Widths
  /\ query \in [1 .. width -> BOOLEAN]
  /\ matrix = <<>> /\ form = "none"
  /\ part = [p \in Party |-> <<>>]

(* f_conv_matrix.                                                          *)
MakeMatrix ==
  /\ form = "none"
  /\ ByteFits(query)
  /\ matrix' = Convolution(width, query)
  /\ form' = "bits"
  /\ UNCHANGED <<width, query, part>>

PanicOnShift ==
  /\ form = "none"
  /\ ~ByteFits(query)
  /\ form' = "panicked"
  /\ UNCHANGED <<width, query, matrix, part>>

(* convertFromQMatrix.                                                     *)
ConvertMatrix ==
  /\ form = "bits"
  /\ matrix' = [at \in Square(width) |-> IF matrix[at] THEN 1 ELSE 0]
  /\ form' = "ring"
  /\ UNCHANGED <<width, query, part>>

(* QMatrix::split: party 1's half is drawn.                                *)
SplitBits ==
  /\ form = "bits"
  /\ \E mask \in Masks :
       LET drawn(at) == Drawn(mask, at) % 2 = 1
       IN  part' = [p \in Party |-> [at \in Square(width) |->
                      IF p = 0 THEN matrix[at] # drawn(at) ELSE drawn(at)]]
  /\ form' = "bit shares"
  /\ UNCHANGED <<width, query, matrix>>

(* QElmMatrix::split: each element is shared by itself.                    *)
SplitRing ==
  /\ form = "ring"
  /\ \E mask \in Masks :
       part' = [p \in Party |-> [at \in Square(width) |->
                  Share(Modulus, matrix[at], FromRaw(Drawn(mask, at)))[p + 1]]]
  /\ form' = "ring shares"
  /\ UNCHANGED <<width, query, matrix>>

MatrixDone ==
  /\ form \in {"panicked", "bit shares", "ring shares"}
  /\ UNCHANGED matrixVars

MatrixNext ==
  MakeMatrix \/ PanicOnShift \/ ConvertMatrix \/ SplitBits \/ SplitRing \/ MatrixDone

MatrixSpec == MatrixInit /\ [][MatrixNext]_matrixVars

-----------------------------------------------------------------------------
MatrixTypeOK ==
  /\ width \in Widths
  /\ query \in [1 .. width -> BOOLEAN]
  /\ form \in {"none", "panicked", "bits", "ring", "bit shares", "ring shares"}
  /\ CASE form \in {"none", "panicked"} -> matrix = <<>>
       [] form \in {"bits", "bit shares"} -> matrix \in [Square(width) -> BOOLEAN]
       [] form \in {"ring", "ring shares"} -> matrix \in [Square(width) -> Ring]
  /\ \A p \in Party :
       CASE form = "bit shares" -> part[p] \in [Square(width) -> BOOLEAN]
         [] form = "ring shares" -> part[p] \in [Square(width) -> Ring]
         [] OTHER -> part[p] = <<>>

(* Whichever way the matrix was shared, a row of the shares together       *)
(* selects the place that is the row flipped by the query, and no other:   *)
(* applied to a batch it moves the place the query names to the front, and *)
(* applied twice it gives the batch back (qmatrix.rs:7-136).               *)
RowsSelect ==
  \A at \in Square(width) :
    LET selected == ToBits(width, at[2]) = XorBits(query, ToBits(width, at[1]))
    IN  /\ form = "bit shares" => ((part[0][at] # part[1][at]) <=> selected)
        /\ form = "ring shares" =>
             RAdd(part[0][at], part[1][at]) = IF selected THEN 1 ELSE 0
=============================================================================
