----------------------------- MODULE MCProtocol -----------------------------
(***************************************************************************)
(* Instances of Protocol for TLC.  Ring elements have 2 or 3 bits in a     *)
(* machine word of 4; what the dealer draws is a sample (RingTheorems has  *)
(* the algebra of it for every modulus and everything the dealer may       *)
(* draw).                                                                  *)
(***************************************************************************)
EXTENDS Protocol

CONSTANT NotFinite

MCMessage == Seq(Word)

(* Two integer bits; the same and one more fractional bit; one more        *)
(* integer bit.                                                            *)
Narrow == [modulus |-> 4, scale |-> 1]
Fine   == [modulus |-> 8, scale |-> 2]
Wide   == [modulus |-> 8, scale |-> 1]

MCFormats == {Narrow, Fine, Wide}

(* 2 is a number of the wide format only.                                  *)
MCLiterals == -2 .. 2 \cup {NotFinite}

(* encode, for integers.                                                   *)
MCEncoding ==
  [f \in MCFormats |->
    [literal \in MCLiterals |->
      IF literal = NotFinite THEN Unencodable
      ELSE LET scaled == literal * f.scale
               bound  == f.modulus \div 2
           IN  IF scaled \in -bound .. bound - 1 THEN ZRaw(f.modulus, scaled) ELSE Unencodable]]

(* The values of the wires, 0 where an input or a literal has none.        *)
Meaning(c, f, input) ==
  LET Stands(literal) ==
        IF literal = Missing THEN 0
        ELSE IF Encoding[f][literal] = Unencodable THEN 0 ELSE Encoding[f][literal]
      value[w \in Wires(c)] ==
        LET g == c.gates[w]
        IN  CASE g.kind = "input" -> Stands(input[g.owner][w])
              [] g.kind = "const" -> Stands(g.literal)
              [] g.kind = "add" -> ZAdd(f.modulus, value[g.args[1]], value[g.args[2]])
              [] g.kind = "mul" -> ZMul(f.modulus, value[g.args[1]], value[g.args[2]])
              [] g.kind = "output" -> value[g.args[1]]
              [] OTHER -> 0
  IN  value

(* Three triples of the dealer run with this seed, in this format.         *)
Drawn(seed, f) ==
  [format  |-> f,
   triples |-> [t \in 1 .. 3 |->
                 [k \in 1 .. 5 |-> (seed + 3 * t + k * k + seed * k * t) % f.modulus]]]

(* Every wire has an entry in the input files; only inputs are read.       *)
FileOf(c, v) == [w \in Wires(c) |-> v[w]]

Started(c0, c1, values, deal0, deal1) ==
  LET circuit == [p \in Party |-> IF p = 0 THEN c0 ELSE c1]
      input   == [p \in Party |-> FileOf(circuit[p], values)]
  IN  [circuit |-> circuit,
       input   |-> input,
       deal    |-> [p \in Party |-> IF p = 0 THEN deal0 ELSE deal1],
       clear   |-> Meaning(c0, deal0.format, input)]

Together(c, values, deal) == Started(c, c, values, deal, deal)

Plain == [w \in 1 .. 12 |-> ((2 * w + 1) % 4) - 2]
Even  == [w \in 1 .. 12 |-> (w % 4) - 2]

-----------------------------------------------------------------------------
(* Every circuit with an input of each party, two gates and an output.     *)
Numbered(gates) ==
  [w \in 1 .. Len(gates) |->
    IF gates[w].kind # "mul" THEN gates[w]
    ELSE [gates[w] EXCEPT !.triple =
            Cardinality({v \in 1 .. w : gates[v].kind = "mul"})]]

GatesAt(w) ==
  {Const(-1)} \cup UNION {{Add(u, v), Mul(u, v, 1)} : u, v \in 1 .. w - 1}

TwoGateCircuits ==
  {Built(Numbered(<<Input(0), Input(1), g, h, Output(4)>>)) :
     g \in {x \in GatesAt(3) : x.args = <<>> \/ x.args[1] <= x.args[2]},
     h \in GatesAt(4)}

SmallLaunches ==
  {Together(c, values, deal) :
     c \in TwoGateCircuits, values \in {Plain, Even}, deal \in {Drawn(1, Narrow), Drawn(2, Fine)}}

(* Products in sequence and side by side, of constants too, local gates in *)
(* between, three inputs and two outputs.                                  *)
Layered ==
  Built(<<Input(0), Input(1), Const(-1), Mul(1, 2, 1), Input(0), Mul(3, 5, 2),
          Add(4, 6), Mul(7, 4, 3), Add(8, 3), Output(9), Output(7)>>)

GoodLaunches ==
  SmallLaunches
  \cup {Together(Layered, values, deal) :
          values \in {Plain, Even}, deal \in {Drawn(1, Narrow), Drawn(2, Fine)}}

-----------------------------------------------------------------------------
(* Netlists the two parties may each have: the messages have the same      *)
(* lengths for some pairs of them, and others for other pairs.  The halves *)
(* may be those of other dealer runs, of another format too.               *)
Product2 == Built(<<Input(0), Input(1), Mul(1, 2, 1), Output(3)>>)
Sum2     == Built(<<Input(0), Input(1), Add(1, 2), Output(2), Output(3)>>)
Square   == Built(<<Input(0), Input(1), Mul(1, 1, 1), Output(3)>>)
Swapped  == Built(<<Input(1), Input(0), Input(0), Mul(1, 2, 1), Output(3), Output(4)>>)
Chained  == Built(<<Input(0), Input(1), Mul(1, 2, 1), Mul(3, 2, 2), Output(4)>>)

Netlists == {Product2, Sum2, Square, Swapped, Chained}

MixedLaunches ==
  {Started(c, d, Plain, Drawn(1, Narrow), deal) :
     c \in Netlists, d \in Netlists,
     deal \in {Drawn(1, Narrow), Drawn(2, Narrow), Drawn(2, Fine), Drawn(2, Wide)}}

AnswerLaunches == GoodLaunches \cup MixedLaunches

-----------------------------------------------------------------------------
(* Launches in which something is wrong, and some in which nothing is.     *)
Without(values, w, what) == [values EXCEPT ![w] = what]

BadConstant == Built(<<Input(0), Const(NotFinite), Input(1), Mul(1, 3, 1),
                       Mul(4, 2, 2), Output(5)>>)
BadSum      == Built(<<Input(0), Const(NotFinite), Input(1), Mul(1, 3, 1),
                       Add(2, 4), Output(5)>>)
BadOutput   == Built(<<Input(0), Const(NotFinite), Input(1), Output(2)>>)
UnusedBad   == Built(<<Input(0), Const(NotFinite), Input(1), Mul(1, 3, 1), Output(4)>>)
Truncating  == Built(<<Input(0), Input(1), Const(1), Mul(1, 2, 1), Trunc(4, 3),
                       Ltz(5), Output(6)>>)
MulAndTrunc == Built(<<Input(0), Input(1), Const(1), Mul(1, 2, 1), Trunc(1, 3), Output(4)>>)
LateTrunc   == Built(<<Input(0), Input(1), Mul(1, 2, 1), Const(1), Output(3), Trunc(3, 4)>>)
WideConstant == Built(<<Input(0), Const(2), Input(1), Mul(1, 3, 1), Mul(4, 2, 2), Output(5)>>)
ReadsOutput == Built(<<Input(0), Input(1), Mul(1, 2, 1), Output(3), Add(1, 4), Output(5)>>)
RevealsOut  == Built(<<Input(0), Input(1), Output(1), Output(3)>>)

OneRun == Drawn(1, Narrow)

FaultLaunches ==
  {Together(Chained, Without(Plain, 1, Missing), OneRun),
   Together(Chained, Without(Plain, 2, Missing), OneRun),
   Together(Chained, Without(Plain, 2, NotFinite), OneRun),
   Together(Swapped, Without(Without(Plain, 2, 2), 3, Missing), OneRun)}
  \cup {Together(c, Plain, OneRun) :
          c \in {BadConstant, BadSum, BadOutput, UnusedBad, Truncating, MulAndTrunc,
                 LateTrunc, ReadsOutput, RevealsOut, Chained, Sum2, Swapped}}
  \cup {Started(WideConstant, WideConstant, Plain, Drawn(1, f), Drawn(2, g)) :
          f \in {Narrow, Wide}, g \in {Narrow, Wide}}
=============================================================================
