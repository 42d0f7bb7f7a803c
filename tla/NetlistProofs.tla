--------------------------- MODULE NetlistProofs ---------------------------
(***************************************************************************)
(* What the reader does with any file.  Its invariant has two parts: while *)
(* lines are read, every gate reads wires before it and each product has   *)
(* a triple of its own (ReadInv); while rounds are made, the gates         *)
(* scheduled so far have one place each, as early as what they wait for    *)
(* allows (ScheduleInv).                                                   *)
(*                                                                         *)
(* Filtered and Depth are recursive functions.  What they yield is shown   *)
(* by the least place at which it would be something else (Least).         *)
(***************************************************************************)
EXTENDS Netlist, SequenceTheorems, FiniteSetTheorems, WellFoundedInduction, TLAPS

(* Numbers, if there are any, have a smallest one.                         *)
LEMMA Least ==
  ASSUME NEW S, S \subseteq Nat, S # {}
  PROVE  \E m \in S : \A k \in S : m <= k
<1> DEFINE R == OpToRel(<, Nat)
<1>1. IsWellFoundedOn(R, Nat)
  BY NatLessThanWellFounded
<1>2. \A a \in Nat : \A b \in Nat : a < b => <<a, b>> \in R
  BY DEF OpToRel
<1> HIDE DEF R
<1>3. PICK m \in S : \A k \in S : ~(<<k, m>> \in R)
  BY <1>1, WFMin
<1>4. \A k \in S : ~(k < m)
  BY <1>2, <1>3
<1> QED BY <1>3, <1>4

(* A set of numbers with a bound has a largest one, and the reader finds   *)
(* it.                                                                     *)
LEMMA LargestIs ==
  ASSUME NEW S, S \subseteq Nat, S # {}, NEW b \in Nat, \A x \in S : x <= b
  PROVE  Largest(S) \in S /\ \A x \in S : x <= Largest(S)
<1> DEFINE D == {b - x : x \in S}
<1>1. D \subseteq Nat /\ D # {}
  <2>1. \A x \in S : b - x \in Nat
    OBVIOUS
  <2>2. D # {}
    <3>1. PICK x : x \in S
      OBVIOUS
    <3>2. b - x \in D
      BY <3>1
    <3> QED BY <3>2
  <2> QED BY <2>1, <2>2
<1>2. PICK d \in D : \A e \in D : d <= e
  BY <1>1, Least
<1>3. PICK m \in S : d = b - m
  BY <1>2
<1>4. \A x \in S : x <= m
  <2> SUFFICES ASSUME NEW x \in S PROVE x <= m
    OBVIOUS
  <2>1. b - x \in D
    OBVIOUS
  <2>2. b - m <= b - x
    BY <1>2, <1>3, <2>1
  <2>3. x \in Nat /\ m \in Nat
    OBVIOUS
  <2> QED BY <2>2, <2>3
<1> QED BY <1>3, <1>4, Zenon DEF Largest

-----------------------------------------------------------------------------
(* What the filter of inputs_of leaves.                                    *)
IsKept(s, S, n, f) ==
  f = [k \in 0 .. n |->
         IF k = 0 THEN <<>>
         ELSE IF s[k] \in S THEN Append(f[k - 1], s[k]) ELSE f[k - 1]]

LEMMA KeptExists ==
  ASSUME NEW s, NEW S, NEW n \in Nat
  PROVE  \E f : IsKept(s, S, n, f)
<1> DEFINE Without == {m \in Nat : ~ \E f : IsKept(s, S, m, f)}
<1> SUFFICES ASSUME Without # {} PROVE FALSE
  OBVIOUS
<1>1. PICK m \in Without : \A i \in Without : m <= i
  BY Least
<1>2. m # 0
  <2>1. IsKept(s, S, 0, [k \in {0} |-> <<>>])
    BY DEF IsKept
  <2> QED BY <2>1
<1>3. m - 1 \in Nat /\ m - 1 \notin Without
  BY <1>1, <1>2
<1>4. PICK f : IsKept(s, S, m - 1, f)
  BY <1>3
<1> DEFINE last == IF s[m] \in S THEN Append(f[m - 1], s[m]) ELSE f[m - 1]
           g    == [k \in 0 .. m |-> IF k = m THEN last ELSE f[k]]
<1>5. \A k \in 0 .. m - 1 :
        f[k] = IF k = 0 THEN <<>>
               ELSE IF s[k] \in S THEN Append(f[k - 1], s[k]) ELSE f[k - 1]
  BY <1>4, Zenon DEF IsKept
<1>6. \A k \in 0 .. m :
        g[k] = IF k = 0 THEN <<>>
               ELSE IF s[k] \in S THEN Append(g[k - 1], s[k]) ELSE g[k - 1]
  BY <1>2, <1>5
<1>7. IsKept(s, S, m, g)
  BY <1>6, Zenon DEF IsKept
<1> QED BY <1>7

(* Everything of the set that is in the sequence, once if it is there once. *)
Keeps(s, S, k, f) ==
  /\ f \in Seq(S)
  /\ \A i \in 1 .. k : s[i] \in S => \E j \in 1 .. Len(f) : f[j] = s[i]
  /\ \A j \in 1 .. Len(f) : \E i \in 1 .. k : f[j] = s[i]
  /\ \A j, l \in 1 .. Len(f) : f[j] = f[l] => j = l

LEMMA KeptStep ==
  ASSUME NEW s, NEW S, NEW k \in Nat, k > 0, NEW f, Keeps(s, S, k - 1, f),
         \A i, j \in 1 .. k : s[i] = s[j] => i = j
  PROVE  Keeps(s, S, k, IF s[k] \in S THEN Append(f, s[k]) ELSE f)
<1>1. CASE s[k] \notin S
  BY <1>1 DEF Keeps
<1>2. CASE s[k] \in S
  <2> DEFINE g == Append(f, s[k])
  <2>1. /\ g \in Seq(S) /\ Len(f) \in Nat /\ Len(g) = Len(f) + 1
        /\ \A i \in 1 .. Len(f) : g[i] = f[i]
        /\ g[Len(f) + 1] = s[k]
    BY <1>2, AppendProperties, LenProperties DEF Keeps
  <2> HIDE DEF g
  <2>2. \A i \in 1 .. k : s[i] \in S => \E j \in 1 .. Len(g) : g[j] = s[i]
    <3> SUFFICES ASSUME NEW i \in 1 .. k, s[i] \in S
                 PROVE  \E j \in 1 .. Len(g) : g[j] = s[i]
      OBVIOUS
    <3>1. CASE i = k
      <4>1. Len(g) \in 1 .. Len(g) /\ g[Len(g)] = s[i]
        BY <2>1, <3>1
      <4> QED BY <4>1
    <3>2. CASE i # k
      <4>1. i \in 1 .. k - 1
        BY <3>2
      <4>2. PICK j \in 1 .. Len(f) : f[j] = s[i]
        BY <4>1 DEF Keeps
      <4>3. j \in 1 .. Len(g) /\ g[j] = s[i]
        BY <2>1, <4>2
      <4> QED BY <4>3
    <3> QED BY <3>1, <3>2
  <2>3. \A j \in 1 .. Len(g) : \E i \in 1 .. k : g[j] = s[i]
    <3> SUFFICES ASSUME NEW j \in 1 .. Len(g) PROVE \E i \in 1 .. k : g[j] = s[i]
      OBVIOUS
    <3>1. CASE j = Len(f) + 1
      BY <2>1, <3>1
    <3>2. CASE j # Len(f) + 1
      <4>1. j \in 1 .. Len(f)
        BY <2>1, <3>2
      <4>2. PICK i \in 1 .. k - 1 : f[j] = s[i]
        BY <4>1 DEF Keeps
      <4>3. i \in 1 .. k /\ g[j] = s[i]
        BY <2>1, <4>1, <4>2
      <4> QED BY <4>3
    <3> QED BY <3>1, <3>2
  <2>4. \A j \in 1 .. Len(f) : f[j] # s[k]
    <3> SUFFICES ASSUME NEW j \in 1 .. Len(f), f[j] = s[k] PROVE FALSE
      OBVIOUS
    <3>1. PICK i \in 1 .. k - 1 : f[j] = s[i]
      BY DEF Keeps
    <3>2. i \in 1 .. k /\ k \in 1 .. k /\ i # k
      OBVIOUS
    <3> QED BY <3>1, <3>2
  <2>5. \A j, l \in 1 .. Len(g) : g[j] = g[l] => j = l
    <3> SUFFICES ASSUME NEW j \in 1 .. Len(g), NEW l \in 1 .. Len(g), g[j] = g[l]
                 PROVE  j = l
      OBVIOUS
    <3>1. (j \in 1 .. Len(f) \/ j = Len(f) + 1) /\ (l \in 1 .. Len(f) \/ l = Len(f) + 1)
      BY <2>1
    <3> QED BY <2>1, <2>4, <3>1 DEF Keeps
  <2>6. Keeps(s, S, k, g)
    BY <2>1, <2>2, <2>3, <2>5 DEF Keeps
  <2> QED BY <1>2, <2>6 DEF g
<1> QED BY <1>1, <1>2

LEMMA FilterKeeps ==
  ASSUME NEW T, NEW s \in Seq(T), NEW S,
         \A i, j \in 1 .. Len(s) : s[i] = s[j] => i = j
  PROVE  Keeps(s, S, Len(s), Filtered(s, S))
<1> DEFINE n == Len(s)
           f == CHOOSE f : IsKept(s, S, n, f)
<1>1. n \in Nat
  BY LenProperties
<1>2. IsKept(s, S, n, f)
  BY <1>1, KeptExists, Zenon
<1>3. Filtered(s, S) = f[n]
  BY Zenon DEF Filtered, IsKept
<1> HIDE DEF f
<1>4. \A k \in 0 .. n :
        f[k] = IF k = 0 THEN <<>>
               ELSE IF s[k] \in S THEN Append(f[k - 1], s[k]) ELSE f[k - 1]
  BY <1>2, Zenon DEF IsKept
<1> DEFINE Bad == {k \in 0 .. n : ~Keeps(s, S, k, f[k])}
<1>5. Bad = {}
  <2> SUFFICES ASSUME Bad # {} PROVE FALSE
    OBVIOUS
  <2>1. Bad \subseteq Nat
    BY <1>1
  <2>2. PICK k \in Bad : \A i \in Bad : k <= i
    BY <2>1, Least
  <2>3. k # 0
    <3>1. f[0] = <<>>
      BY <1>1, <1>4
    <3>2. Keeps(s, S, 0, <<>>)
      BY DEF Keeps
    <3> QED BY <2>2, <3>1, <3>2
  <2>4. k \in Nat /\ k > 0 /\ k - 1 \in 0 .. n /\ k \in 0 .. n /\ k - 1 \notin Bad
    BY <1>1, <2>1, <2>2, <2>3
  <2>5. Keeps(s, S, k - 1, f[k - 1])
    BY <2>4
  <2>6. \A i, j \in 1 .. k : s[i] = s[j] => i = j
    BY <1>1, <2>4
  <2>7. f[k] = IF s[k] \in S THEN Append(f[k - 1], s[k]) ELSE f[k - 1]
    BY <1>4, <2>3, <2>4
  <2>8. Keeps(s, S, k, f[k])
    BY <2>4, <2>5, <2>6, <2>7, KeptStep
  <2> QED BY <2>2, <2>8
<1>6. Keeps(s, S, n, f[n])
  BY <1>1, <1>5
<1> QED BY <1>3, <1>6

-----------------------------------------------------------------------------
(* The gate a line stands for.                                             *)
Kinds == {"input", "const", "add", "mul", "trunc", "ltz", "output"}

Arity(kind) ==
  CASE kind \in {"input", "const"} -> 0
    [] kind \in {"ltz", "output"} -> 1
    [] OTHER -> 2

(* What is asked of a gate that may read the first n wires, of m triples.  *)
Fits(g, n, m) ==
  /\ g.kind \in Kinds
  /\ g.args \in Seq(1 .. n)
  /\ Len(g.args) = Arity(g.kind)
  /\ g.kind = "input" => g.owner \in Party
  /\ g.kind = "mul" => g.triple \in 1 .. m

(* A gate behind all wires so far: a product takes the next triple.        *)
IsNext(g) ==
  /\ Fits(g, Len(gates), triples + 1)
  /\ g.kind = "mul" => g.triple = triples + 1

LEMMA GateIsNext ==
  ASSUME NEW line \in Lines, IsWellFormed(line), ~UnknownWire(line),
         Len(gates) \in Nat, Len(inputs) \in Nat, triples \in Nat,
         idOf \in [DOMAIN idOf -> 1 .. Len(gates)]
  PROVE  IsNext(GateOf(line))
<1>1. line \in Seq(STRING) /\ Len(line) \in Nat
  BY NetlistAssumption, LenProperties
<1>2. ASSUME NEW k \in DOMAIN References(line)
      PROVE  idOf[References(line)[k]] \in 1 .. Len(gates)
  BY DEF UnknownWire, Known
<1>3. CASE IsInput(line)
  <2>1. GateOf(line) = Input(IF Len(line) = 2 THEN Owner[line[2]] ELSE Len(inputs) % 2)
    <3>1. ~IsOutput(line) /\ \A op \in {"C", "+", "*", ">>", "<"} : ~IsGate(line, op)
      <4>1. ~IsOutput(line)
        BY <1>3 DEF IsOutput
      <4>2. Len(line) = 1 \/ Len(line) = 2
        BY <1>3 DEF IsInput
      <4>3. ~(Len(line) >= 3)
        <5>1. \A n \in Nat : n = 1 \/ n = 2 => ~(n >= 3)
          OBVIOUS
        <5> QED BY <1>1, <4>2, <5>1, Zenon
      <4> QED BY <4>1, <4>3 DEF IsGate
    <3> QED BY <1>3, <3>1 DEF GateOf
  <2> DEFINE who == IF Len(line) = 2 THEN Owner[line[2]] ELSE Len(inputs) % 2
  <2>2. who \in Party
    <3>1. CASE Len(line) = 2
      BY <1>3, <3>1 DEF IsInput, Owner, Party
    <3>2. CASE Len(line) # 2
      BY <3>2 DEF Party
    <3> QED BY <3>1, <3>2
  <2> HIDE DEF who
  <2>3. IsNext(Input(who))
    BY <2>2 DEF IsNext, Fits, Input, Kinds, Arity
  <2> QED BY <2>1, <2>3 DEF who
<1>4. CASE IsOutput(line)
  <2>1. GateOf(line) = Output(idOf[line[2]]) /\ References(line) = <<line[2]>>
    BY <1>1, <1>4 DEF GateOf, References, IsInput, IsOutput, IsGate
  <2>2. idOf[line[2]] \in 1 .. Len(gates)
    <3>1. 1 \in DOMAIN References(line) /\ References(line)[1] = line[2]
      BY <2>1
    <3> QED BY <1>2, <3>1
  <2>3. \A a \in 1 .. Len(gates) : IsNext(Output(a))
    BY DEF IsNext, Fits, Output, Kinds, Arity
  <2> QED BY <2>1, <2>2, <2>3
<1>5. CASE IsGate(line, "C")
  <2>1. GateOf(line) = Const(line[3])
    BY <1>1, <1>5 DEF GateOf, IsInput, IsOutput, IsGate
  <2>2. \A l : IsNext(Const(l))
    BY DEF IsNext, Fits, Const, Kinds, Arity
  <2> QED BY <2>1, <2>2
<1>6. CASE IsGate(line, "+") \/ IsGate(line, "*")
  <2>1. /\ References(line) = <<line[3], line[4]>>
        /\ GateOf(line) = IF line[2] = "+" THEN Add(idOf[line[3]], idOf[line[4]])
                          ELSE Mul(idOf[line[3]], idOf[line[4]], triples + 1)
    BY <1>1, <1>6 DEF GateOf, References, IsInput, IsOutput, IsGate
  <2>2. idOf[line[3]] \in 1 .. Len(gates) /\ idOf[line[4]] \in 1 .. Len(gates)
    <3>1. /\ 1 \in DOMAIN References(line) /\ References(line)[1] = line[3]
          /\ 2 \in DOMAIN References(line) /\ References(line)[2] = line[4]
      BY <2>1
    <3> QED BY <1>2, <3>1
  <2>3. \A a, b \in 1 .. Len(gates) : IsNext(Add(a, b)) /\ IsNext(Mul(a, b, triples + 1))
    BY DEF IsNext, Fits, Add, Mul, Kinds, Arity
  <2> QED BY <2>1, <2>2, <2>3
<1>7. CASE IsGate(line, ">>")
  <2>1. /\ References(line) = <<line[4], line[5]>>
        /\ GateOf(line) = Trunc(idOf[line[4]], idOf[line[5]])
    BY <1>1, <1>7 DEF GateOf, References, IsInput, IsOutput, IsGate
  <2>2. idOf[line[4]] \in 1 .. Len(gates) /\ idOf[line[5]] \in 1 .. Len(gates)
    <3>1. /\ 1 \in DOMAIN References(line) /\ References(line)[1] = line[4]
          /\ 2 \in DOMAIN References(line) /\ References(line)[2] = line[5]
      BY <2>1
    <3> QED BY <1>2, <3>1
  <2>3. \A a, b \in 1 .. Len(gates) : IsNext(Trunc(a, b))
    BY DEF IsNext, Fits, Trunc, Kinds, Arity
  <2> QED BY <2>1, <2>2, <2>3
<1>8. CASE IsGate(line, "<")
  <2>1. /\ References(line) = <<line[4]>>
        /\ GateOf(line) = Ltz(idOf[line[4]])
    BY <1>1, <1>8 DEF GateOf, References, IsInput, IsOutput, IsGate
  <2>2. idOf[line[4]] \in 1 .. Len(gates)
    <3>1. 1 \in DOMAIN References(line) /\ References(line)[1] = line[4]
      BY <2>1
    <3> QED BY <1>2, <3>1
  <2>3. \A a \in 1 .. Len(gates) : IsNext(Ltz(a))
    BY DEF IsNext, Fits, Ltz, Kinds, Arity
  <2> QED BY <2>1, <2>2, <2>3
<1> QED BY <1>3, <1>4, <1>5, <1>6, <1>7, <1>8 DEF IsWellFormed

-----------------------------------------------------------------------------
(* The inductive invariant, while lines are read.                          *)

OfKind(kind) == {w \in 1 .. Len(gates) : gates[w].kind = kind}

GatesFit ==
  /\ \E S : gates \in Seq(S)
  /\ triples \in Nat
  /\ \A w \in 1 .. Len(gates) : Fits(gates[w], w - 1, triples)

(* Each triple is that of one product.                                     *)
TriplesServe ==
  /\ \A i, j \in OfKind("mul") : gates[i].triple = gates[j].triple => i = j
  /\ \A m \in 1 .. triples : \E w \in OfKind("mul") : gates[w].triple = m

NamesFit ==
  /\ idOf \in [DOMAIN idOf -> 1 .. Len(gates)]
  /\ IsFiniteSet(DOMAIN idOf)
  /\ NamesAreWires

(* The inputs are listed once each, the outputs are outputs.               *)
ListsFit ==
  /\ inputs \in Seq(OfKind("input"))
  /\ \A w \in OfKind("input") : \E k \in 1 .. Len(inputs) : inputs[k] = w
  /\ \A j, k \in 1 .. Len(inputs) : inputs[j] = inputs[k] => j = k
  /\ outputs \in Seq(OfKind("output"))

ReadInv == lines \in 0 .. MaxLines /\ GatesFit /\ TriplesServe /\ NamesFit /\ ListsFit

LEMMA ReadInvInit == Init => ReadInv
<1> SUFFICES ASSUME Init PROVE ReadInv
  OBVIOUS
<1>1. /\ lines = 0 /\ gates = <<>> /\ inputs = <<>> /\ outputs = <<>>
      /\ triples = 0 /\ idOf = <<>>
  BY DEF Init
<1>2. Len(gates) = 0 /\ 1 .. Len(gates) = {} /\ Len(inputs) = 0
  BY <1>1
<1>3. lines \in 0 .. MaxLines
  BY <1>1, NetlistAssumption
<1>4. GatesFit
  <2>1. gates \in Seq({})
    BY <1>1
  <2> QED BY <1>1, <1>2, <2>1 DEF GatesFit
<1>5. TriplesServe
  BY <1>1, <1>2 DEF TriplesServe, OfKind
<1>6. NamesFit
  <2>1. DOMAIN idOf = {}
    BY <1>1
  <2>2. IsFiniteSet({}) /\ Cardinality({}) = 0
    BY FS_EmptySet
  <2>3. NamesAreWires
    BY <1>2, <2>1, <2>2 DEF NamesAreWires
  <2>4. idOf \in [{} -> 1 .. Len(gates)]
    BY <1>1
  <2> QED BY <2>1, <2>2, <2>3, <2>4 DEF NamesFit
<1>7. ListsFit
  BY <1>1, <1>2 DEF ListsFit, OfKind
<1> QED BY <1>3, <1>4, <1>5, <1>6, <1>7 DEF ReadInv

(* What a line that is accepted does to the gates.                         *)
Adds(n, g) ==
  /\ n = Len(gates) /\ n \in Nat /\ IsNext(g)
  /\ Len(gates') = n + 1
  /\ \A w \in 1 .. n : gates'[w] = gates[w]
  /\ gates'[n + 1] = g
  /\ triples' = IF g.kind = "mul" THEN triples + 1 ELSE triples

LEMMA LineAdds ==
  ASSUME ReadInv, NEW line \in Lines, AddGate(line)
  PROVE  /\ Adds(Len(gates), GateOf(line))
         /\ \E S : gates' \in Seq(S)
<1>1. PICK S : gates \in Seq(S)
  BY DEF ReadInv, GatesFit
<1>2. IsWellFormed(line) /\ ~UnknownWire(line)
  BY DEF AddGate, LineFault
<1>3. Len(gates) \in Nat /\ Len(inputs) \in Nat /\ triples \in Nat
  BY <1>1, LenProperties DEF ReadInv, GatesFit, ListsFit
<1>4. IsNext(GateOf(line))
  BY <1>2, <1>3, GateIsNext DEF ReadInv, NamesFit
<1> DEFINE g == GateOf(line)
<1>5. /\ gates' = Append(gates, g)
      /\ triples' = IF g.kind = "mul" THEN triples + 1 ELSE triples
  BY DEF AddGate
<1> HIDE DEF g
<1>6. gates \in Seq(S \cup {g}) /\ g \in S \cup {g}
  BY <1>1
<1>7. /\ gates' \in Seq(S \cup {g}) /\ Len(gates') = Len(gates) + 1
      /\ \A w \in 1 .. Len(gates) : gates'[w] = gates[w]
      /\ gates'[Len(gates) + 1] = g
  BY <1>5, <1>6, AppendProperties
<1>8. Adds(Len(gates), g)
  BY <1>3, <1>4, <1>5, <1>7 DEF Adds, g
<1> QED BY <1>7, <1>8 DEF g

LEMMA AddKinds ==
  ASSUME NEW n, NEW g, Adds(n, g)
  PROVE  /\ \A w : w \in 1 .. Len(gates') <=> w \in 1 .. n \/ w = n + 1
         /\ n + 1 \in 1 .. Len(gates') /\ n + 1 \notin 1 .. n
         /\ \A kind : OfKind(kind)' = OfKind(kind) \cup (IF g.kind = kind THEN {n + 1} ELSE {})
<1>1. /\ n = Len(gates) /\ n \in Nat /\ Len(gates') = n + 1
      /\ \A w \in 1 .. n : gates'[w] = gates[w]
      /\ gates'[n + 1] = g
  BY DEF Adds
<1>2. /\ \A w : w \in 1 .. Len(gates') <=> w \in 1 .. n \/ w = n + 1
      /\ n + 1 \in 1 .. Len(gates') /\ n + 1 \notin 1 .. n
  BY <1>1
<1>3. ASSUME NEW kind
      PROVE  OfKind(kind)' = OfKind(kind) \cup (IF g.kind = kind THEN {n + 1} ELSE {})
  <2>1. \A w : w \in OfKind(kind)' <=> w \in 1 .. Len(gates') /\ gates'[w].kind = kind
    BY DEF OfKind
  <2>2. \A w : w \in OfKind(kind) <=> w \in 1 .. n /\ gates[w].kind = kind
    BY <1>1 DEF OfKind
  <2>3. \A w : w \in OfKind(kind)' <=> w \in OfKind(kind) \/ (w = n + 1 /\ g.kind = kind)
    BY <1>1, <1>2, <2>1, <2>2, Zenon
  <2> QED BY <2>3
<1> QED BY <1>2, <1>3

LEMMA AddGatesFit ==
  ASSUME ReadInv, NEW n, NEW g, Adds(n, g), \E S : gates' \in Seq(S)
  PROVE  GatesFit' /\ TriplesServe'
<1>1. /\ n = Len(gates) /\ n \in Nat /\ Len(gates') = n + 1 /\ triples \in Nat
      /\ \A w \in 1 .. n : gates'[w] = gates[w]
      /\ gates'[n + 1] = g
      /\ triples' = IF g.kind = "mul" THEN triples + 1 ELSE triples
  BY DEF Adds, ReadInv, GatesFit
<1>2. /\ \A w : w \in 1 .. Len(gates') <=> w \in 1 .. n \/ w = n + 1
      /\ n + 1 \in 1 .. Len(gates') /\ n + 1 \notin 1 .. n
      /\ OfKind("mul")' = OfKind("mul") \cup (IF g.kind = "mul" THEN {n + 1} ELSE {})
  BY AddKinds
<1>3. \A w \in OfKind("mul") : /\ w \in 1 .. n /\ gates'[w] = gates[w]
                               /\ gates[w].triple \in 1 .. triples
  BY <1>1 DEF OfKind, ReadInv, GatesFit, Fits
<1>4. GatesFit'
  <2>1. triples' \in Nat
    BY <1>1
  <2>2. ASSUME NEW w \in 1 .. n PROVE Fits(gates'[w], w - 1, triples')
    <3>1. Fits(gates[w], w - 1, triples)
      BY <1>1 DEF ReadInv, GatesFit
    <3>2. \A m \in 1 .. triples : m \in 1 .. triples'
      BY <1>1
    <3> QED BY <1>1, <3>1, <3>2 DEF Fits
  <2>3. Fits(g, n, triples')
    <3>1. Fits(g, n, triples + 1) /\ (g.kind = "mul" => g.triple = triples + 1)
      BY <1>1 DEF Adds, IsNext
    <3> QED BY <1>1, <3>1 DEF Fits
  <2>4. \A w \in 1 .. Len(gates') : Fits(gates'[w], w - 1, triples')
    <3> SUFFICES ASSUME NEW w \in 1 .. Len(gates') PROVE Fits(gates'[w], w - 1, triples')
      OBVIOUS
    <3>1. CASE w = n + 1
      <4>1. gates'[w] = g /\ w - 1 = n
        BY <1>1, <3>1
      <4> QED BY <2>3, <4>1
    <3> QED BY <1>2, <2>2, <3>1
  <2> QED BY <2>1, <2>4 DEF GatesFit
<1>5. CASE g.kind # "mul"
  <2>1. OfKind("mul")' = OfKind("mul") /\ triples' = triples
    BY <1>1, <1>2, <1>5
  <2>2. TriplesServe'
    BY <1>3, <2>1 DEF ReadInv, TriplesServe
  <2> QED BY <1>4, <2>2
<1>6. CASE g.kind = "mul"
  <2>1. /\ OfKind("mul")' = OfKind("mul") \cup {n + 1} /\ triples' = triples + 1
        /\ g.triple = triples + 1
    BY <1>1, <1>2, <1>6 DEF Adds, IsNext
  <2>2. ASSUME NEW i \in OfKind("mul")', NEW j \in OfKind("mul")', gates'[i].triple = gates'[j].triple
        PROVE  i = j
    <3>1. (i \in OfKind("mul") \/ i = n + 1) /\ (j \in OfKind("mul") \/ j = n + 1)
      BY <2>1
    <3>2. triples + 1 \notin 1 .. triples
      BY <1>1
    <3> QED BY <1>1, <1>3, <2>1, <2>2, <3>1, <3>2 DEF ReadInv, TriplesServe
  <2>3. ASSUME NEW m \in 1 .. triples'
        PROVE  \E w \in OfKind("mul")' : gates'[w].triple = m
    <3>1. CASE m = triples + 1
      BY <1>1, <2>1, <3>1
    <3>2. CASE m # triples + 1
      <4>1. m \in 1 .. triples
        BY <1>1, <2>1, <3>2
      <4>2. PICK w \in OfKind("mul") : gates[w].triple = m
        BY <4>1 DEF ReadInv, TriplesServe
      <4>3. gates'[w].triple = m /\ w \in OfKind("mul")'
        BY <1>3, <2>1, <4>2
      <4> QED BY <4>3
    <3> QED BY <3>1, <3>2
  <2>4. TriplesServe'
    BY <2>2, <2>3 DEF TriplesServe
  <2> QED BY <1>4, <2>4
<1> QED BY <1>5, <1>6

LEMMA AddNamesFit ==
  ASSUME ReadInv, NEW line \in Lines, AddGate(line)
  PROVE  NamesFit'
<1> DEFINE n == Len(gates)
           s == line[1]
           D == DOMAIN idOf
<1>1. /\ n \in Nat /\ Len(gates') = n + 1
  BY LineAdds DEF Adds
<1>2. s \notin D
  BY DEF AddGate, LineFault, Known
<1>3. idOf' = [token \in D \cup {s} |-> IF token = s THEN n + 1 ELSE idOf[token]]
  BY DEF AddGate
<1>4. /\ \A a \in D : idOf[a] \in 1 .. n
      /\ IsFiniteSet(D) /\ Cardinality(D) = n
      /\ \A a, b \in D : idOf[a] = idOf[b] => a = b
  BY DEF ReadInv, NamesFit, NamesAreWires
<1> HIDE DEF n, s, D
<1>5. DOMAIN idOf' = D \cup {s}
  BY <1>3
<1>6. \A a \in D : idOf'[a] = idOf[a] /\ idOf'[a] \in 1 .. n
  BY <1>2, <1>3, <1>4
<1>7. idOf'[s] = n + 1
  BY <1>3
<1>8. n + 1 \notin 1 .. n /\ n + 1 \in 1 .. n + 1 /\ \A k \in 1 .. n : k \in 1 .. n + 1
  BY <1>1
<1>9. idOf' \in [DOMAIN idOf' -> 1 .. Len(gates')]
  <2>1. \A a \in D \cup {s} : idOf'[a] \in 1 .. n + 1
    BY <1>6, <1>7, <1>8
  <2>2. idOf' = [token \in D \cup {s} |-> idOf'[token]]
    BY <1>3
  <2> QED BY <1>1, <1>5, <2>1, <2>2
<1>10. IsFiniteSet(DOMAIN idOf') /\ Cardinality(DOMAIN idOf') = Len(gates')
  BY <1>1, <1>2, <1>4, <1>5, FS_AddElement
<1>11. \A a, b \in DOMAIN idOf' : idOf'[a] = idOf'[b] => a = b
  <2> SUFFICES ASSUME NEW a \in D \cup {s}, NEW b \in D \cup {s}, idOf'[a] = idOf'[b]
               PROVE  a = b
    BY <1>5
  <2> QED BY <1>4, <1>6, <1>7, <1>8
<1> QED BY <1>9, <1>10, <1>11 DEF NamesFit, NamesAreWires

LEMMA AddListsFit ==
  ASSUME ReadInv, NEW line \in Lines, AddGate(line)
  PROVE  ListsFit'
<1> DEFINE n == Len(gates)
           g == GateOf(line)
<1>1. Adds(n, g)
  BY LineAdds
<1>2. /\ inputs' = IF g.kind = "input" THEN Append(inputs, n + 1) ELSE inputs
      /\ outputs' = IF g.kind = "output" THEN Append(outputs, n + 1) ELSE outputs
  BY DEF AddGate
<1>3. n \in Nat /\ n + 1 \notin 1 .. n
  BY <1>1, AddKinds DEF Adds
<1>4. /\ OfKind("input")' = OfKind("input") \cup (IF g.kind = "input" THEN {n + 1} ELSE {})
      /\ OfKind("output")' = OfKind("output") \cup (IF g.kind = "output" THEN {n + 1} ELSE {})
  BY <1>1, AddKinds
<1>5. \A w \in OfKind("input") : w \in 1 .. n
  BY DEF OfKind
<1> HIDE DEF n, g
<1> DEFINE I == OfKind("input")
           O == OfKind("output")
<1>6. /\ inputs \in Seq(I) /\ outputs \in Seq(O)
      /\ \A w \in I : \E k \in 1 .. Len(inputs) : inputs[k] = w
      /\ \A j, k \in 1 .. Len(inputs) : inputs[j] = inputs[k] => j = k
  BY DEF ReadInv, ListsFit
<1>7. outputs' \in Seq(O')
  <2> HIDE DEF O
  <2>1. CASE g.kind = "output"
    <3>1. O' = O \cup {n + 1} /\ outputs' = Append(outputs, n + 1)
      BY <1>2, <1>4, <2>1 DEF O
    <3>2. outputs \in Seq(O \cup {n + 1}) /\ n + 1 \in O \cup {n + 1}
      BY <1>6
    <3> QED BY <3>1, <3>2, AppendProperties
  <2>2. CASE g.kind # "output"
    <3>1. O' = O /\ outputs' = outputs
      BY <1>2, <1>4, <2>2 DEF O
    <3> QED BY <1>6, <3>1
  <2> QED BY <2>1, <2>2
<1>8. /\ inputs' \in Seq(I')
      /\ \A w \in I' : \E k \in 1 .. Len(inputs') : inputs'[k] = w
      /\ \A j, k \in 1 .. Len(inputs') : inputs'[j] = inputs'[k] => j = k
  <2>1. CASE g.kind = "input"
    <3>1. I' = I \cup {n + 1} /\ inputs' = Append(inputs, n + 1)
      BY <1>2, <1>4, <2>1
    <3>2. \A w \in I : w \in 1 .. n
      BY <1>5
    <3> HIDE DEF I
    <3>3. inputs \in Seq(I \cup {n + 1}) /\ n + 1 \in I \cup {n + 1}
      BY <1>6
    <3> DEFINE m == Len(inputs)
    <3>4. /\ inputs' \in Seq(I \cup {n + 1}) /\ Len(inputs') = m + 1
          /\ \A k \in 1 .. m : inputs'[k] = inputs[k]
          /\ inputs'[m + 1] = n + 1 /\ m \in Nat
      BY <3>1, <3>3, AppendProperties, LenProperties
    <3>5. \A k \in 1 .. m : inputs[k] \in I
      BY <1>6, ElementOfSeq
    <3> HIDE DEF m
    <3>6. \A k : k \in 1 .. m + 1 <=> k \in 1 .. m \/ k = m + 1
      BY <3>4
    <3>7. \A w \in I' : \E k \in 1 .. Len(inputs') : inputs'[k] = w
      <4> SUFFICES ASSUME NEW w \in I \cup {n + 1} PROVE \E k \in 1 .. m + 1 : inputs'[k] = w
        BY <3>1, <3>4
      <4>1. CASE w = n + 1
        BY <3>4, <3>6, <4>1
      <4>2. CASE w \in I
        <5>1. PICK k \in 1 .. m : inputs[k] = w
          BY <1>6, <4>2 DEF m
        <5>2. k \in 1 .. m + 1 /\ inputs'[k] = w
          BY <3>4, <3>6, <5>1
        <5> QED BY <5>2
      <4> QED BY <4>1, <4>2
    <3>8. \A j, k \in 1 .. Len(inputs') : inputs'[j] = inputs'[k] => j = k
      <4> SUFFICES ASSUME NEW j \in 1 .. m + 1, NEW k \in 1 .. m + 1, inputs'[j] = inputs'[k]
                   PROVE  j = k
        BY <3>4
      <4>1. (j \in 1 .. m \/ j = m + 1) /\ (k \in 1 .. m \/ k = m + 1)
        BY <3>6
      <4>2. \A i \in 1 .. m : inputs'[i] # n + 1
        BY <1>3, <3>2, <3>4, <3>5
      <4> QED BY <1>6, <3>4, <4>1, <4>2 DEF m
    <3> QED BY <3>1, <3>4, <3>7, <3>8
  <2>2. CASE g.kind # "input"
    <3>1. I' = I /\ inputs' = inputs
      BY <1>2, <1>4, <2>2
    <3> HIDE DEF I
    <3> QED BY <1>6, <3>1
  <2> QED BY <2>1, <2>2
<1> QED BY <1>7, <1>8 DEF ListsFit

LEMMA ReadInvLine ==
  ASSUME ReadInv, NEW line \in Lines, AddGate(line)
  PROVE  ReadInv'
<1>1. lines' \in 0 .. MaxLines
  BY NetlistAssumption DEF ReadInv, AddGate, ReadsLine
<1>2. GatesFit' /\ TriplesServe'
  BY LineAdds, AddGatesFit
<1>3. NamesFit'
  BY AddNamesFit
<1>4. ListsFit'
  BY AddListsFit
<1> QED BY <1>1, <1>2, <1>3, <1>4 DEF ReadInv

(* What only the file's lines decide stays what it is when no gate is read. *)
LEMMA ReadInvKept ==
  ASSUME ReadInv, UNCHANGED parsed, lines' \in 0 .. MaxLines
  PROVE  ReadInv'
<1>1. /\ gates' = gates /\ inputs' = inputs /\ outputs' = outputs
      /\ triples' = triples /\ idOf' = idOf
  BY DEF parsed
<1>2. \A kind : OfKind(kind)' = OfKind(kind)
  BY <1>1 DEF OfKind
<1>3. GatesFit'
  BY <1>1 DEF ReadInv, GatesFit
<1>4. TriplesServe'
  BY <1>1, <1>2 DEF ReadInv, TriplesServe
<1>5. NamesFit'
  BY <1>1 DEF ReadInv, NamesFit, NamesAreWires
<1>6. ListsFit'
  BY <1>1, <1>2 DEF ReadInv, ListsFit
<1> QED BY <1>3, <1>4, <1>5, <1>6 DEF ReadInv

-----------------------------------------------------------------------------
(* The inductive invariant, while the rounds are made: the first           *)
(* Len(roundOf) gates have their place in them.                            *)

(* Where the reader stands.                                                *)
Stands ==
  /\ outcome \in {"reading", "scheduling", "ok"} \cup Errors
  /\ outcome \in {"reading"} \cup Errors => roundOf = <<>> /\ rounds = <<>>
  /\ outcome \in {"scheduling", "ok"} => outputs # <<>>
  /\ outcome = "ok" => Len(roundOf) = Len(gates)

(* A gate is listed in its round, and nothing else is.                     *)
Listed ==
  /\ roundOf \in Seq(Nat \ {0})
  /\ Len(roundOf) <= Len(gates)
  /\ rounds \in Seq(Seq(1 .. Len(gates)))
  /\ \A w \in 1 .. Len(roundOf) :
       /\ roundOf[w] \in 1 .. Len(rounds)
       /\ \E k \in 1 .. Len(rounds[roundOf[w]]) : rounds[roundOf[w]][k] = w
  /\ \A r \in 1 .. Len(rounds) :
       /\ Len(rounds[r]) <= Len(roundOf)
       /\ \A k \in 1 .. Len(rounds[r]) :
            rounds[r][k] \in 1 .. Len(roundOf) /\ roundOf[rounds[r][k]] = r

(* Within a round the gates keep the order of the netlist.                 *)
Rising ==
  \A r \in 1 .. Len(rounds) : \A j, k \in 1 .. Len(rounds[r]) :
    j < k => rounds[r][j] < rounds[r][k]

(* A gate is behind all it waits for, and right behind some of it.         *)
Ordered ==
  \A w \in 1 .. Len(roundOf) :
    /\ \A v \in Operands(gates[w]) : roundOf[v] + Cost(v) <= roundOf[w]
    /\ \/ Operands(gates[w]) = {} /\ roundOf[w] = 1
       \/ \E v \in Operands(gates[w]) : roundOf[w] = roundOf[v] + Cost(v)

(* Every round but the last one ends with a message.                       *)
Paid ==
  \A r \in 1 .. Len(rounds) - 1 :
    \E k \in 1 .. Len(rounds[r]) : IsInteractive(gates[rounds[r][k]])

ScheduleInv == Stands /\ Listed /\ Rising /\ Ordered /\ Paid

LEMMA ScheduleInvInit == Init => ScheduleInv
<1> SUFFICES ASSUME Init PROVE ScheduleInv
  OBVIOUS
<1>1. gates = <<>> /\ roundOf = <<>> /\ rounds = <<>> /\ outcome = "reading"
  BY DEF Init
<1>2. Stands
  BY <1>1 DEF Stands, Errors
<1>3. Len(roundOf) = 0 /\ Len(rounds) = 0 /\ Len(gates) = 0
  BY <1>1
<1>4. Listed
  BY <1>1, <1>3 DEF Listed
<1>5. Rising /\ Ordered /\ Paid
  BY <1>3 DEF Rising, Ordered, Paid
<1> QED BY <1>2, <1>4, <1>5 DEF ScheduleInv

(* Nothing is scheduled while lines are read.                              *)
LEMMA NothingScheduled ==
  ASSUME roundOf' = <<>>, rounds' = <<>>, Len(gates') \in Nat
  PROVE  (Listed /\ Rising /\ Ordered /\ Paid)'
<1>1. Len(roundOf') = 0 /\ Len(rounds') = 0
  OBVIOUS
<1>2. Listed'
  BY <1>1 DEF Listed
<1>3. (Rising /\ Ordered /\ Paid)'
  BY <1>1 DEF Rising, Ordered, Paid
<1> QED BY <1>2, <1>3

LEMMA OperandsFit ==
  ASSUME ReadInv, NEW w \in 1 .. Len(gates), NEW v \in Operands(gates[w])
  PROVE  v \in 1 .. w - 1
<1>1. gates[w].args \in Seq(1 .. w - 1)
  BY DEF ReadInv, GatesFit, Fits
<1>2. PICK k \in 1 .. Len(gates[w].args) : v = gates[w].args[k]
  BY DEF Operands
<1> QED BY <1>1, <1>2, ElementOfSeq

LEMMA CostIs == \A w : Cost(w) \in {0, 1} /\ (Cost(w) = 1 <=> IsInteractive(gates[w]))
BY DEF Cost

(* What a turn of the scheduling loop does to the rounds.                  *)
Puts(id, round) ==
  /\ id = Len(roundOf) + 1 /\ id \in 1 .. Len(gates)
  /\ round \in 1 .. Len(rounds) + 1
  /\ \A v \in Operands(gates[id]) : roundOf[v] + Cost(v) <= round
  /\ \/ Operands(gates[id]) = {} /\ round = 1
     \/ \E v \in Operands(gates[id]) : round = roundOf[v] + Cost(v)
  /\ roundOf' = Append(roundOf, round)
  /\ Len(rounds') = IF round <= Len(rounds) THEN Len(rounds) ELSE round
  /\ rounds' \in Seq(Seq(1 .. Len(gates)))
  /\ \A r \in 1 .. Len(rounds) : r # round => rounds'[r] = rounds[r]
  /\ rounds'[round] = Append(IF round <= Len(rounds) THEN rounds[round] ELSE <<>>, id)

LEMMA TurnPuts ==
  ASSUME ReadInv, ScheduleInv, ScheduleGate
  PROVE  \E id, round : Puts(id, round)
<1> DEFINE n == Len(roundOf)
           m == Len(rounds)
           id == n + 1
           behind == {roundOf[v] + Cost(v) : v \in Operands(gates[id])}
           round == IF behind = {} THEN 1 ELSE Largest(behind)
           longer == Largest({m, round})
           padded == [r \in 1 .. longer |-> IF r <= m THEN rounds[r] ELSE <<>>]
<1>1. /\ n \in Nat /\ m \in Nat /\ Len(gates) \in Nat /\ n < Len(gates)
      /\ \A v \in 1 .. n : roundOf[v] \in 1 .. m
      /\ rounds \in Seq(Seq(1 .. Len(gates)))
  BY LenProperties DEF ScheduleInv, Listed, ReadInv, GatesFit, ScheduleGate
<1>2. /\ roundOf' = Append(roundOf, round)
      /\ rounds' = [padded EXCEPT ![round] = Append(@, id)]
  BY DEF ScheduleGate
<1>3. id \in 1 .. Len(gates)
  BY <1>1
<1>4. \A v \in Operands(gates[id]) : v \in 1 .. n
  BY <1>1, <1>3, OperandsFit
<1>5. \A v \in Operands(gates[id]) : roundOf[v] + Cost(v) \in 1 .. m + 1
  <2> SUFFICES ASSUME NEW v \in Operands(gates[id]) PROVE roundOf[v] + Cost(v) \in 1 .. m + 1
    OBVIOUS
  <2>1. roundOf[v] \in 1 .. m
    BY <1>1, <1>4
  <2>2. Cost(v) \in {0, 1}
    BY CostIs
  <2> QED BY <1>1, <2>1, <2>2
<1>6. /\ round \in 1 .. m + 1
      /\ \A v \in Operands(gates[id]) : roundOf[v] + Cost(v) <= round
      /\ \/ Operands(gates[id]) = {} /\ round = 1
         \/ \E v \in Operands(gates[id]) : round = roundOf[v] + Cost(v)
  <2>1. behind \subseteq 1 .. m + 1
    BY <1>5
  <2>2. CASE behind = {}
    <3>1. Operands(gates[id]) = {}
      BY <2>2
    <3> QED BY <1>1, <2>2, <3>1
  <2>3. CASE behind # {}
    <3>1. PICK S, b : S = behind /\ b = m + 1
      OBVIOUS
    <3>2. S \subseteq 1 .. b /\ S # {} /\ b \in Nat
      BY <1>1, <2>1, <2>3, <3>1
    <3>3. S \subseteq Nat /\ \A x \in S : x <= b
      BY <3>2
    <3>4. Largest(S) \in S /\ \A x \in S : x <= Largest(S)
      BY <3>2, <3>3, LargestIs
    <3>5. round \in behind /\ \A x \in behind : x <= round
      BY <2>3, <3>1, <3>4
    <3> QED BY <2>1, <3>5
  <2> QED BY <2>2, <2>3
<1> HIDE DEF round
<1>7. longer = IF round <= m THEN m ELSE round
  <2>1. {m, round} \subseteq Nat /\ {m, round} # {} /\ \A x \in {m, round} : x <= m + 1
    BY <1>1, <1>6
  <2>2. PICK S, b : S = {m, round} /\ b = m + 1
    OBVIOUS
  <2>3. S \subseteq Nat /\ S # {} /\ b \in Nat /\ \A x \in S : x <= b
    BY <1>1, <2>1, <2>2
  <2>4. Largest(S) \in S /\ \A x \in S : x <= Largest(S)
    BY <2>3, LargestIs
  <2>5. longer \in {m, round} /\ \A x \in {m, round} : x <= longer
    BY <2>2, <2>4
  <2> QED BY <1>1, <1>6, <2>5
<1> HIDE DEF longer
<1>8. longer \in Nat /\ round \in 1 .. longer
  BY <1>1, <1>6, <1>7
<1>9. \A r \in 1 .. longer : padded[r] \in Seq(1 .. Len(gates))
  <2> SUFFICES ASSUME NEW r \in 1 .. longer PROVE padded[r] \in Seq(1 .. Len(gates))
    OBVIOUS
  <2>1. CASE r <= m
    <3>1. r \in 1 .. m
      BY <1>8, <2>1
    <3>2. rounds[r] \in Seq(1 .. Len(gates))
      BY <1>1, <3>1, ElementOfSeq
    <3> QED BY <2>1, <3>2
  <2>2. CASE ~(r <= m)
    BY <2>2
  <2> QED BY <2>1, <2>2
<1>10. padded[round] = IF round <= m THEN rounds[round] ELSE <<>>
  BY <1>8
<1> DEFINE new == Append(padded[round], id)
<1>11. new \in Seq(1 .. Len(gates))
  BY <1>3, <1>8, <1>9, AppendProperties
<1>12. \A r \in 1 .. m : r # round => padded[r] = rounds[r]
  BY <1>1, <1>6, <1>7
<1>13. rounds' = [r \in 1 .. longer |-> IF r = round THEN new ELSE padded[r]]
  BY <1>2
<1> HIDE DEF padded, new
<1>14. \A r \in 1 .. longer : rounds'[r] = IF r = round THEN new ELSE padded[r]
  BY <1>13
<1>15. rounds' \in Seq(Seq(1 .. Len(gates))) /\ Len(rounds') = longer
  <2>1. rounds' \in [1 .. longer -> Seq(1 .. Len(gates))]
    BY <1>9, <1>11, <1>13
  <2> HIDE DEF n, id
  <2> QED BY <1>8, <2>1, SeqDef, LenProperties
<1>16. \A r \in 1 .. m : r # round => rounds'[r] = rounds[r]
  BY <1>1, <1>6, <1>7, <1>12, <1>14
<1>17. rounds'[round] = Append(IF round <= m THEN rounds[round] ELSE <<>>, id)
  BY <1>8, <1>10, <1>14 DEF new
<1> QED BY <1>2, <1>3, <1>6, <1>7, <1>15, <1>16, <1>17 DEF Puts

(* The same, place by place: old is what the round holds before the turn.  *)
PutsAt(n, m, id, round, old) ==
  /\ n = Len(roundOf) /\ m = Len(rounds) /\ n \in Nat /\ m \in Nat
  /\ id = n + 1 /\ id \in 1 .. Len(gates) /\ Len(gates) \in Nat
  /\ Len(roundOf') = n + 1 /\ roundOf'[id] = round
  /\ \A w \in 1 .. n : roundOf'[w] = roundOf[w]
  /\ round \in 1 .. Len(rounds') /\ m <= Len(rounds') /\ Len(rounds') \in Nat
  /\ \A r \in 1 .. Len(rounds') : r # round => r \in 1 .. m /\ rounds'[r] = rounds[r]
  /\ round \in 1 .. m => old = rounds[round]
  /\ Len(old) \in Nat /\ Len(old) <= n
  /\ \A k \in 1 .. Len(old) : old[k] \in 1 .. n /\ roundOf[old[k]] = round
  /\ \A j, k \in 1 .. Len(old) : j < k => old[j] < old[k]
  /\ Len(rounds'[round]) = Len(old) + 1 /\ rounds'[round][Len(old) + 1] = id
  /\ \A k \in 1 .. Len(old) : rounds'[round][k] = old[k]

LEMMA PutsAtPlaces ==
  ASSUME ReadInv, ScheduleInv, NEW id, NEW round, Puts(id, round)
  PROVE  /\ \E n, m, old : PutsAt(n, m, id, round, old)
         /\ roundOf' \in Seq(Nat \ {0}) /\ rounds' \in Seq(Seq(1 .. Len(gates)))
<1> DEFINE n == Len(roundOf)
           m == Len(rounds)
           old == IF round <= m THEN rounds[round] ELSE <<>>
           S == 1 .. Len(gates)
<1>1. /\ n \in Nat /\ m \in Nat /\ Len(gates) \in Nat
      /\ roundOf \in Seq(Nat \ {0}) /\ rounds \in Seq(Seq(S))
  BY LenProperties DEF ScheduleInv, Listed, ReadInv, GatesFit
<1>2. /\ id = n + 1 /\ id \in S /\ round \in 1 .. m + 1
      /\ roundOf' = Append(roundOf, round)
      /\ Len(rounds') = IF round <= m THEN m ELSE round
      /\ rounds' \in Seq(Seq(S))
      /\ \A r \in 1 .. m : r # round => rounds'[r] = rounds[r]
      /\ rounds'[round] = Append(old, id)
  BY DEF Puts
<1>3. /\ roundOf' \in Seq(Nat \ {0}) /\ Len(roundOf') = n + 1 /\ roundOf'[id] = round
      /\ \A w \in 1 .. n : roundOf'[w] = roundOf[w]
  <2>1. round \in Nat \ {0}
    BY <1>1, <1>2
  <2> QED BY <1>1, <1>2, <2>1, AppendProperties
<1>4. /\ old \in Seq(S) /\ Len(old) \in Nat /\ Len(old) <= n
      /\ \A k \in 1 .. Len(old) : old[k] \in 1 .. n /\ roundOf[old[k]] = round
      /\ \A j, k \in 1 .. Len(old) : j < k => old[j] < old[k]
  <2>1. CASE round <= m
    <3>1. round \in 1 .. m /\ old = rounds[round]
      BY <1>1, <1>2, <2>1
    <3>2. old \in Seq(S)
      BY <1>1, <3>1, ElementOfSeq
    <3>3. /\ Len(old) <= n
          /\ \A k \in 1 .. Len(old) : old[k] \in 1 .. n /\ roundOf[old[k]] = round
      BY <3>1 DEF ScheduleInv, Listed
    <3>4. \A j, k \in 1 .. Len(old) : j < k => old[j] < old[k]
      BY <3>1 DEF ScheduleInv, Rising
    <3> QED BY <3>2, <3>3, <3>4, LenProperties
  <2>2. CASE ~(round <= m)
    <3>1. old = <<>>
      BY <2>2
    <3>2. Len(<<>>) = 0 /\ <<>> \in Seq(S)
      OBVIOUS
    <3> HIDE DEF old
    <3> QED BY <1>1, <3>1, <3>2
  <2> QED BY <2>1, <2>2
<1>5. round \in 1 .. m => old = rounds[round]
  BY <1>1
<1>6. /\ round \in 1 .. Len(rounds') /\ m <= Len(rounds') /\ Len(rounds') \in Nat
      /\ \A r \in 1 .. Len(rounds') : r # round => r \in 1 .. m /\ rounds'[r] = rounds[r]
  BY <1>1, <1>2
<1> HIDE DEF old
<1>7. /\ Len(rounds'[round]) = Len(old) + 1 /\ rounds'[round][Len(old) + 1] = id
      /\ \A k \in 1 .. Len(old) : rounds'[round][k] = old[k]
  BY <1>2, <1>4, AppendProperties
<1>8. PutsAt(n, m, id, round, old)
  BY <1>1, <1>2, <1>3, <1>4, <1>5, <1>6, <1>7 DEF PutsAt
<1> QED BY <1>2, <1>3, <1>8

LEMMA TurnListed ==
  ASSUME ReadInv, ScheduleInv, gates' = gates, NEW id, NEW round, Puts(id, round)
  PROVE  Listed'
<1>1. /\ roundOf' \in Seq(Nat \ {0}) /\ rounds' \in Seq(Seq(1 .. Len(gates')))
  BY PutsAtPlaces
<1>2. PICK n, m, old : PutsAt(n, m, id, round, old)
  BY PutsAtPlaces
<1>3. Len(roundOf') <= Len(gates')
  BY <1>2 DEF PutsAt
<1>4. ASSUME NEW w \in 1 .. Len(roundOf')
      PROVE  /\ roundOf'[w] \in 1 .. Len(rounds')
             /\ \E k \in 1 .. Len(rounds'[roundOf'[w]]) : rounds'[roundOf'[w]][k] = w
  <2>1. CASE w = id
    <3>1. /\ roundOf'[w] = round /\ round \in 1 .. Len(rounds')
          /\ Len(old) + 1 \in 1 .. Len(rounds'[round]) /\ rounds'[round][Len(old) + 1] = w
      BY <1>2, <2>1 DEF PutsAt
    <3> QED BY <3>1
  <2>2. CASE w # id
    <3>1. w \in 1 .. n /\ roundOf'[w] = roundOf[w]
      BY <1>2, <2>2 DEF PutsAt
    <3>2. roundOf[w] \in 1 .. m /\ \E k \in 1 .. Len(rounds[roundOf[w]]) : rounds[roundOf[w]][k] = w
      BY <1>2, <3>1 DEF PutsAt, ScheduleInv, Listed
    <3>3. PICK k \in 1 .. Len(rounds[roundOf[w]]) : rounds[roundOf[w]][k] = w
      BY <3>2
    <3>4. roundOf[w] \in 1 .. Len(rounds')
      BY <1>2, <3>2 DEF PutsAt
    <3>5. CASE roundOf[w] = round
      <4>1. old = rounds[round] /\ k \in 1 .. Len(old) /\ old[k] = w
        BY <1>2, <3>2, <3>3, <3>5 DEF PutsAt
      <4>2. k \in 1 .. Len(rounds'[round]) /\ rounds'[round][k] = w
        BY <1>2, <4>1 DEF PutsAt
      <4> QED BY <3>1, <3>4, <3>5, <4>2
    <3>6. CASE roundOf[w] # round
      <4>1. rounds'[roundOf[w]] = rounds[roundOf[w]]
        BY <1>2, <3>4, <3>6 DEF PutsAt
      <4> QED BY <3>1, <3>3, <3>4, <4>1
    <3> QED BY <3>5, <3>6
  <2> QED BY <2>1, <2>2
<1>5. ASSUME NEW r \in 1 .. Len(rounds')
      PROVE  /\ Len(rounds'[r]) <= Len(roundOf')
             /\ \A k \in 1 .. Len(rounds'[r]) :
                  rounds'[r][k] \in 1 .. Len(roundOf') /\ roundOf'[rounds'[r][k]] = r
  <2>1. CASE r = round
    <3>1. Len(rounds'[r]) = Len(old) + 1 /\ Len(old) <= n /\ Len(old) \in Nat
          /\ Len(roundOf') = n + 1 /\ n \in Nat
      BY <1>2, <2>1 DEF PutsAt
    <3>2. ASSUME NEW k \in 1 .. Len(rounds'[r])
          PROVE  rounds'[r][k] \in 1 .. Len(roundOf') /\ roundOf'[rounds'[r][k]] = r
      <4>1. CASE k = Len(old) + 1
        BY <1>2, <2>1, <4>1 DEF PutsAt
      <4>2. CASE k # Len(old) + 1
        <5>1. k \in 1 .. Len(old)
          BY <3>1, <4>2
        <5>2. rounds'[r][k] = old[k] /\ old[k] \in 1 .. n /\ roundOf[old[k]] = round
          BY <1>2, <2>1, <5>1 DEF PutsAt
        <5>3. roundOf'[old[k]] = roundOf[old[k]] /\ old[k] \in 1 .. n + 1
          BY <1>2, <5>2 DEF PutsAt
        <5> QED BY <2>1, <3>1, <5>2, <5>3
      <4> QED BY <4>1, <4>2
    <3> QED BY <3>1, <3>2
  <2>2. CASE r # round
    <3>1. r \in 1 .. m /\ rounds'[r] = rounds[r] /\ m = Len(rounds) /\ n = Len(roundOf)
      BY <1>2, <2>2 DEF PutsAt
    <3>2. /\ Len(rounds[r]) <= n
          /\ \A k \in 1 .. Len(rounds[r]) : rounds[r][k] \in 1 .. n /\ roundOf[rounds[r][k]] = r
      BY <3>1 DEF ScheduleInv, Listed
    <3>3. /\ Len(roundOf') = n + 1 /\ n \in Nat
          /\ \A w \in 1 .. n : w \in 1 .. n + 1 /\ roundOf'[w] = roundOf[w]
      BY <1>2 DEF PutsAt
    <3>4. Len(rounds[r]) \in Nat
      BY <3>1, ElementOfSeq, LenProperties DEF ScheduleInv, Listed
    <3>5. Len(rounds'[r]) <= Len(roundOf')
      BY <3>1, <3>2, <3>3, <3>4
    <3> QED BY <3>1, <3>2, <3>3, <3>5
  <2> QED BY <2>1, <2>2
<1> QED BY <1>1, <1>3, <1>4, <1>5 DEF Listed

LEMMA TurnRising ==
  ASSUME ReadInv, ScheduleInv, NEW id, NEW round, Puts(id, round)
  PROVE  Rising'
<1>1. PICK n, m, old : PutsAt(n, m, id, round, old)
  BY PutsAtPlaces
<1>2. ASSUME NEW r \in 1 .. Len(rounds'), NEW j \in 1 .. Len(rounds'[r]),
             NEW k \in 1 .. Len(rounds'[r]), j < k
      PROVE  rounds'[r][j] < rounds'[r][k]
  <2>1. CASE r = round
    <3>1. Len(rounds'[r]) = Len(old) + 1 /\ Len(old) \in Nat
      BY <1>1, <2>1 DEF PutsAt
    <3>2. j \in 1 .. Len(old) /\ (k \in 1 .. Len(old) \/ k = Len(old) + 1)
      BY <1>2, <3>1
    <3>3. rounds'[r][j] = old[j] /\ old[j] \in 1 .. n /\ n \in Nat
      BY <1>1, <2>1, <3>2 DEF PutsAt
    <3>4. CASE k \in 1 .. Len(old)
      BY <1>1, <1>2, <2>1, <3>2, <3>3, <3>4 DEF PutsAt
    <3>5. CASE k = Len(old) + 1
      <4>1. rounds'[r][k] = n + 1
        BY <1>1, <2>1, <3>5 DEF PutsAt
      <4> QED BY <3>3, <4>1
    <3> QED BY <3>2, <3>4, <3>5
  <2>2. CASE r # round
    <3>1. r \in 1 .. Len(rounds) /\ rounds'[r] = rounds[r]
      BY <1>1, <2>2 DEF PutsAt
    <3> QED BY <1>2, <3>1 DEF ScheduleInv, Rising
  <2> QED BY <2>1, <2>2
<1> QED BY <1>2 DEF Rising

LEMMA TurnOrdered ==
  ASSUME ReadInv, ScheduleInv, gates' = gates, NEW id, NEW round, Puts(id, round)
  PROVE  Ordered'
<1>1. PICK n, m, old : PutsAt(n, m, id, round, old)
  BY PutsAtPlaces
<1>2. \A w : Cost(w)' = Cost(w)
  BY DEF Cost
<1>3. /\ n \in Nat /\ n = Len(roundOf) /\ id = n + 1 /\ n + 1 \in 1 .. Len(gates)
      /\ Len(roundOf') = n + 1 /\ roundOf'[n + 1] = round
      /\ Len(gates) \in Nat
      /\ \A w \in 1 .. n : roundOf'[w] = roundOf[w]
  BY <1>1 DEF PutsAt
<1>4. ASSUME NEW w \in 1 .. Len(roundOf')
      PROVE  /\ \A v \in Operands(gates[w]) : roundOf'[v] + Cost(v) <= roundOf'[w]
             /\ \/ Operands(gates[w]) = {} /\ roundOf'[w] = 1
                \/ \E v \in Operands(gates[w]) : roundOf'[w] = roundOf'[v] + Cost(v)
  <2>1. w \in 1 .. n + 1 /\ w \in 1 .. Len(gates)
    BY <1>3
  <2>2. \A v \in Operands(gates[w]) : v \in 1 .. n /\ roundOf'[v] = roundOf[v]
    <3>1. \A v \in Operands(gates[w]) : v \in 1 .. w - 1
      BY <2>1, OperandsFit
    <3> QED BY <1>3, <2>1, <3>1
  <2>3. CASE w = n + 1
    <3>1. /\ \A v \in Operands(gates[w]) : roundOf[v] + Cost(v) <= round
          /\ \/ Operands(gates[w]) = {} /\ round = 1
             \/ \E v \in Operands(gates[w]) : round = roundOf[v] + Cost(v)
      BY <1>3, <2>3 DEF Puts
    <3> QED BY <1>3, <2>2, <2>3, <3>1
  <2>4. CASE w # n + 1
    <3>1. w \in 1 .. n
      BY <1>3, <2>1, <2>4
    <3>2. /\ \A v \in Operands(gates[w]) : roundOf[v] + Cost(v) <= roundOf[w]
          /\ \/ Operands(gates[w]) = {} /\ roundOf[w] = 1
             \/ \E v \in Operands(gates[w]) : roundOf[w] = roundOf[v] + Cost(v)
      BY <1>3, <3>1 DEF ScheduleInv, Ordered
    <3> QED BY <1>3, <2>2, <3>1, <3>2
  <2> QED BY <2>3, <2>4
<1> QED BY <1>2, <1>4 DEF Ordered

LEMMA TurnPaid ==
  ASSUME ReadInv, ScheduleInv, gates' = gates, NEW id, NEW round, Puts(id, round)
  PROVE  Paid'
<1>1. PICK n, m, old : PutsAt(n, m, id, round, old)
  BY PutsAtPlaces
<1>2. /\ n = Len(roundOf) /\ m = Len(rounds) /\ n \in Nat /\ m \in Nat
      /\ id = n + 1 /\ n + 1 \in 1 .. Len(gates)
      /\ Len(rounds') = IF round <= m THEN m ELSE round
      /\ round \in 1 .. m + 1
  BY <1>1 DEF PutsAt, Puts
<1>3. ASSUME NEW r \in 1 .. Len(rounds') - 1
      PROVE  \E k \in 1 .. Len(rounds'[r]) : IsInteractive(gates[rounds'[r][k]])
  <2>1. r \in 1 .. m /\ r \in 1 .. Len(rounds')
    BY <1>2
  <2>2. PICK k \in 1 .. Len(rounds[r]) : IsInteractive(gates[rounds[r][k]])
    <3>1. CASE r <= m - 1
      <4>1. r \in 1 .. Len(rounds) - 1
        BY <1>2, <2>1, <3>1
      <4> QED BY <4>1 DEF ScheduleInv, Paid
    <3>2. CASE ~(r <= m - 1)
      <4>1. r = m /\ round = m + 1 /\ m > 0
        BY <1>2, <2>1, <3>2
      <4>2. PICK v \in Operands(gates[n + 1]) : round = roundOf[v] + Cost(v)
        BY <1>2, <4>1 DEF Puts
      <4>3. v \in 1 .. n
        BY <1>2, OperandsFit
      <4>4. /\ roundOf[v] \in 1 .. m
            /\ \E k \in 1 .. Len(rounds[roundOf[v]]) : rounds[roundOf[v]][k] = v
        BY <1>2, <4>3 DEF ScheduleInv, Listed
      <4>5. roundOf[v] = m /\ Cost(v) = 1
        <5>1. Cost(v) \in {0, 1}
          BY CostIs
        <5> QED BY <1>2, <4>1, <4>2, <4>4, <5>1
      <4>6. IsInteractive(gates[v])
        BY <4>5, CostIs
      <4> QED BY <4>1, <4>4, <4>5, <4>6
    <3> QED BY <3>1, <3>2
  <2>3. k \in 1 .. Len(rounds'[r]) /\ rounds'[r][k] = rounds[r][k]
    <3>1. CASE r = round
      <4>1. old = rounds[r] /\ Len(rounds'[r]) = Len(old) + 1 /\ Len(old) \in Nat
            /\ \A i \in 1 .. Len(old) : rounds'[r][i] = old[i]
        BY <1>1, <1>2, <2>1, <3>1 DEF PutsAt
      <4> QED BY <2>2, <4>1
    <3>2. CASE r # round
      <4>1. rounds'[r] = rounds[r]
        BY <1>1, <2>1, <3>2 DEF PutsAt
      <4> QED BY <2>2, <4>1
    <3> QED BY <3>1, <3>2
  <2> QED BY <2>2, <2>3
<1> QED BY <1>3 DEF Paid

-----------------------------------------------------------------------------
(* Every step keeps both parts.                                            *)
ReaderInv == ReadInv /\ ScheduleInv

LEMMA ReaderInvInit == Init => ReaderInv
BY ReadInvInit, ScheduleInvInit DEF ReaderInv

(* The rounds stay what they are while the gates do.                       *)
LEMMA ScheduleKept ==
  ASSUME ScheduleInv, gates' = gates, UNCHANGED scheduled
  PROVE  (Listed /\ Rising /\ Ordered /\ Paid)'
<1>1. roundOf' = roundOf /\ rounds' = rounds
  BY DEF scheduled
<1>2. \A w : Cost(w)' = Cost(w)
  BY DEF Cost
<1>3. Listed' /\ Rising' /\ Paid'
  BY <1>1 DEF ScheduleInv, Listed, Rising, Paid
<1>4. Ordered'
  BY <1>1, <1>2 DEF ScheduleInv, Ordered
<1> QED BY <1>3, <1>4

LEMMA LineKeeps ==
  ASSUME ReaderInv, NEW line \in Lines,
         SkipLine(line) \/ RefuseLine(line) \/ AddGate(line)
  PROVE  ReaderInv'
<1>1. outcome = "reading" /\ lines' \in 0 .. MaxLines
  BY NetlistAssumption DEF ReaderInv, ReadInv, SkipLine, RefuseLine, AddGate, ReadsLine
<1>2. roundOf = <<>> /\ rounds = <<>>
  BY <1>1 DEF ReaderInv, ScheduleInv, Stands
<1>3. roundOf' = <<>> /\ rounds' = <<>>
  BY <1>2 DEF SkipLine, RefuseLine, AddGate, scheduled
<1>4. outcome' \in {"reading"} \cup Errors
  <2>1. CASE SkipLine(line) \/ AddGate(line)
    BY <1>1, <2>1 DEF SkipLine, AddGate
  <2>2. CASE RefuseLine(line)
    <3>1. LineFault(line) # "none" /\ outcome' = LineFault(line)
      BY <2>2 DEF RefuseLine
    <3>2. LineFault(line) \in {"syntax", "unknown wire", "duplicate", "none"}
      BY DEF LineFault
    <3> QED BY <3>1, <3>2 DEF Errors
  <2> QED BY <2>1, <2>2
<1>5. Stands'
  BY <1>3, <1>4 DEF Stands, Errors
<1>6. ReadInv'
  <2>1. CASE SkipLine(line) \/ RefuseLine(line)
    <3>1. UNCHANGED parsed
      BY <2>1 DEF SkipLine, RefuseLine
    <3> QED BY <1>1, <3>1, ReadInvKept DEF ReaderInv
  <2>2. CASE AddGate(line)
    BY <2>2, ReadInvLine DEF ReaderInv
  <2> QED BY <2>1, <2>2
<1>7. Len(gates') \in Nat
  BY <1>6, LenProperties DEF ReadInv, GatesFit
<1>8. (Listed /\ Rising /\ Ordered /\ Paid)'
  BY <1>3, <1>7, NothingScheduled
<1> QED BY <1>5, <1>6, <1>8 DEF ReaderInv, ScheduleInv

LEMMA EndKeeps ==
  ASSUME ReaderInv, EndOfFile
  PROVE  ReaderInv'
<1>1. /\ outcome = "reading" /\ UNCHANGED parsed /\ UNCHANGED scheduled /\ lines' = lines
      /\ outcome' = IF gates = <<>> THEN "empty"
                    ELSE IF outputs = <<>> THEN "no output" ELSE "scheduling"
  BY DEF EndOfFile
<1>2. gates' = gates /\ outputs' = outputs /\ roundOf' = roundOf /\ rounds' = rounds
  BY <1>1 DEF parsed, scheduled
<1>3. roundOf = <<>> /\ rounds = <<>>
  BY <1>1 DEF ReaderInv, ScheduleInv, Stands
<1>4. Stands'
  BY <1>1, <1>2, <1>3 DEF Stands, Errors
<1>5. ReadInv'
  BY <1>1, ReadInvKept DEF ReaderInv, ReadInv
<1> QED BY <1>1, <1>2, <1>4, <1>5, ScheduleKept DEF ReaderInv, ScheduleInv

LEMMA TurnKeeps ==
  ASSUME ReaderInv, ScheduleGate
  PROVE  ReaderInv'
<1>1. /\ outcome = "scheduling" /\ outcome' = outcome /\ UNCHANGED parsed /\ lines' = lines
  BY DEF ScheduleGate
<1>2. gates' = gates /\ outputs' = outputs
  BY <1>1 DEF parsed
<1>3. PICK id, round : Puts(id, round)
  BY TurnPuts DEF ReaderInv
<1>4. ReadInv'
  BY <1>1, ReadInvKept DEF ReaderInv, ReadInv
<1>5. Stands'
  BY <1>1, <1>2 DEF ReaderInv, ScheduleInv, Stands, Errors
<1>6. Listed' /\ Rising' /\ Ordered' /\ Paid'
  BY <1>2, <1>3, TurnListed, TurnRising, TurnOrdered, TurnPaid DEF ReaderInv
<1> QED BY <1>4, <1>5, <1>6 DEF ReaderInv, ScheduleInv

LEMMA FinishKeeps ==
  ASSUME ReaderInv, Finish
  PROVE  ReaderInv'
<1>1. /\ outcome = "scheduling" /\ outcome' = "ok" /\ Len(roundOf) = Len(gates)
      /\ UNCHANGED parsed /\ UNCHANGED scheduled /\ lines' = lines
  BY DEF Finish
<1>2. gates' = gates /\ outputs' = outputs /\ roundOf' = roundOf /\ rounds' = rounds
  BY <1>1 DEF parsed, scheduled
<1>3. Stands'
  BY <1>1, <1>2 DEF ReaderInv, ScheduleInv, Stands, Errors
<1>4. ReadInv'
  BY <1>1, ReadInvKept DEF ReaderInv, ReadInv
<1> QED BY <1>1, <1>2, <1>3, <1>4, ScheduleKept DEF ReaderInv, ScheduleInv

LEMMA StutterKeeps ==
  ASSUME ReaderInv, UNCHANGED vars
  PROVE  ReaderInv'
<1>1. UNCHANGED parsed /\ UNCHANGED scheduled /\ lines' = lines /\ outcome' = outcome
  BY DEF vars
<1>2. gates' = gates /\ outputs' = outputs /\ roundOf' = roundOf /\ rounds' = rounds
  BY <1>1 DEF parsed, scheduled
<1>3. Stands'
  BY <1>1, <1>2 DEF ReaderInv, ScheduleInv, Stands
<1>4. ReadInv'
  BY <1>1, ReadInvKept DEF ReaderInv, ReadInv
<1> QED BY <1>1, <1>2, <1>3, <1>4, ScheduleKept DEF ReaderInv, ScheduleInv

LEMMA ReaderInvNext == ReaderInv /\ [Next]_vars => ReaderInv'
<1> SUFFICES ASSUME ReaderInv, [Next]_vars PROVE ReaderInv'
  OBVIOUS
<1>1. ASSUME NEW line \in Lines, SkipLine(line) \/ RefuseLine(line) \/ AddGate(line)
      PROVE  ReaderInv'
  BY <1>1, LineKeeps
<1>2. CASE EndOfFile
  BY <1>2, EndKeeps
<1>3. CASE ScheduleGate
  BY <1>3, TurnKeeps
<1>4. CASE Finish
  BY <1>4, FinishKeeps
<1>5. CASE UNCHANGED vars
  BY <1>5, StutterKeeps
<1> QED BY <1>1, <1>2, <1>3, <1>4, <1>5 DEF Next, Returned

LEMMA ReaderInvAlways == Spec => []ReaderInv
<1>1. Init => ReaderInv
  BY ReaderInvInit
<1>2. ReaderInv /\ [Next]_vars => ReaderInv'
  BY ReaderInvNext
<1> QED BY <1>1, <1>2, PTL DEF Spec

(* Whatever the lines, the reader's state keeps its shape: names, inputs   *)
(* and outputs are wires there are, rounds list wires (parser.rs:28-32).   *)
THEOREM ReaderKeepsType == Spec => []TypeOK
<1>1. ReaderInv => TypeOK
  <2> SUFFICES ASSUME ReaderInv PROVE TypeOK
    OBVIOUS
  <2>1. lines \in 0 .. MaxLines /\ triples \in Nat
    BY DEF ReaderInv, ReadInv, GatesFit
  <2>2. DOMAIN gates = 1 .. Len(gates)
    BY LenProperties DEF ReaderInv, ReadInv, GatesFit
  <2>3. inputs \in Seq(1 .. Len(gates)) /\ outputs \in Seq(1 .. Len(gates))
    <3>1. \A kind : OfKind(kind) \subseteq 1 .. Len(gates)
      BY DEF OfKind
    <3>2. inputs \in Seq(OfKind("input")) /\ outputs \in Seq(OfKind("output"))
      BY DEF ReaderInv, ReadInv, ListsFit
    <3> QED BY <3>1, <3>2
  <2>4. idOf \in [DOMAIN idOf -> 1 .. Len(gates)]
    BY DEF ReaderInv, ReadInv, NamesFit
  <2>5. roundOf \in Seq(Nat \ {0}) /\ rounds \in Seq(Seq(1 .. Len(gates)))
    BY DEF ReaderInv, ScheduleInv, Listed
  <2>6. outcome \in {"reading", "scheduling", "ok"} \cup Errors
    BY DEF ReaderInv, ScheduleInv, Stands
  <2> QED BY <2>1, <2>2, <2>3, <2>4, <2>5, <2>6 DEF TypeOK
<1> QED BY <1>1, ReaderInvAlways, PTL

-----------------------------------------------------------------------------
(* What is handed to the evaluator.                                        *)

(* The places of a finished schedule, and the wires there.                 *)
LEMMA PlacesOf ==
  ASSUME ReaderInv, outcome = "ok", NEW x \in Places(Result)
  PROVE  /\ x[1] \in 1 .. Len(rounds) /\ x[2] \in 1 .. Len(rounds[x[1]])
         /\ At(Result, x) = rounds[x[1]][x[2]]
         /\ At(Result, x) \in 1 .. Len(gates)
         /\ roundOf[At(Result, x)] = x[1]
<1>1. /\ x[1] \in 1 .. Len(rounds) /\ x[2] \in 1 .. Len(gates) /\ x[2] <= Len(rounds[x[1]])
  BY DEF Places, Result, Wires
<1>2. Len(rounds[x[1]]) \in Nat
  BY <1>1, ElementOfSeq, LenProperties DEF ReaderInv, ScheduleInv, Listed
<1>3. x[2] \in 1 .. Len(rounds[x[1]])
  BY <1>1, <1>2
<1>4. At(Result, x) = rounds[x[1]][x[2]]
  BY DEF At, Result
<1>5. Len(roundOf) = Len(gates)
  BY DEF ReaderInv, ScheduleInv, Stands
<1> QED BY <1>1, <1>3, <1>4, <1>5 DEF ReaderInv, ScheduleInv, Listed

LEMMA ResultWellScheduled ==
  ASSUME ReaderInv, outcome = "ok"
  PROVE  WellScheduled(Result)
<1> DEFINE c == Result
<1>1. /\ c.gates = gates /\ c.rounds = rounds /\ Wires(c) = 1 .. Len(gates)
  BY DEF Result, Wires
<1>2. Len(roundOf) = Len(gates) /\ Len(gates) \in Nat
  BY LenProperties DEF ReaderInv, ReadInv, GatesFit, ScheduleInv, Stands
<1>3. \A r \in 1 .. Len(rounds) : Len(rounds[r]) <= Len(gates) /\ Len(rounds[r]) \in Nat
  BY <1>2, ElementOfSeq, LenProperties DEF ReaderInv, ScheduleInv, Listed
<1>4. ASSUME NEW w \in 1 .. Len(gates)
      PROVE  \E x \in Places(c) : At(c, x) = w
  <2>1. /\ roundOf[w] \in 1 .. Len(rounds)
        /\ \E k \in 1 .. Len(rounds[roundOf[w]]) : rounds[roundOf[w]][k] = w
    BY <1>2 DEF ReaderInv, ScheduleInv, Listed
  <2>2. PICK k \in 1 .. Len(rounds[roundOf[w]]) : rounds[roundOf[w]][k] = w
    BY <2>1
  <2>3. PICK r : r = roundOf[w]
    OBVIOUS
  <2>4. <<r, k>> \in Places(c)
    BY <1>1, <1>2, <1>3, <2>1, <2>2, <2>3 DEF Places
  <2>5. At(c, <<r, k>>) = w
    BY <1>1, <2>2, <2>3 DEF At
  <2> QED BY <2>4, <2>5
<1>5. ASSUME NEW x \in Places(c), NEW y \in Places(c), At(c, x) = At(c, y)
      PROVE  x = y
  <2>1. /\ x[1] \in 1 .. Len(rounds) /\ x[2] \in 1 .. Len(rounds[x[1]])
        /\ y[1] \in 1 .. Len(rounds) /\ y[2] \in 1 .. Len(rounds[y[1]])
        /\ rounds[x[1]][x[2]] = rounds[y[1]][y[2]]
        /\ x[1] = y[1]
        /\ rounds[x[1]][x[2]] \in 1 .. Len(gates)
    BY <1>5, PlacesOf
  <2>2. ~(x[2] < y[2]) /\ ~(y[2] < x[2])
    BY <2>1, <1>2 DEF ReaderInv, ScheduleInv, Rising
  <2>3. x[2] = y[2]
    BY <1>3, <2>1, <2>2
  <2>4. x = <<x[1], x[2]>> /\ y = <<y[1], y[2]>>
    BY DEF Places
  <2> QED BY <2>1, <2>3, <2>4
<1>6. ASSUME NEW x \in Places(c), NEW y \in Places(c),
             At(c, x) \in Operands(gates[At(c, y)])
      PROVE  ReadyBefore(c, x, y)
  <2>1. PICK v, w : v = At(c, x) /\ w = At(c, y)
    OBVIOUS
  <2>2. /\ x[1] \in 1 .. Len(rounds) /\ x[2] \in 1 .. Len(rounds[x[1]])
        /\ y[1] \in 1 .. Len(rounds) /\ y[2] \in 1 .. Len(rounds[y[1]])
        /\ v = rounds[x[1]][x[2]] /\ w = rounds[y[1]][y[2]]
        /\ v \in 1 .. Len(gates) /\ w \in 1 .. Len(gates)
        /\ roundOf[v] = x[1] /\ roundOf[w] = y[1]
    BY <2>1, PlacesOf
  <2>3. v \in Operands(gates[w])
    BY <1>6, <2>1
  <2>4. v < w
    <3>1. v \in 1 .. w - 1
      BY <2>2, <2>3, OperandsFit DEF ReaderInv
    <3> QED BY <2>2, <3>1
  <2>5. x[1] + Cost(v) <= y[1]
    BY <1>2, <2>2, <2>3 DEF ReaderInv, ScheduleInv, Ordered
  <2>6. Cost(v) \in {0, 1} /\ (Cost(v) = 1 <=> IsInteractive(gates[v]))
    BY CostIs
  <2>7. CASE x[1] < y[1]
    BY <2>7 DEF ReadyBefore
  <2>8. CASE ~(x[1] < y[1])
    <3>1. x[1] = y[1] /\ Cost(v) = 0
      BY <2>2, <2>5, <2>6, <2>8
    <3>2. x[2] < y[2]
      <4>1. ~(y[2] < x[2])
        BY <1>2, <2>2, <2>4, <3>1 DEF ReaderInv, ScheduleInv, Rising
      <4>2. x[2] # y[2]
        BY <2>2, <2>4, <3>1
      <4> QED BY <1>3, <2>2, <3>1, <4>1, <4>2
    <3>3. ~IsInteractive(c.gates[At(c, x)])
      BY <1>1, <2>1, <2>6, <3>1
    <3> QED BY <3>1, <3>2, <3>3 DEF ReadyBefore
  <2> QED BY <2>7, <2>8
<1> QED BY <1>1, <1>3, <1>4, <1>5, <1>6 DEF WellScheduled

(* Whatever the file: names stay wires, and what is accepted is a circuit  *)
(* the protocol can evaluate (parser.rs:34-183, mod.rs:159-178).           *)
THEOREM AcceptedIsAlwaysCircuit == Spec => []AcceptedIsCircuit
<1>1. ASSUME ReaderInv, outcome = "ok" PROVE IsCircuit(Result)
  <2> DEFINE c == Result
  <2>1. /\ c.gates = gates /\ c.rounds = rounds /\ c.inputs = inputs
        /\ c.outputs = outputs /\ c.triples = triples /\ Wires(c) = 1 .. Len(gates)
    BY DEF Result, Wires
  <2>2. DOMAIN c.gates = Wires(c)
    BY <1>1, <2>1, LenProperties DEF ReaderInv, ReadInv, GatesFit
  <2>3. ASSUME NEW w \in Wires(c) PROVE WellFormedGate(c, w)
    <3>1. Fits(gates[w], w - 1, triples)
      BY <1>1, <2>1 DEF ReaderInv, ReadInv, GatesFit
    <3> QED BY <2>1, <3>1 DEF WellFormedGate, Fits, Kinds, Arity
  <2>4. c.triples \in Nat
    BY <1>1, <2>1 DEF ReaderInv, ReadInv, GatesFit
  <2>5. TriplesAreOwn(c)
    <3>1. TriplesServe
      BY <1>1 DEF ReaderInv, ReadInv
    <3> QED BY <2>1, <3>1 DEF TriplesAreOwn, TriplesServe, OfKind
  <2>6. ASSUME NEW p \in Party
        PROVE  LET own == InputsOf(c, p)
                   its == {w \in Wires(c) : c.gates[w].kind = "input" /\ c.gates[w].owner = p}
               IN  /\ own \in Seq(its)
                   /\ \A w \in its : \E k \in 1 .. Len(own) : own[k] = w
                   /\ \A j, k \in 1 .. Len(own) : own[j] = own[k] => j = k
    <3>1. PICK its, s : /\ s = inputs
                        /\ its = {w \in Wires(c) : c.gates[w].kind = "input" /\ c.gates[w].owner = p}
      OBVIOUS
    <3>2. PICK T : s \in Seq(T)
      BY <1>1, <3>1 DEF ReaderInv, ReadInv, ListsFit
    <3>3. \A i, j \in 1 .. Len(s) : s[i] = s[j] => i = j
      BY <1>1, <3>1 DEF ReaderInv, ReadInv, ListsFit
    <3>4. Keeps(s, its, Len(s), Filtered(s, its))
      BY <3>2, <3>3, FilterKeeps
    <3>5. InputsOf(c, p) = Filtered(s, its)
      BY <2>1, <3>1 DEF InputsOf
    <3>6. ASSUME NEW w \in its PROVE \E i \in 1 .. Len(s) : s[i] = w
      <4>1. w \in OfKind("input")
        BY <2>1, <3>1 DEF OfKind
      <4> QED BY <1>1, <3>1, <4>1 DEF ReaderInv, ReadInv, ListsFit
    <3> DEFINE own == Filtered(s, its)
    <3>7. /\ own \in Seq(its)
          /\ \A w \in its : \E k \in 1 .. Len(own) : own[k] = w
          /\ \A j, k \in 1 .. Len(own) : own[j] = own[k] => j = k
      BY <3>4, <3>6 DEF Keeps
    <3> QED BY <3>1, <3>5, <3>7
  <2>7. c.outputs \in Seq({w \in Wires(c) : c.gates[w].kind = "output"})
    BY <1>1, <2>1 DEF ReaderInv, ReadInv, ListsFit, OfKind
  <2>8. c.outputs # <<>>
    BY <1>1, <2>1 DEF ReaderInv, ScheduleInv, Stands
  <2>9. c.rounds \in Seq(Seq(Wires(c)))
    BY <1>1, <2>1 DEF ReaderInv, ScheduleInv, Listed
  <2>10. WellScheduled(c)
    BY <1>1, ResultWellScheduled
  <2> HIDE DEF c
  <2>11. IsCircuit(c)
    BY <2>2, <2>3, <2>4, <2>5, <2>6, <2>7, <2>8, <2>9, <2>10 DEF IsCircuit
  <2> QED BY <2>11 DEF c
<1>2. ReaderInv => AcceptedIsCircuit
  BY <1>1 DEF AcceptedIsCircuit, ReaderInv, ReadInv, NamesFit
<1> QED BY <1>2, ReaderInvAlways, PTL

-----------------------------------------------------------------------------
(* How many messages a gate's longest path needs.                          *)
Most(gs, f, w) == Largest({0} \cup {f[v] : v \in Operands(gs[w])})

IsDepth(gs, n, f) ==
  f = [w \in 1 .. n |->
         IF IsInteractive(gs[w]) THEN Most(gs, f, w) + 1 ELSE Most(gs, f, w)]

LEMMA DepthExists ==
  ASSUME NEW gs, NEW last \in Nat,
         \A w \in 1 .. last : \A v \in Operands(gs[w]) : v \in 1 .. w - 1,
         NEW n \in 0 .. last
  PROVE  \E f : IsDepth(gs, n, f)
<1> DEFINE Without == {m \in 0 .. last : ~ \E f : IsDepth(gs, m, f)}
<1> SUFFICES ASSUME Without # {} PROVE FALSE
  OBVIOUS
<1>1. PICK m \in Without : \A i \in Without : m <= i
  <2>1. Without \subseteq Nat
    OBVIOUS
  <2> QED BY <2>1, Least
<1>2. m # 0
  <2>1. IsDepth(gs, 0, <<>>)
    BY DEF IsDepth
  <2> QED BY <2>1
<1>3. m - 1 \in 0 .. last /\ m - 1 \notin Without /\ m \in 1 .. last
  BY <1>1, <1>2
<1>4. PICK f : IsDepth(gs, m - 1, f)
  BY <1>3
<1> DEFINE here == IF IsInteractive(gs[m]) THEN Most(gs, f, m) + 1 ELSE Most(gs, f, m)
           g    == [w \in 1 .. m |-> IF w = m THEN here ELSE f[w]]
<1>5. \A w \in 1 .. m - 1 :
        f[w] = IF IsInteractive(gs[w]) THEN Most(gs, f, w) + 1 ELSE Most(gs, f, w)
  BY <1>4, Zenon DEF IsDepth
<1>6. ASSUME NEW w \in 1 .. m PROVE Most(gs, g, w) = Most(gs, f, w)
  <2>1. \A v \in Operands(gs[w]) : g[v] = f[v]
    <3>1. \A v \in Operands(gs[w]) : v \in 1 .. w - 1
      BY <1>3
    <3>2. \A v \in Operands(gs[w]) : v \in 1 .. m /\ v # m
      BY <1>3, <3>1
    <3> QED BY <3>2
  <2> HIDE DEF g
  <2>2. {g[v] : v \in Operands(gs[w])} = {f[v] : v \in Operands(gs[w])}
    BY <2>1
  <2> QED BY <2>2 DEF Most
<1>7. \A w \in 1 .. m :
        g[w] = IF IsInteractive(gs[w]) THEN Most(gs, g, w) + 1 ELSE Most(gs, g, w)
  <2> SUFFICES ASSUME NEW w \in 1 .. m
               PROVE  g[w] = IF IsInteractive(gs[w]) THEN Most(gs, g, w) + 1 ELSE Most(gs, g, w)
    OBVIOUS
  <2>1. CASE w = m
    BY <1>6, <2>1
  <2>2. CASE w # m
    <3>1. w \in 1 .. m - 1
      BY <1>3, <2>2
    <3>2. g[w] = f[w]
      BY <2>2
    <3> QED BY <1>5, <1>6, <3>1, <3>2
  <2> QED BY <2>1, <2>2
<1>8. g = [w \in 1 .. m |-> g[w]]
  OBVIOUS
<1> HIDE DEF g
<1>9. IsDepth(gs, m, g)
  BY <1>7, <1>8, Zenon DEF IsDepth
<1> QED BY <1>9

LEMMA DepthIs ==
  ASSUME NEW gs, Len(gs) \in Nat,
         \A w \in 1 .. Len(gs) : \A v \in Operands(gs[w]) : v \in 1 .. w - 1
  PROVE  \A w \in 1 .. Len(gs) :
           Depth(gs)[w] = IF IsInteractive(gs[w]) THEN Most(gs, Depth(gs), w) + 1
                          ELSE Most(gs, Depth(gs), w)
<1> DEFINE f == CHOOSE f : IsDepth(gs, Len(gs), f)
<1>1. IsDepth(gs, Len(gs), f)
  <2>1. \E g : IsDepth(gs, Len(gs), g)
    BY DepthExists
  <2> QED BY <2>1, Zenon
<1>2. Depth(gs) = f
  BY Zenon DEF Depth, IsDepth, Most, Largest
<1> HIDE DEF f
<1>3. \A w \in 1 .. Len(gs) :
        f[w] = IF IsInteractive(gs[w]) THEN Most(gs, f, w) + 1 ELSE Most(gs, f, w)
  BY <1>1, Zenon DEF IsDepth
<1> QED BY <1>2, <1>3

(* Before the round of a gate go as many messages as its longest path      *)
(* needs.                                                                  *)
LEMMA DepthIsRound ==
  ASSUME ReaderInv, outcome = "ok"
  PROVE  \A w \in 1 .. Len(gates) : Depth(gates)[w] = roundOf[w] - 1 + Cost(w)
<1> DEFINE d == Depth(gates)
           Bad == {w \in 1 .. Len(gates) : d[w] # roundOf[w] - 1 + Cost(w)}
<1>1. Len(roundOf) = Len(gates) /\ Len(gates) \in Nat
  BY LenProperties DEF ReaderInv, ReadInv, GatesFit, ScheduleInv, Stands
<1>2. \A w \in 1 .. Len(gates) : \A v \in Operands(gates[w]) : v \in 1 .. w - 1
  BY OperandsFit DEF ReaderInv
<1>3. \A w \in 1 .. Len(gates) :
        d[w] = IF IsInteractive(gates[w]) THEN Most(gates, d, w) + 1 ELSE Most(gates, d, w)
  <2>1. PICK gs : gs = gates
    OBVIOUS
  <2>2. \A w \in 1 .. Len(gs) :
          Depth(gs)[w] = IF IsInteractive(gs[w]) THEN Most(gs, Depth(gs), w) + 1
                         ELSE Most(gs, Depth(gs), w)
    BY <1>1, <1>2, <2>1, DepthIs
  <2> QED BY <2>1, <2>2
<1>4. \A w \in 1 .. Len(gates) : roundOf[w] \in Nat \ {0}
  BY <1>1, ElementOfSeq DEF ReaderInv, ScheduleInv, Listed
<1> HIDE DEF d
<1> SUFFICES ASSUME Bad # {} PROVE FALSE
  BY DEF d
<1>5. PICK w \in Bad : \A i \in Bad : w <= i
  <2>1. PICK S : S = Bad
    OBVIOUS
  <2>2. S \subseteq Nat /\ S # {}
    BY <1>1, <2>1
  <2>3. \E m \in S : \A k \in S : m <= k
    BY <2>2, Least
  <2> QED BY <2>1, <2>3
<1>6. w \in 1 .. Len(gates) /\ roundOf[w] \in Nat \ {0}
  BY <1>4
<1>7. ASSUME NEW v \in Operands(gates[w])
      PROVE  /\ d[v] = roundOf[v] - 1 + Cost(v)
             /\ d[v] \in 0 .. roundOf[w] - 1
             /\ roundOf[v] \in Nat \ {0} /\ Cost(v) \in {0, 1}
  <2>1. v \in 1 .. w - 1
    BY <1>2, <1>6
  <2>2. v \in 1 .. Len(gates) /\ v \notin Bad
    BY <1>1, <1>5, <1>6, <2>1
  <2>3. d[v] = roundOf[v] - 1 + Cost(v)
    BY <2>2
  <2>4. roundOf[v] + Cost(v) <= roundOf[w]
    BY <1>1, <1>6 DEF ReaderInv, ScheduleInv, Ordered
  <2> QED BY <1>4, <1>6, <2>2, <2>3, <2>4, CostIs
<1>8. Most(gates, d, w) = roundOf[w] - 1
  <2> DEFINE below == {0} \cup {d[v] : v \in Operands(gates[w])}
             top   == roundOf[w] - 1
  <2>1. below \subseteq 0 .. top /\ top \in Nat
    BY <1>6, <1>7
  <2>2. top \in below
    <3>1. CASE Operands(gates[w]) = {} /\ roundOf[w] = 1
      BY <3>1
    <3>2. CASE \E v \in Operands(gates[w]) : roundOf[w] = roundOf[v] + Cost(v)
      <4>1. PICK v \in Operands(gates[w]) : roundOf[w] = roundOf[v] + Cost(v)
        BY <3>2
      <4>2. d[v] = top
        BY <1>7, <4>1
      <4> QED BY <4>1, <4>2
    <3> QED BY <1>1, <1>6, <3>1, <3>2 DEF ReaderInv, ScheduleInv, Ordered
  <2>3. PICK S, b : S = below /\ b = top
    OBVIOUS
  <2> HIDE DEF below, top
  <2>4. S \subseteq Nat /\ S # {} /\ b \in Nat /\ (\A x \in S : x <= b) /\ b \in S
    BY <2>1, <2>2, <2>3
  <2>5. Largest(S) \in S /\ \A x \in S : x <= Largest(S)
    BY <2>4, LargestIs
  <2>6. Largest(S) = b
    <3>1. Largest(S) \in Nat /\ Largest(S) <= b /\ b <= Largest(S)
      BY <2>4, <2>5
    <3> QED BY <2>4, <3>1
  <2> QED BY <2>3, <2>6 DEF Most, below, top
<1>9. d[w] = roundOf[w] - 1 + Cost(w)
  <2>1. CASE IsInteractive(gates[w])
    BY <1>3, <1>6, <1>8, <2>1, CostIs
  <2>2. CASE ~IsInteractive(gates[w])
    <3>1. Cost(w) = 0
      BY <2>2 DEF Cost
    <3> QED BY <1>3, <1>6, <1>8, <2>2, <3>1
  <2> QED BY <2>1, <2>2
<1> QED BY <1>5, <1>9

(* Whatever file is accepted: no gate waits for a message it does not      *)
(* need, and no message is sent for nothing (mod.rs:159-178).              *)
THEOREM ScheduleIsAlwaysTight == Spec => []ScheduleIsTight
<1>1. ASSUME ReaderInv, outcome = "ok" PROVE TightlyScheduled(Result)
  <2>1. /\ Result.gates = gates /\ Result.rounds = rounds
    BY DEF Result
  <2>2. ASSUME NEW x \in Places(Result)
        PROVE  Depth(gates)[At(Result, x)]
                 = IF IsInteractive(gates[At(Result, x)]) THEN x[1] ELSE x[1] - 1
    <3>1. PICK w : w = At(Result, x)
      OBVIOUS
    <3>2. w \in 1 .. Len(gates) /\ roundOf[w] = x[1] /\ x[1] \in 1 .. Len(rounds)
      BY <1>1, <3>1, PlacesOf
    <3>3. Depth(gates)[w] = x[1] - 1 + Cost(w)
      BY <1>1, <3>2, DepthIsRound
    <3> QED BY <3>1, <3>2, <3>3 DEF Cost
  <2>3. \A r \in 1 .. Len(rounds) - 1 :
          \E k \in 1 .. Len(rounds[r]) : IsInteractive(gates[rounds[r][k]])
    BY <1>1 DEF ReaderInv, ScheduleInv, Paid
  <2> QED BY <2>1, <2>2, <2>3, Zenon DEF TightlyScheduled
<1>2. ReaderInv => ScheduleIsTight
  BY <1>1 DEF ScheduleIsTight
<1> QED BY <1>2, ReaderInvAlways, PTL
=============================================================================
