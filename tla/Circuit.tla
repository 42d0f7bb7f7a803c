------------------------------ MODULE Circuit ------------------------------
(***************************************************************************)
(* The evaluated form of a netlist (src/circuit/mod.rs): a list of gates   *)
(* in topological order, the lists of input and output wires, the number   *)
(* of Beaver triples, and the gates grouped by communication round.        *)
(*                                                                         *)
(* A wire is the position of its gate, counted from 1.  A literal is       *)
(* opaque here; what encoding it yields is the business of the protocol.   *)
(* Names and the digest identify a netlist and play no part in evaluation. *)
(***************************************************************************)
EXTENDS Parties, Sequences, FiniteSets

Input(owner)       == [kind |-> "input", owner |-> owner, args |-> <<>>]
Const(literal)     == [kind |-> "const", literal |-> literal, args |-> <<>>]
Add(left, right)   == [kind |-> "add", args |-> <<left, right>>]
Mul(left, right, triple) ==
  [kind |-> "mul", triple |-> triple, args |-> <<left, right>>]
Trunc(value, shift) == [kind |-> "trunc", args |-> <<value, shift>>]
Ltz(value)         == [kind |-> "ltz", args |-> <<value>>]
Output(value)      == [kind |-> "output", args |-> <<value>>]

Operands(gate) == {gate.args[k] : k \in 1 .. Len(gate.args)}

IsInteractive(gate) == gate.kind \in {"mul", "trunc", "ltz"}

Wires(c) == 1 .. Len(c.gates)

(* The elements of s that are in S, in their order.                        *)
Filtered(s, S) ==
  LET kept[k \in 0 .. Len(s)] ==
        IF k = 0 THEN <<>>
        ELSE IF s[k] \in S THEN Append(kept[k - 1], s[k]) ELSE kept[k - 1]
  IN  kept[Len(s)]

InputsOf(c, p) ==
  Filtered(c.inputs, {w \in Wires(c) : c.gates[w].kind = "input" /\ c.gates[w].owner = p})

-----------------------------------------------------------------------------
(* The round a gate sits in: one behind any interactive gate it depends    *)
(* on.  A gate without operands sits in round 0.                           *)
RoundOf(gates) ==
  LET Cost(w) == IF IsInteractive(gates[w]) THEN 1 ELSE 0
      round[w \in 1 .. Len(gates)] ==
        LET behind == {round[v] + Cost(v) : v \in Operands(gates[w])}
        IN  IF behind = {} THEN 0
            ELSE CHOOSE r \in behind : \A s \in behind : s <= r
  IN  round

(* The number of interactive gates on the longest path that ends in each   *)
(* wire: what the number of rounds is measured against.                    *)
Depth(gates) ==
  LET depth[w \in 1 .. Len(gates)] ==
        LET below == {0} \cup {depth[v] : v \in Operands(gates[w])}
            most  == CHOOSE d \in below : \A e \in below : e <= d
        IN  IF IsInteractive(gates[w]) THEN most + 1 ELSE most
  IN  depth

(* The wires of each round, in the order of the netlist.                   *)
Schedule(gates) ==
  LET wires   == [w \in 1 .. Len(gates) |-> w]
      roundOf == RoundOf(gates)
      last    == CHOOSE r \in 0 .. Len(gates) :
                   /\ \E w \in 1 .. Len(gates) : roundOf[w] = r
                   /\ \A w \in 1 .. Len(gates) : roundOf[w] <= r
  IN  [r \in 1 .. last + 1 |-> SelectSeq(wires, LAMBDA w : roundOf[w] = r - 1)]

(* The circuit the reader returns for a list of gates.                     *)
Built(gates) ==
  LET wires == [w \in 1 .. Len(gates) |-> w]
      OfKind(kind) == SelectSeq(wires, LAMBDA w : gates[w].kind = kind)
  IN  [gates   |-> gates,
       inputs  |-> OfKind("input"),
       outputs |-> OfKind("output"),
       triples |-> Len(OfKind("mul")),
       rounds  |-> Schedule(gates)]

-----------------------------------------------------------------------------
(* What evaluation relies on.                                              *)

WellFormedGate(c, w) ==
  LET g == c.gates[w]
  IN  /\ g.kind \in {"input", "const", "add", "mul", "trunc", "ltz", "output"}
      /\ g.args \in Seq(1 .. w - 1)
      /\ Len(g.args) = CASE g.kind \in {"input", "const"} -> 0
                         [] g.kind \in {"ltz", "output"} -> 1
                         [] OTHER -> 2
      /\ g.kind = "input" => g.owner \in Party
      /\ g.kind = "mul" => g.triple \in 1 .. c.triples

(* A triple masks one product only, and the dealer makes none in vain.     *)
TriplesAreOwn(c) ==
  /\ \A v, w \in Wires(c) :
       (c.gates[v].kind = "mul" /\ c.gates[w].kind = "mul" /\ v # w)
         => c.gates[v].triple # c.gates[w].triple
  /\ \A t \in 1 .. c.triples :
       \E w \in Wires(c) : c.gates[w].kind = "mul" /\ c.gates[w].triple = t

(* The places of the schedule: position k of round r.                      *)
Places(c) == {x \in (1 .. Len(c.rounds)) \X Wires(c) : x[2] <= Len(c.rounds[x[1]])}

At(c, place) == c.rounds[place[1]][place[2]]

(* Place x is evaluated before place y is: a local gate in its turn, an    *)
(* interactive one only when its round ends.                               *)
ReadyBefore(c, x, y) ==
  \/ x[1] < y[1]
  \/ x[1] = y[1] /\ x[2] < y[2] /\ ~IsInteractive(c.gates[At(c, x)])

WellScheduled(c) ==
  /\ \A r \in 1 .. Len(c.rounds) : Len(c.rounds[r]) <= Len(c.gates)
  /\ \A w \in Wires(c) : \E x \in Places(c) : At(c, x) = w
  /\ \A x, y \in Places(c) : At(c, x) = At(c, y) => x = y
  /\ \A x, y \in Places(c) :
       At(c, x) \in Operands(c.gates[At(c, y)]) => ReadyBefore(c, x, y)

(* The schedule is as short as the dependencies allow: every gate runs in  *)
(* the first round in which all it reads is there, every round but the     *)
(* last one pays for a message.                                            *)
TightlyScheduled(c) ==
  LET depth == Depth(c.gates)
  IN  /\ \A x \in Places(c) :
           depth[At(c, x)] = IF IsInteractive(c.gates[At(c, x)]) THEN x[1] ELSE x[1] - 1
      /\ \A r \in 1 .. Len(c.rounds) - 1 :
           \E k \in 1 .. Len(c.rounds[r]) : IsInteractive(c.gates[c.rounds[r][k]])

IsCircuit(c) ==
  /\ DOMAIN c.gates = Wires(c)
  /\ \A w \in Wires(c) : WellFormedGate(c, w)
  /\ c.triples \in Nat
  /\ TriplesAreOwn(c)
  /\ \A p \in Party :
       LET own == InputsOf(c, p)
           its == {w \in Wires(c) : c.gates[w].kind = "input" /\ c.gates[w].owner = p}
       IN  /\ own \in Seq(its)
           /\ \A w \in its : \E k \in 1 .. Len(own) : own[k] = w
           /\ \A j, k \in 1 .. Len(own) : own[j] = own[k] => j = k
  /\ c.outputs \in Seq({w \in Wires(c) : c.gates[w].kind = "output"})
  /\ c.outputs # <<>>
  /\ c.rounds \in Seq(Seq(Wires(c)))
  /\ WellScheduled(c)
=============================================================================
