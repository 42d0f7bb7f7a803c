------------------------------ MODULE Netlist ------------------------------
(***************************************************************************)
(* The netlist reader (src/circuit/parser.rs) and the round schedule it    *)
(* ends with (Circuit::schedule): one step per line of the file, then one  *)
(* per gate.                                                               *)
(*                                                                         *)
(* A line is the sequence of its tokens; an empty line, or one that is a   *)
(* comment, has none.  The file is not chosen in advance: each step reads  *)
(* any line there might be, or finds the end of the file.                  *)
(***************************************************************************)
EXTENDS Circuit, Integers

CONSTANTS
  Lines,        \* the lines a file may consist of
  MaxLines,     \* bound on the length of a file
  InputNames,   \* the tokens that begin with an I
  OutputNames,  \* the tokens that begin with an O
  Numbers       \* the tokens that parse as a number

ASSUME NetlistAssumption ==
  /\ \A line \in Lines : line \in Seq(STRING)
  /\ MaxLines \in Nat

VARIABLES
  lines,    \* how many lines have been read
  gates, inputs, outputs, triples,
  idOf,     \* by_name: the wire of each name
  roundOf,  \* the round of each gate scheduled so far
  rounds,   \* the rounds so far
  outcome   \* "reading", "scheduling", "ok", or the error reported

parsed    == <<gates, inputs, outputs, triples, idOf>>
scheduled == <<roundOf, rounds>>
vars      == <<lines, parsed, scheduled, outcome>>

Errors == {"syntax", "unknown wire", "duplicate", "empty", "no output"}

Init ==
  /\ lines = 0
  /\ gates = <<>> /\ inputs = <<>> /\ outputs = <<>>
  /\ triples = 0
  /\ idOf = <<>>
  /\ roundOf = <<>> /\ rounds = <<>>
  /\ outcome = "reading"

-----------------------------------------------------------------------------
(* How a line reads.                                                       *)

Owner == [token \in {"P0", "p0", "P1", "p1"} |-> IF token \in {"P0", "p0"} THEN 0 ELSE 1]

IsInput(line) ==
  \/ Len(line) = 1
  \/ Len(line) = 2 /\ line[2] \in DOMAIN Owner

IsOutput(line) == Len(line) = 2 /\ ~IsInput(line)

IsGate(line, op) == Len(line) >= 3 /\ line[2] = op

IsWellFormed(line) ==
  \/ IsInput(line) /\ line[1] \in InputNames
  \/ IsOutput(line) /\ line[1] \in OutputNames
  \/ IsGate(line, "C") /\ Len(line) = 3 /\ line[3] \in Numbers
  \/ (IsGate(line, "+") \/ IsGate(line, "*")) /\ Len(line) = 4
  \/ IsGate(line, ">>") /\ Len(line) = 5 /\ line[3] = "c"
  \/ IsGate(line, "<") /\ Len(line) = 4 /\ line[3] = "0"

(* The tokens of a well-formed line that name wires.                       *)
References(line) ==
  CASE IsInput(line) -> <<>>
    [] IsOutput(line) -> <<line[2]>>
    [] IsGate(line, "C") -> <<>>
    [] IsGate(line, "+") \/ IsGate(line, "*") -> <<line[3], line[4]>>
    [] IsGate(line, ">>") -> <<line[4], line[5]>>
    [] IsGate(line, "<") -> <<line[4]>>

Known(token) == token \in DOMAIN idOf

UnknownWire(line) == \E k \in DOMAIN References(line) : ~Known(References(line)[k])

(* Slip: a name may be given twice.                                        *)
LineFaultButDuplicates(line) ==
  IF ~IsWellFormed(line) THEN "syntax" ELSE IF UnknownWire(line) THEN "unknown wire" ELSE "none"

(* The error a line is refused with.  The wires a gate reads are looked up *)
(* only when the line is well-formed, its own name only after them.        *)
LineFault(line) ==
  IF ~IsWellFormed(line) THEN "syntax"
  ELSE IF UnknownWire(line) THEN "unknown wire"
  ELSE IF Known(line[1]) THEN "duplicate"
  ELSE "none"

GateOf(line) ==
  LET wire(k) == idOf[line[k]]
  IN  CASE IsInput(line) ->
             Input(IF Len(line) = 2 THEN Owner[line[2]] ELSE Len(inputs) % 2)
        [] IsOutput(line) -> Output(wire(2))
        [] IsGate(line, "C") -> Const(line[3])
        [] IsGate(line, "+") -> Add(wire(3), wire(4))
        [] IsGate(line, "*") -> Mul(wire(3), wire(4), triples + 1)
        [] IsGate(line, ">>") -> Trunc(wire(4), wire(5))
        [] IsGate(line, "<") -> Ltz(wire(4))

-----------------------------------------------------------------------------
ReadsLine(line) ==
  /\ outcome = "reading"
  /\ lines < MaxLines
  /\ line \in Lines
  /\ lines' = lines + 1

SkipLine(line) ==
  /\ ReadsLine(line)
  /\ line = <<>>
  /\ UNCHANGED <<parsed, scheduled, outcome>>

RefuseLine(line) ==
  /\ ReadsLine(line)
  /\ line # <<>>
  /\ LineFault(line) # "none"
  /\ outcome' = LineFault(line)
  /\ UNCHANGED <<parsed, scheduled>>

(* Slip: wires are counted from 0.                                         *)
AddGateFromZero(line) ==
  /\ ReadsLine(line)
  /\ line # <<>>
  /\ LineFault(line) = "none"
  /\ LET id == Len(gates)
         gate == GateOf(line)
     IN  /\ gates' = Append(gates, gate)
         /\ idOf' = [token \in DOMAIN idOf \cup {line[1]} |->
                      IF token = line[1] THEN id ELSE idOf[token]]
         /\ inputs' = IF gate.kind = "input" THEN Append(inputs, id) ELSE inputs
         /\ outputs' = IF gate.kind = "output" THEN Append(outputs, id) ELSE outputs
         /\ triples' = IF gate.kind = "mul" THEN triples + 1 ELSE triples
  /\ UNCHANGED <<scheduled, outcome>>

(* The gate becomes the next wire; a product takes the next triple.        *)
AddGate(line) ==
  /\ ReadsLine(line)
  /\ line # <<>>
  /\ LineFault(line) = "none"
  /\ LET id == Len(gates) + 1
         gate == GateOf(line)
     IN  /\ gates' = Append(gates, gate)
         /\ idOf' = [token \in DOMAIN idOf \cup {line[1]} |->
                      IF token = line[1] THEN id ELSE idOf[token]]
         /\ inputs' = IF gate.kind = "input" THEN Append(inputs, id) ELSE inputs
         /\ outputs' = IF gate.kind = "output" THEN Append(outputs, id) ELSE outputs
         /\ triples' = IF gate.kind = "mul" THEN triples + 1 ELSE triples
  /\ UNCHANGED <<scheduled, outcome>>

EndOfFile ==
  /\ outcome = "reading"
  /\ outcome' = IF gates = <<>> THEN "empty"
                ELSE IF outputs = <<>> THEN "no output"
                ELSE "scheduling"
  /\ UNCHANGED <<lines, parsed, scheduled>>

-----------------------------------------------------------------------------
(* Slip: local gates cost a round, too.                                    *)
CostOfAny(w) == 1

(* Circuit::schedule, one turn of its loop.  Rounds are counted from 1.    *)
Cost(w) == IF IsInteractive(gates[w]) THEN 1 ELSE 0

Largest(S) == CHOOSE x \in S : \A y \in S : y <= x

ScheduleGate ==
  /\ outcome = "scheduling"
  /\ Len(roundOf) < Len(gates)
  /\ LET id == Len(roundOf) + 1
         behind == {roundOf[v] + Cost(v) : v \in Operands(gates[id])}
         round == IF behind = {} THEN 1 ELSE Largest(behind)
         padded == [r \in 1 .. Largest({Len(rounds), round}) |->
                     IF r <= Len(rounds) THEN rounds[r] ELSE <<>>]
     IN  /\ roundOf' = Append(roundOf, round)
         /\ rounds' = [padded EXCEPT ![round] = Append(@, id)]
  /\ UNCHANGED <<lines, parsed, outcome>>

Finish ==
  /\ outcome = "scheduling"
  /\ Len(roundOf) = Len(gates)
  /\ outcome' = "ok"
  /\ UNCHANGED <<lines, parsed, scheduled>>

Returned == outcome \in {"ok"} \cup Errors /\ UNCHANGED vars

Next ==
  \/ \E line \in Lines : SkipLine(line) \/ RefuseLine(line) \/ AddGate(line)
  \/ EndOfFile
  \/ ScheduleGate
  \/ Finish
  \/ Returned

Spec == Init /\ [][Next]_vars

-----------------------------------------------------------------------------
TypeOK ==
  /\ lines \in 0 .. MaxLines
  /\ DOMAIN gates = 1 .. Len(gates)
  /\ inputs \in Seq(1 .. Len(gates))
  /\ outputs \in Seq(1 .. Len(gates))
  /\ triples \in Nat
  /\ idOf \in [DOMAIN idOf -> 1 .. Len(gates)]
  /\ roundOf \in Seq(Nat \ {0})
  /\ rounds \in Seq(Seq(1 .. Len(gates)))
  /\ outcome \in {"reading", "scheduling", "ok"} \cup Errors

Result ==
  [gates |-> gates, inputs |-> inputs, outputs |-> outputs, triples |-> triples,
   rounds |-> rounds]

(* A name stands for one wire, and no two names for the same one: a line   *)
(* cannot redefine what an earlier gate reads (parser.rs:153-156).         *)
NamesAreWires ==
  /\ \A s, t \in DOMAIN idOf : idOf[s] = idOf[t] => s = t
  /\ Cardinality(DOMAIN idOf) = Len(gates)

(* Names stay in step with the gates as they are read; and whatever file   *)
(* is accepted, evaluation can rely on what it got: operands come first,   *)
(* each product has a triple of its own, every gate has one place in the   *)
(* schedule, behind what it waits for (parser.rs:34-183, mod.rs:159-178).  *)
AcceptedIsCircuit ==
  /\ NamesAreWires
  /\ outcome = "ok" => IsCircuit(Result)

(* The schedule is as short as the dependencies allow, whatever the file:  *)
(* no gate waits for a message it does not need (mod.rs:159-160: "local    *)
(* gates never wait for a message").                                       *)
ScheduleIsTight == outcome = "ok" => TightlyScheduled(Result)
=============================================================================
