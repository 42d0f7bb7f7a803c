------------------------------ MODULE Protocol ------------------------------
(***************************************************************************)
(* The online phase (src/protocol.rs): two parties evaluate a circuit over *)
(* additive shares.  Each runs Party::run on its own: it shares its        *)
(* inputs, evaluates the circuit round by round and reveals the outputs;   *)
(* the only thing the two have in common is the link (module Exchange).    *)
(*                                                                         *)
(* The width of the ring and the number of fractional bits are settings of *)
(* each process.  They are those its half of the dealer's material was     *)
(* made for (Preprocessing::check), and nothing on the link tells them to  *)
(* the peer: a word has the same length in every format.                   *)
(***************************************************************************)
EXTENDS RingArith, Circuit, Exchange

CONSTANTS
  Formats,     \* what N_BIT and L_BIT may be: a modulus and the scale, 2^L_BIT
  Literals,    \* the numbers that netlists and input files give
  Encoding,    \* what each of them is encoded as in each of the formats
  Launches,    \* the situations the two processes are started in (below)
  Masks,       \* the words the parties' generators may draw
  Killable,    \* the parties that may be killed
  Unset, Missing, Unencodable

(* clear gives every wire the value it stands for in format f.             *)
Means(c, f, input, clear) ==
  \A w \in Wires(c) :
    LET g == c.gates[w]
        Stands(literal) ==
          (literal \in Literals /\ Encoding[f][literal] # Unencodable)
            => clear[w] = Encoding[f][literal]
    IN  /\ clear[w] \in Z(f.modulus)
        /\ g.kind = "input" => Stands(input[g.owner][w])
        /\ g.kind = "const" => Stands(g.literal)
        /\ g.kind = "add" => clear[w] = ZAdd(f.modulus, clear[g.args[1]], clear[g.args[2]])
        /\ g.kind = "mul" => clear[w] = ZMul(f.modulus, clear[g.args[1]], clear[g.args[2]])
        /\ g.kind = "output" => clear[w] = clear[g.args[1]]

(* A launch fixes what each party has loaded when the link comes up: its   *)
(* netlist, its input file and its half of what some run of the dealer     *)
(* drew (checked against its own settings and netlist, so of its format    *)
(* and long enough).  Nothing makes the two parties load the same netlist, *)
(* halves of the same run or halves of one format.  The last field is not  *)
(* known to anyone: the values of the wires when both have the same        *)
(* netlist and format.                                                     *)
IsLaunch(l) ==
  /\ \A p \in Party :
       LET c == l.circuit[p]
       IN  /\ IsCircuit(c) /\ TightlyScheduled(c)
           /\ \A w \in Wires(c) : c.gates[w].kind = "const" => c.gates[w].literal \in Literals
           /\ \A w \in Wires(c) :
                (c.gates[w].kind = "input" /\ c.gates[w].owner = p)
                  => l.input[p][w] \in Literals \cup {Missing}
           /\ l.deal[p].format \in Formats
           /\ l.deal[p].triples \in Seq([1 .. 5 -> Z(l.deal[p].format.modulus)])
           /\ Len(l.deal[p].triples) >= c.triples
  /\ (l.circuit[0] = l.circuit[1] /\ l.deal[0].format = l.deal[1].format)
       => Means(l.circuit[0], l.deal[0].format, l.input, l.clear)

ASSUME FormatAssumption ==
  \A f \in Formats :
    /\ f.modulus \in Moduli
    /\ \A literal \in Literals : Encoding[f][literal] \in Z(f.modulus) \cup {Unencodable}

ASSUME ProtocolAssumption ==
  /\ \A l \in Launches : IsLaunch(l)
  /\ Masks \subseteq Word
  /\ Killable \subseteq Party
  /\ Message = Seq(Word)
  /\ Missing \notin Literals
  /\ Unencodable \notin Word

VARIABLES
  launch,      \* the situation of this run; it never changes
  pc,          \* where each party is in `run`
  error,       \* why it failed
  place,       \* the next place of the schedule: <<round, position>>
  queue,       \* the interactive gates of the round, in order
  kept,        \* the shares of its own inputs it keeps
  wires,       \* what each wire carries: Unset, a share or a literal
  outputs,     \* the revealed outputs
  transcript   \* the cost so far, in messages and in ring elements

computation == <<queue, kept, wires, outputs>>
vars == <<launch, pc, error, place, computation, transcript, exchangeVars>>

Steps  == {"share", "sharing", "layer", "opening", "revealing"}
Faults == {"none", "missing", "encoding", "unsupported", "unassigned", "length", "io"}

Circ(p) == launch.circuit[p]
Gate(p, w) == Circ(p).gates[w]

(* The settings of a party, the ring it computes in, and how it encodes.   *)
Format(p) == launch.deal[p].format
Mod(p) == Format(p).modulus
Ring(p) == Z(Mod(p))
Encoded(p, literal) == Encoding[Format(p)][literal]

(* What a wire may carry.                                                  *)
ShareValue(v)       == [public |-> FALSE, value |-> v]
ConstValue(literal) == [public |-> TRUE, value |-> literal]
WireValue(p) == {Unset} \cup {ShareValue(v) : v \in Ring(p)}
                        \cup {ConstValue(literal) : literal \in Literals}

(* An Option that is None is no value.                                     *)
ASSUME UnsetAssumption ==
  /\ \A v \in Word : Unset # ShareValue(v)
  /\ \A literal \in Literals : Unset # ConstValue(literal)

Init ==
  /\ launch \in Launches
  /\ pc = [p \in Party |-> "share"]
  /\ error = [p \in Party |-> "none"]
  /\ place = [p \in Party |-> <<1, 1>>]
  /\ queue = [p \in Party |-> <<>>]
  /\ kept = [p \in Party |-> <<>>]
  /\ wires = [p \in Party |-> [w \in Wires(Circ(p)) |-> Unset]]
  /\ outputs = [p \in Party |-> <<>>]
  /\ transcript = [p \in Party |-> [rounds |-> 0, sent |-> 0, received |-> 0]]
  /\ ExchangeInit

-----------------------------------------------------------------------------
(* Reading a wire fails when nothing was assigned to it, and at party 0    *)
(* when it carries a literal that cannot be encoded.                       *)
WireFault(p, w) ==
  CASE wires[p][w] = Unset -> "unassigned"
    [] p = 0 /\ wires[p][w].public /\ Encoded(p, wires[p][w].value) = Unencodable -> "encoding"
    [] OTHER -> "none"

(* Slip: both parties count a literal.                                     *)
ShareOfEither(p, w) ==
  IF wires[p][w].public THEN Encoded(p, wires[p][w].value) ELSE wires[p][w].value

ShareOf(p, w) ==
  IF ~wires[p][w].public THEN wires[p][w].value
  ELSE IF p = 0 THEN Encoded(p, wires[p][w].value) ELSE 0

InputFault(p, value) ==
  CASE value = Missing -> "missing"
    [] value # Missing /\ Encoded(p, value) = Unencodable -> "encoding"
    [] OTHER -> "none"

(* The faults of reading the operands of a gate, in order.                 *)
ReadFaults(p, w) == [k \in 1 .. Len(Gate(p, w).args) |-> WireFault(p, Gate(p, w).args[k])]

(* The first fault in a sequence of them.                                  *)
First(faults) ==
  LET bad == {k \in DOMAIN faults : faults[k] # "none"}
  IN  IF bad = {} THEN "none"
      ELSE faults[CHOOSE k \in bad : \A j \in bad : k <= j]

GateFault(p, w) ==
  IF Gate(p, w).kind = "mul" THEN First(ReadFaults(p, w)) ELSE "unsupported"

Fail(p, fault) ==
  /\ fault # "none"
  /\ pc' = [pc EXCEPT ![p] = "failed"]
  /\ error' = [error EXCEPT ![p] = fault]

Goto(p, step) ==
  /\ pc' = [pc EXCEPT ![p] = step]
  /\ UNCHANGED error

(* The bookkeeping of a call that returned.                                *)
Account(p) ==
  transcript' = [transcript EXCEPT ![p] =
    [rounds   |-> @.rounds + 1,
     sent     |-> @.sent + Len(Outgoing(p)),
     received |-> @.received + Len(Incoming(p))]]

-----------------------------------------------------------------------------
(* share_inputs, up to the exchange.                                       *)

OwnFault(p) ==
  LET mine == InputsOf(Circ(p), p)
  IN  First([k \in 1 .. Len(mine) |-> InputFault(p, launch.input[p][mine[k]])])

RefuseInputs(p) ==
  /\ pc[p] = "share"
  /\ Fail(p, OwnFault(p))
  /\ UNCHANGED <<launch, place, computation, transcript, exchangeVars>>

ShareInputs(p) ==
  LET mine == InputsOf(Circ(p), p)
  IN  /\ pc[p] = "share"
      /\ OwnFault(p) = "none"
      /\ \E mask \in [1 .. Len(mine) -> Masks] :
           LET halves == [k \in 1 .. Len(mine) |->
                            Share(Mod(p), Encoded(p, launch.input[p][mine[k]]),
                                  ZRaw(Mod(p), mask[k]))]
           IN  /\ Call(p, [k \in 1 .. Len(mine) |-> halves[k][1]])
               /\ kept' = [kept EXCEPT ![p] = [k \in 1 .. Len(mine) |-> halves[k][2]]]
      /\ Goto(p, "sharing")
      /\ UNCHANGED <<launch, place, queue, wires, outputs, transcript>>

(* Every call but this one compares what came back with what it sent; this *)
(* one with the number of inputs its own netlist gives the peer.           *)
Shared(p, theirs, message) ==
  LET mine == InputsOf(Circ(p), p)
  IN  [w \in Wires(Circ(p)) |->
        IF \E k \in 1 .. Len(mine) : mine[k] = w
        THEN ShareValue(kept[p][CHOOSE k \in 1 .. Len(mine) : mine[k] = w])
        ELSE IF \E k \in 1 .. Len(theirs) : theirs[k] = w
        THEN ShareValue(ZRaw(Mod(p), message[CHOOSE k \in 1 .. Len(theirs) : theirs[k] = w]))
        ELSE wires[p][w]]

(* Slip: the answer is measured against what was sent.                     *)
ReceiveAsManyInputs(p) ==
  LET theirs == InputsOf(Circ(p), Peer(p))
  IN  /\ pc[p] = "sharing"
      /\ Return(p)
      /\ Account(p)
      /\ IF Len(Incoming(p)) = Len(Outgoing(p))
         THEN /\ Goto(p, "layer")
              /\ wires' = [wires EXCEPT ![p] = Shared(p, theirs, Incoming(p))]
         ELSE /\ Fail(p, "length")
              /\ UNCHANGED wires
      /\ UNCHANGED <<launch, place, queue, kept, outputs>>

ReceiveInputs(p) ==
  LET theirs == InputsOf(Circ(p), Peer(p))
  IN  /\ pc[p] = "sharing"
      /\ Return(p)
      /\ Account(p)
      /\ IF Len(Incoming(p)) = Len(theirs)
         THEN /\ Goto(p, "layer")
              /\ wires' = [wires EXCEPT ![p] = Shared(p, theirs, Incoming(p))]
         ELSE /\ Fail(p, "length")
              /\ UNCHANGED wires
      /\ UNCHANGED <<launch, place, queue, kept, outputs>>

-----------------------------------------------------------------------------
(* evaluate_round: one step per gate of the round, in the order of the     *)
(* schedule.                                                               *)

InRound(p) == pc[p] = "layer" /\ place[p][1] <= Len(Circ(p).rounds)

(* The wire whose turn it is.                                              *)
Turn(p, w) ==
  /\ InRound(p)
  /\ place[p][2] <= Len(Circ(p).rounds[place[p][1]])
  /\ w = At(Circ(p), place[p])

Step(p) ==
  /\ place' = [place EXCEPT ![p] = <<@[1], @[2] + 1>>]
  /\ UNCHANGED <<launch, kept, outputs, transcript, exchangeVars>>

Assign(p, w, value) ==
  /\ wires' = [wires EXCEPT ![p] = [@ EXCEPT ![w] = value]]
  /\ Step(p)
  /\ UNCHANGED <<pc, error, queue>>

PassGate(p, w) ==
  /\ Turn(p, w)
  /\ Gate(p, w).kind \in {"input", "output"}
  /\ Step(p)
  /\ UNCHANGED <<pc, error, queue, wires>>

EvalConst(p, w) ==
  /\ Turn(p, w)
  /\ Gate(p, w).kind = "const"
  /\ Assign(p, w, ConstValue(Gate(p, w).literal))

EvalAdd(p, w) ==
  /\ Turn(p, w)
  /\ Gate(p, w).kind = "add"
  /\ First(ReadFaults(p, w)) = "none"
  /\ Assign(p, w, ShareValue(ZAdd(Mod(p), ShareOf(p, Gate(p, w).args[1]),
                                          ShareOf(p, Gate(p, w).args[2]))))

RefuseAdd(p, w) ==
  /\ Turn(p, w)
  /\ Gate(p, w).kind = "add"
  /\ Fail(p, First(ReadFaults(p, w)))
  /\ UNCHANGED <<launch, place, computation, transcript, exchangeVars>>

QueueGate(p, w) ==
  /\ Turn(p, w)
  /\ IsInteractive(Gate(p, w))
  /\ queue' = [queue EXCEPT ![p] = Append(@, w)]
  /\ Step(p)
  /\ UNCHANGED <<pc, error, wires>>

EvaluateGate(p) ==
  \E w \in Wires(Circ(p)) :
    \/ PassGate(p, w)
    \/ EvalConst(p, w)
    \/ EvalAdd(p, w)
    \/ RefuseAdd(p, w)
    \/ QueueGate(p, w)

RoundIsOver(p) ==
  InRound(p) /\ place[p][2] > Len(Circ(p).rounds[place[p][1]])

NextRound(p) == place' = [place EXCEPT ![p] = <<@[1] + 1, 1>>]

(* A round without interactive gates costs no message.                     *)
SkipRound(p) ==
  /\ RoundIsOver(p)
  /\ queue[p] = <<>>
  /\ NextRound(p)
  /\ UNCHANGED <<launch, pc, error, computation, transcript, exchangeVars>>

-----------------------------------------------------------------------------
(* evaluate_interactive.  Gate number k of the queue opens the words       *)
(* 2k - 1 and 2k of the message.                                           *)

Triple(p, w) == Dealt(Mod(p), p, launch.deal[p].triples[Gate(p, w).triple])

QueueFault(p) == First([k \in 1 .. Len(queue[p]) |-> GateFault(p, queue[p][k])])

Openings(p) ==
  [j \in 1 .. 2 * Len(queue[p]) |->
    LET w == queue[p][(j + 1) \div 2]
    IN  Masked(Mod(p), ShareOf(p, Gate(p, w).args[1]),
               ShareOf(p, Gate(p, w).args[2]),
               Triple(p, w))[2 - (j % 2)]]

RefuseRound(p) ==
  /\ RoundIsOver(p)
  /\ Fail(p, QueueFault(p))
  /\ UNCHANGED <<launch, place, computation, transcript, exchangeVars>>

(* Slip: a round without interactive gates may be opened as well.          *)
OpenAnyRound(p) ==
  /\ RoundIsOver(p)
  /\ QueueFault(p) = "none"
  /\ Call(p, Openings(p))
  /\ Goto(p, "opening")
  /\ UNCHANGED <<launch, place, computation, transcript>>

OpenRound(p) ==
  /\ RoundIsOver(p)
  /\ queue[p] # <<>>
  /\ QueueFault(p) = "none"
  /\ Call(p, Openings(p))
  /\ Goto(p, "opening")
  /\ UNCHANGED <<launch, place, computation, transcript>>

(* Slip: the halves are subtracted.                                        *)
OpenedDifference(p, j) == ZSub(Mod(p), Outgoing(p)[j], ZRaw(Mod(p), Incoming(p)[j]))

(* The sum of both halves of word j of a round.                            *)
Opened(p, j) == ZAdd(Mod(p), Outgoing(p)[j], ZRaw(Mod(p), Incoming(p)[j]))

(* Slips: a product is written to its left operand; the last one of the    *)
(* round is not written.                                                   *)
FinishedAtOperand(p) ==
  [w \in Wires(Circ(p)) |->
    IF \E k \in 1 .. Len(queue[p]) : Gate(p, queue[p][k]).args[1] = w
    THEN LET k == CHOOSE k \in 1 .. Len(queue[p]) : Gate(p, queue[p][k]).args[1] = w
         IN  ShareValue(Product(Mod(p), p, Opened(p, 2 * k - 1), Opened(p, 2 * k), Triple(p, queue[p][k])))
    ELSE wires[p][w]]

FinishedButLast(p) ==
  [w \in Wires(Circ(p)) |->
    IF \E k \in 1 .. Len(queue[p]) - 1 : queue[p][k] = w
    THEN LET k == CHOOSE k \in 1 .. Len(queue[p]) - 1 : queue[p][k] = w
         IN  ShareValue(Product(Mod(p), p, Opened(p, 2 * k - 1), Opened(p, 2 * k), Triple(p, w)))
    ELSE wires[p][w]]

Finished(p) ==
  [w \in Wires(Circ(p)) |->
    IF \E k \in 1 .. Len(queue[p]) : queue[p][k] = w
    THEN LET k == CHOOSE k \in 1 .. Len(queue[p]) : queue[p][k] = w
         IN  ShareValue(Product(Mod(p), p, Opened(p, 2 * k - 1), Opened(p, 2 * k), Triple(p, w)))
    ELSE wires[p][w]]

CloseRound(p) ==
  /\ pc[p] = "opening"
  /\ Return(p)
  /\ Account(p)
  /\ IF Len(Incoming(p)) = Len(Outgoing(p))
     THEN /\ Goto(p, "layer")
          /\ wires' = [wires EXCEPT ![p] = Finished(p)]
          /\ queue' = [queue EXCEPT ![p] = <<>>]
          /\ NextRound(p)
     ELSE /\ Fail(p, "length")
          /\ UNCHANGED <<wires, queue, place>>
  /\ UNCHANGED <<launch, kept, outputs>>

-----------------------------------------------------------------------------
(* reveal_outputs.                                                         *)

(* Slip: the last round is left out.                                       *)
LastRoundReached(p) == pc[p] = "layer" /\ place[p][1] >= Len(Circ(p).rounds)

AllRoundsDone(p) == pc[p] = "layer" /\ place[p][1] > Len(Circ(p).rounds)

Source(p, k) == Gate(p, Circ(p).outputs[k]).args[1]

RevealFault(p) ==
  First([k \in 1 .. Len(Circ(p).outputs) |-> WireFault(p, Source(p, k))])

RefuseReveal(p) ==
  /\ AllRoundsDone(p)
  /\ Fail(p, RevealFault(p))
  /\ UNCHANGED <<launch, place, computation, transcript, exchangeVars>>

RevealOutputs(p) ==
  /\ AllRoundsDone(p)
  /\ RevealFault(p) = "none"
  /\ Call(p, [k \in 1 .. Len(Circ(p).outputs) |-> ShareOf(p, Source(p, k))])
  /\ Goto(p, "revealing")
  /\ UNCHANGED <<launch, place, computation, transcript>>

ReceiveOutputs(p) ==
  /\ pc[p] = "revealing"
  /\ Return(p)
  /\ Account(p)
  /\ IF Len(Incoming(p)) = Len(Outgoing(p))
     THEN /\ Goto(p, "done")
          /\ outputs' = [outputs EXCEPT ![p] =
               [k \in 1 .. Len(Circ(p).outputs) |-> Opened(p, k)]]
     ELSE /\ Fail(p, "length")
          /\ UNCHANGED outputs
  /\ UNCHANGED <<launch, place, queue, kept, wires>>

-----------------------------------------------------------------------------
(* An exchange fails.                                                      *)
PeerLost(p) ==
  /\ pc[p] \in {"sharing", "opening", "revealing"}
  /\ Abort(p)
  /\ Fail(p, "io")
  /\ UNCHANGED <<launch, place, computation, transcript>>

(* `run` has returned and the process ends.                                *)
Exit(p) ==
  /\ pc[p] \in {"done", "failed"}
  /\ Close(p)
  /\ UNCHANGED <<launch, pc, error, place, computation, transcript>>

Kill(p) ==
  /\ p \in Killable
  /\ pc[p] \in Steps
  /\ Crash(p)
  /\ Goto(p, "crashed")
  /\ UNCHANGED <<launch, place, computation, transcript>>

(* Both processes are gone.                                                *)
Over ==
  /\ \A p \in Party : status[p] \in {"closed", "crashed"}
  /\ UNCHANGED vars

(* What a party does of its own accord, given the peer's messages.         *)
Run(p) ==
  \/ RefuseInputs(p) \/ ShareInputs(p) \/ ReceiveInputs(p)
  \/ EvaluateGate(p) \/ SkipRound(p)
  \/ RefuseRound(p) \/ OpenRound(p) \/ CloseRound(p)
  \/ RefuseReveal(p) \/ RevealOutputs(p) \/ ReceiveOutputs(p)
  \/ PeerLost(p) \/ Exit(p)

Next == (\E p \in Party : Run(p) \/ Kill(p)) \/ Over

Spec == Init /\ [][Next]_vars

(* A process that can run does run: the operating system schedules it and  *)
(* delivers what the peer's system has sent, the end of the stream too.    *)
FairSpec == Spec /\ \A p \in Party : WF_vars(Run(p))

-----------------------------------------------------------------------------
SameCircuit == launch.circuit[0] = launch.circuit[1]
SameStart   == SameCircuit /\ launch.deal[0] = launch.deal[1]

TypeOK ==
  /\ ExchangeTypeOK
  /\ pc \in [Party -> Steps \cup {"done", "failed", "crashed"}]
  /\ error \in [Party -> Faults]
  /\ place \in [Party -> (Nat \ {0}) \X (Nat \ {0})]
  /\ queue \in [Party -> Seq(Nat \ {0})]
  /\ kept \in [Party -> Seq(Word)]
  /\ \A p \in Party : kept[p] \in Seq(Ring(p))
  /\ DOMAIN wires = Party
  /\ \A p \in Party : wires[p] \in [Wires(Circ(p)) -> WireValue(p)]
  /\ outputs \in [Party -> Seq(Word)]
  /\ \A p \in Party : outputs[p] \in Seq(Ring(p))
  /\ transcript \in [Party -> [rounds : Nat, sent : Nat, received : Nat]]

(* Two parties that run the same netlist on halves of one dealer run hold, *)
(* at any moment, shares of the value each wire stands for: for every wire *)
(* both have evaluated, whatever round the other is in (protocol.rs:4-7,   *)
(* share_inputs, evaluate_round, evaluate_interactive).                    *)
SharesRecombine ==
  SameStart =>
    \A w \in Wires(Circ(0)) :
      WireFault(0, w) = "none" /\ WireFault(1, w) = "none"
        => ZAdd(Mod(0), ShareOf(0, w), ShareOf(1, w)) = launch.clear[w]

(* What such a party reveals is the value of each output wire, even when   *)
(* the peer was killed or has long gone (reveal_outputs).                  *)
OutputsCorrect ==
  SameStart =>
    \A p \in Party : pc[p] = "done" =>
      outputs[p] = [k \in 1 .. Len(Circ(p).outputs) |-> launch.clear[Circ(p).outputs[k]]]

(* Two parties of one format that both succeed report the same outputs,    *)
(* even when they run different netlists or halves of different dealer     *)
(* runs.  Parties of different formats may both succeed and report         *)
(* different numbers, since each reduces and reads what was opened in its  *)
(* own (ring.rs:22-40, 144-146).                                           *)
OutputsAgree ==
  (pc[0] = "done" /\ pc[1] = "done" /\ Format(0) = Format(1)) => outputs[0] = outputs[1]

(* A run costs one message per layer of multiplications and direction, not *)
(* one per multiplication, plus those for the inputs and the outputs, and  *)
(* carries the words of these gates only (protocol.rs:9-12, net.rs:91-93). *)
RunCost ==
  \A p \in Party : pc[p] = "done" /\ SameCircuit =>
    LET c     == Circ(p)
        depth == Depth(c.gates)
        words == 2 * c.triples + Len(c.outputs)
    IN  /\ \E w \in Wires(c) : depth[w] = transcript[p].rounds - 2
        /\ \A w \in Wires(c) : depth[w] <= transcript[p].rounds - 2
        /\ transcript[p].sent = words + Len(InputsOf(c, p))
        /\ transcript[p].received = words + Len(InputsOf(c, Peer(p)))

(* With the same netlist, one party never reports an answer while the      *)
(* other reports a failure: nothing fails once the outputs are on the way. *)
NoHalfAnswer ==
  SameCircuit => ~ \E p \in Party : pc[p] = "done" /\ pc[Peer(p)] = "failed"

(* With the same netlist, a party that reports a network error does so     *)
(* because the peer was killed or has reported an error that is its own;   *)
(* messages always have the length that is expected.                       *)
FailuresHaveACause ==
  SameCircuit =>
    \A p \in Party :
      /\ error[p] # "length"
      /\ error[p] = "io" =>
           \/ pc[Peer(p)] = "crashed"
           \/ pc[Peer(p)] = "failed" /\ error[Peer(p)] # "io"

(* "Read before it was assigned" is reported only by a netlist in which a  *)
(* gate reads an output wire: the schedule never runs a gate before its    *)
(* operands, although a round finishes its interactive gates last.         *)
ReadsFollowWrites ==
  \A p \in Party : error[p] = "unassigned" =>
    \E w \in Wires(Circ(p)) : \E v \in Operands(Gate(p, w)) : Gate(p, v).kind = "output"

(* A gate that is not implemented stops a party before it opens anything   *)
(* of the gate's round.  With the same netlist the peer has not opened the *)
(* round either when that is reported, and never succeeds: no party waits  *)
(* for openings that only the other has sent.                              *)
UnsupportedStopsBoth ==
  SameCircuit =>
    \A p \in Party : error[p] = "unsupported" =>
      /\ Len(sent[Peer(p)]) <= Len(sent[p])
      /\ pc[Peer(p)] # "done"

(* A wire is written once: no step changes the value of an assigned wire.  *)
WrittenOnce ==
  [][\A p \in Party : \A w \in Wires(Circ(p)) :
       wires[p][w] # Unset => wires'[p][w] = wires[p][w]]_vars

(* Whatever goes wrong at either party, both processes come to an end.     *)
BothEnd ==
  \A p \in Party : <>(status[p] \in {"closed", "crashed"})

(* Without a reason to fail, both parties get the outputs, unless one of   *)
(* them is killed.                                                         *)
Faultless ==
  /\ SameCircuit
  /\ \A p \in Party : OwnFault(p) = "none"
  /\ \A w \in Wires(Circ(0)) :
       /\ Gate(0, w).kind \notin {"trunc", "ltz"}
       /\ Gate(0, w).kind = "const" => Encoded(0, Gate(0, w).literal) # Unencodable
       /\ \A v \in Operands(Gate(0, w)) : Gate(0, v).kind # "output"

BothSucceed ==
  Faultless => <>((\E p \in Party : pc[p] = "crashed") \/ (\A p \in Party : pc[p] = "done"))
=============================================================================
