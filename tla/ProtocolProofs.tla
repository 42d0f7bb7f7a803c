--------------------------- MODULE ProtocolProofs ---------------------------
(***************************************************************************)
(* The link keeps the two parties in lockstep, whatever they send,         *)
(* whenever they stop and however they fail (module Exchange).  Then type  *)
(* correctness of the online phase, for every set of launches, and what    *)
(* follows from it: the protocol uses its link as an exchange, so what     *)
(* holds of every exchange holds of it.                                    *)
(*                                                                         *)
(* Two parties of one format that both succeed report the same outputs,    *)
(* for every set of launches: also when they loaded different netlists,    *)
(* different inputs or halves of different dealer runs.  No more is needed *)
(* than the order of the messages, that addition in the ring commutes and  *)
(* that both reduce by one modulus.                                        *)
(*                                                                         *)
(* Two parties with one netlist and halves of one dealer run, moreover,    *)
(* hold shares of the value of every wire at every moment, and report the  *)
(* values of the outputs.  That takes the algebra of the ring and an       *)
(* invariant about what each of them has said (ShareInv).                  *)
(*                                                                         *)
(* Two parties with one netlist, of whatever dealer runs, end alike unless *)
(* one is killed: the failure of one is the failure of both, for a reason  *)
(* of its own (FailInv).  And a run that succeeds costs what the circuit   *)
(* says (CostInv).                                                         *)
(***************************************************************************)
EXTENDS Protocol, RingTheorems, WellFoundedInduction, FiniteSetTheorems

-----------------------------------------------------------------------------
(* The exchange.  The step lemmas are about ExchangeStep, so that they can *)
(* be used of a program that talks over an exchange.                       *)

LEMMA Peers ==
  /\ \A p \in Party : Peer(p) \in Party /\ Peer(p) # p /\ Peer(Peer(p)) = p
  /\ Peer(0) = 1 /\ Peer(1) = 0
BY DEF Party, Peer

(* The lengths of what two parties sent and got are the whole argument:    *)
(* Answered is about each party alone, Fifo ties the parties together.     *)
ExchangeInv == ExchangeTypeOK /\ Answered /\ Fifo

LEMMA InitExchangeInv == ExchangeInit => ExchangeInv
BY Peers DEF ExchangeInit, ExchangeInv, ExchangeTypeOK, Answered, Fifo, Status

LEMMA StepTypeOK ==
  ASSUME ExchangeTypeOK, NEW p \in Party, ExchangeStep(p)
  PROVE  ExchangeTypeOK'
<1> USE DEF ExchangeTypeOK, Status
<1>1. ASSUME NEW payload \in Message, Call(p, payload) PROVE ExchangeTypeOK'
  BY <1>1 DEF Call
<1>2. CASE Return(p)
  <2>1. Peer(p) \in Party
    BY Peers
  <2>2. Incoming(p) \in Message
    BY <1>2, <2>1 DEF Return, HasMail, Incoming
  <2> QED BY <1>2, <2>2 DEF Return
<1>3. CASE Abort(p)
  BY <1>3 DEF Abort
<1>4. CASE Close(p)
  BY <1>4 DEF Close
<1>5. CASE Crash(p)
  BY <1>5 DEF Crash
<1> QED BY <1>1, <1>2, <1>3, <1>4, <1>5 DEF ExchangeStep

LEMMA StepAnswered ==
  ASSUME ExchangeTypeOK, Answered, NEW p \in Party, ExchangeStep(p)
  PROVE  Answered'
<1> USE DEF ExchangeTypeOK, Answered, Status
<1>0. \A q \in Party : Len(sent[q]) \in Nat /\ Len(got[q]) \in Nat
  OBVIOUS
<1>1. ASSUME NEW payload \in Message, Call(p, payload) PROVE Answered'
  <2>1. Len(sent'[p]) = Len(sent[p]) + 1 /\ got' = got /\ status'[p] = "busy"
    BY <1>1 DEF Call
  <2>2. \A q \in Party : q # p => sent'[q] = sent[q] /\ status'[q] = status[q]
    BY <1>1 DEF Call
  <2>3. Len(got[p]) = Len(sent[p])
    BY <1>1 DEF Call
  <2>4. Len(got'[p]) = Len(sent'[p]) - 1 /\ Len(sent'[p]) = Len(got'[p]) + 1
    BY <1>0, <2>1, <2>3
  <2>5. \A q \in Party : q # p => got'[q] = got[q]
    BY <2>1
  <2> QED BY <2>1, <2>2, <2>4, <2>5
<1>2. CASE Return(p)
  <2>1. Len(got'[p]) = Len(got[p]) + 1 /\ sent' = sent /\ status'[p] = "idle"
    BY <1>2 DEF Return
  <2>2. \A q \in Party : q # p => got'[q] = got[q] /\ status'[q] = status[q]
    BY <1>2 DEF Return
  <2>3. Len(sent[p]) = Len(got[p]) + 1
    BY <1>2 DEF Return
  <2> QED BY <1>0, <2>1, <2>2, <2>3
<1>3. CASE Abort(p)
  BY <1>3 DEF Abort
<1>4. CASE Close(p)
  BY <1>4 DEF Close
<1>5. CASE Crash(p)
  BY <1>5 DEF Crash
<1> QED BY <1>1, <1>2, <1>3, <1>4, <1>5 DEF ExchangeStep

LEMMA StepFifo ==
  ASSUME ExchangeTypeOK, Fifo, NEW p \in Party, ExchangeStep(p)
  PROVE  Fifo'
<1> USE DEF ExchangeTypeOK, Fifo
<1>0. /\ \A q \in Party : /\ Len(sent[q]) \in Nat /\ Len(got[q]) \in Nat
                          /\ Peer(q) \in Party /\ Peer(q) # q /\ Peer(Peer(q)) = q
  BY Peers
<1>1. ASSUME NEW payload \in Message, Call(p, payload) PROVE Fifo'
  <2>1. got' = got
    BY <1>1 DEF Call
  <2>2. ASSUME NEW q \in Party
        PROVE  /\ Len(sent'[q]) >= Len(sent[q])
               /\ \A i \in 1 .. Len(sent[q]) : sent'[q][i] = sent[q][i]
    BY <1>0, <1>1 DEF Call
  <2>3. \A q \in Party : Len(sent'[q]) \in Nat
    BY <1>0, <1>1 DEF Call
  <2>4. ASSUME NEW q \in Party
        PROVE  /\ Len(got[q]) <= Len(sent'[Peer(q)])
               /\ \A i \in 1 .. Len(got[q]) : got[q][i] = sent'[Peer(q)][i]
    <3>1. Peer(q) \in Party
      BY <1>0
    <3>2. /\ Len(got[q]) <= Len(sent[Peer(q)])
          /\ \A i \in 1 .. Len(got[q]) : got[q][i] = sent[Peer(q)][i]
      OBVIOUS
    <3> QED BY <1>0, <2>2, <2>3, <3>1, <3>2
  <2> QED BY <2>1, <2>4
<1>2. CASE Return(p)
  <2>1. /\ sent' = sent
        /\ got' = [got EXCEPT ![p] = Append(@, sent[Peer(p)][Len(got[p]) + 1])]
        /\ Len(got[p]) < Len(sent[Peer(p)])
    BY <1>2 DEF Return, HasMail, Incoming
  <2>2. /\ Len(got'[p]) = Len(got[p]) + 1
        /\ got'[p][Len(got[p]) + 1] = sent[Peer(p)][Len(got[p]) + 1]
        /\ \A i \in 1 .. Len(got[p]) : got'[p][i] = got[p][i]
    BY <1>0, <2>1
  <2>3. \A q \in Party : q # p => got'[q] = got[q]
    BY <2>1
  <2>4. /\ Len(got'[p]) <= Len(sent[Peer(p)])
        /\ \A i \in 1 .. Len(got'[p]) : got'[p][i] = sent[Peer(p)][i]
    BY <1>0, <2>1, <2>2
  <2> QED BY <2>1, <2>3, <2>4
<1>3. CASE Abort(p)
  BY <1>3 DEF Abort
<1>4. CASE Close(p)
  BY <1>4 DEF Close
<1>5. CASE Crash(p)
  BY <1>5 DEF Crash
<1> QED BY <1>1, <1>2, <1>3, <1>4, <1>5 DEF ExchangeStep

LEMMA StepExchangeInv ==
  ASSUME ExchangeInv, NEW p \in Party, ExchangeStep(p)
  PROVE  ExchangeInv'
BY StepTypeOK, StepAnswered, StepFifo DEF ExchangeInv

LEMMA StutterExchangeInv ==
  ASSUME ExchangeInv, UNCHANGED exchangeVars
  PROVE  ExchangeInv'
BY DEF ExchangeInv, ExchangeTypeOK, Answered, Fifo, exchangeVars

LEMMA InvLockstep == ExchangeInv => Lockstep
<1> SUFFICES ASSUME ExchangeInv PROVE Lockstep
  OBVIOUS
<1>1. \A p \in Party : Len(sent[p]) \in Nat /\ Len(got[p]) \in Nat
  BY DEF ExchangeInv, ExchangeTypeOK
<1>2. 0 \in Party /\ 1 \in Party
  BY DEF Party
<1>3. Len(got[0]) <= Len(sent[1]) /\ Len(got[1]) <= Len(sent[0])
  BY <1>2, Peers DEF ExchangeInv, Fifo
<1>4. \A p \in Party : Len(sent[p]) <= Len(got[p]) + 1
  <2> TAKE p \in Party
  <2>1. Len(got[p]) = Len(sent[p]) - 1 \/ Len(got[p]) = Len(sent[p])
    BY DEF ExchangeInv, Answered
  <2> QED BY <1>1, <2>1
<1> QED BY <1>1, <1>2, <1>3, <1>4 DEF Lockstep

-----------------------------------------------------------------------------
(* Every behaviour of an exchange keeps the invariant: each round is       *)
(* answered by the same round of the peer (Channel::exchange, net.rs:68).  *)
THEOREM ExchangeInvariant == ExchangeSpec => []ExchangeInv
<1>1. ExchangeInv /\ [ExchangeNext]_exchangeVars => ExchangeInv'
  BY StepExchangeInv, StutterExchangeInv DEF ExchangeNext
<1> QED BY <1>1, InitExchangeInv, PTL DEF ExchangeSpec

(* The two parties are never more than one round apart.                    *)
THEOREM ExchangeLockstep == ExchangeSpec => []Lockstep
BY ExchangeInvariant, InvLockstep, PTL

-----------------------------------------------------------------------------
(* Preliminaries: the least element of a set of numbers, and First.        *)
LEMMA Least ==
  ASSUME NEW S, S \subseteq Nat, S # {}
  PROVE  \E m \in S : \A k \in S : m <= k
<1> DEFINE R == OpToRel(<, Nat)
<1>1. IsWellFoundedOn(R, Nat)
  BY NatLessThanWellFounded
<1>2. \A a \in Nat : \A b \in Nat : a < b => <<a, b>> \in R
  BY DEF OpToRel
<1> HIDE DEF R
<1>3. PICK m \in S : \A k \in S : ~(<<k, m>> \in R)
  BY <1>1, WFMin
<1>4. \A k \in S : ~(k < m)
  BY <1>2, <1>3
<1> QED BY <1>3, <1>4

LEMMA Elements ==
  ASSUME NEW S, NEW s \in Seq(S)
  PROVE  Len(s) \in Nat /\ DOMAIN s = 1 .. Len(s) /\ \A k \in 1 .. Len(s) : s[k] \in S
OBVIOUS

LEMMA FirstFault ==
  ASSUME NEW n \in Nat, NEW f \in [1 .. n -> Faults]
  PROVE  /\ First(f) \in Faults
         /\ First(f) = "none" <=> \A k \in 1 .. n : f[k] = "none"
<1> DEFINE bad == {k \in DOMAIN f : f[k] # "none"}
<1>1. First(f) = IF bad = {} THEN "none"
                 ELSE f[CHOOSE k \in bad : \A j \in bad : k <= j]
  BY DEF First
<1>2. bad \subseteq 1 .. n /\ bad \subseteq Nat
  OBVIOUS
<1>3. CASE bad = {}
  BY <1>1, <1>3 DEF Faults
<1>4. CASE bad # {}
  <2>1. \E k \in bad : \A j \in bad : k <= j
    BY <1>2, <1>4, Least
  <2>2. (CHOOSE k \in bad : \A j \in bad : k <= j) \in bad
    BY <2>1
  <2> QED BY <1>1, <1>2, <1>4, <2>2
<1> QED BY <1>3, <1>4

-----------------------------------------------------------------------------
(* The ring of a party, which is a ring of RingTheorems, within the word.  *)
LEMMA RingFacts ==
  ASSUME launch \in Launches, NEW p \in Party
  PROVE  /\ Mod(p) \in Moduli
         /\ Ring(p) = Z(Mod(p))
         /\ Ring(p) \subseteq Word
         /\ 0 \in Ring(p) /\ Unencodable \notin Ring(p)
         /\ \A literal \in Literals : Encoded(p, literal) \in Ring(p) \cup {Unencodable}
<1>1. Format(p) \in Formats
  <2>1. IsLaunch(launch)
    BY ProtocolAssumption
  <2> QED BY <2>1 DEF IsLaunch, Format
<1>2. /\ Mod(p) \in Moduli
      /\ \A literal \in Literals : Encoded(p, literal) \in Ring(p) \cup {Unencodable}
  BY <1>1, FormatAssumption DEF Mod, Encoded, Ring
<1>3. PICK n \in Moduli : n = Mod(p)
  BY <1>2
<1>4. Ring(p) = Z(n)
  BY <1>3 DEF Ring
<1>5. Z(n) \subseteq Word
  <2>1. /\ n \in Nat \ {0} /\ WordSize \in Nat \ {0}
        /\ WordSize \div n \in Int /\ WordSize = n * (WordSize \div n) + 0
    BY Division, WordAssumption DEF Moduli
  <2>2. PICK k \in Int : WordSize = n * k
    <3> DEFINE j == WordSize \div n
    <3> HIDE DEF j
    <3>1. j \in Int /\ WordSize = n * j + 0
      BY <2>1 DEF j
    <3>2. n * j + 0 = n * j
      BY <2>1, <3>1
    <3> QED BY <3>1, <3>2
  <2>3. k >= 1
    BY <2>1, <2>2
  <2>4. n <= WordSize
    BY <2>1, <2>2, <2>3
  <2> QED BY <2>1, <2>4 DEF Z, Word
<1>6. 0 \in Ring(p)
  BY <1>4, ZZero
<1> QED BY <1>2, <1>4, <1>5, <1>6, ProtocolAssumption DEF Ring

LEMMA RingOperations ==
  ASSUME launch \in Launches, NEW p \in Party, NEW x \in Int, NEW y \in Int
  PROVE  /\ ZRaw(Mod(p), x) \in Ring(p)
         /\ ZAdd(Mod(p), x, y) \in Ring(p)
         /\ ZSub(Mod(p), x, y) \in Ring(p)
         /\ ZMul(Mod(p), x, y) \in Ring(p)
<1>1. PICK n \in Moduli : n = Mod(p) /\ Ring(p) = Z(n)
  BY RingFacts
<1>2. ZRaw(n, x) \in Z(n)
  BY ZRawIn
<1>3. ZAdd(n, x, y) \in Z(n) /\ ZSub(n, x, y) \in Z(n) /\ ZMul(n, x, y) \in Z(n)
  BY ZOperations
<1> QED BY <1>1, <1>2, <1>3

(* Words and ring elements are integers, and a ring element is reduced.    *)
LEMMA WordInt ==
  ASSUME NEW x \in Word
  PROVE  x \in Int
BY DEF Word

LEMMA RingInt ==
  ASSUME launch \in Launches, NEW p \in Party, NEW x \in Ring(p)
  PROVE  x \in Int /\ x \in Word /\ ZRaw(Mod(p), x) = x
<1>1. PICK n \in Moduli : n = Mod(p) /\ Ring(p) = Z(n) /\ Z(n) \subseteq Word
  BY RingFacts
<1>2. x \in Int /\ ZRaw(n, x) = x
  BY <1>1, ZInt
<1> QED BY <1>1, <1>2

(* The settings of a party do not change.                                  *)
LEMMA RingLasts ==
  ASSUME launch' = launch
  PROVE  \A q : /\ Mod(q)' = Mod(q) /\ Ring(q)' = Ring(q) /\ WireValue(q)' = WireValue(q)
                /\ \A v : Encoded(q, v)' = Encoded(q, v)
BY DEF WireValue, Ring, Mod, Format, Encoded

-----------------------------------------------------------------------------
(* The invariant.  Type correctness alone is not inductive: the shares a   *)
(* party kept must be as many as its inputs, and what it has put on the    *)
(* link as many words as the gates (or outputs) it puts there are going to *)
(* take back.                                                              *)
Matching(p) ==
  /\ queue[p] \in Seq(Wires(Circ(p)))
  /\ pc[p] = "sharing" => Len(kept[p]) = Len(InputsOf(Circ(p), p))
  /\ pc[p] = "opening" =>
       /\ Len(Outgoing(p)) = 2 * Len(queue[p])
       /\ \A k \in 1 .. Len(queue[p]) : Gate(p, queue[p][k]).kind = "mul"
  /\ pc[p] = "revealing" => Len(Outgoing(p)) = Len(Circ(p).outputs)

(* What there is to say of party p.                                        *)
Mine(p) ==
  /\ pc[p] \in Steps \cup {"done", "failed", "crashed"}
  /\ error[p] \in Faults
  /\ place[p] \in (Nat \ {0}) \X (Nat \ {0})
  /\ kept[p] \in Seq(Ring(p))
  /\ wires[p] \in [Wires(Circ(p)) -> WireValue(p)]
  /\ outputs[p] \in Seq(Ring(p))
  /\ transcript[p] \in [rounds : Nat, sent : Nat, received : Nat]
  /\ Matching(p)

Shaped ==
  /\ pc = [p \in Party |-> pc[p]]
  /\ error = [p \in Party |-> error[p]]
  /\ place = [p \in Party |-> place[p]]
  /\ queue = [p \in Party |-> queue[p]]
  /\ kept = [p \in Party |-> kept[p]]
  /\ DOMAIN wires = Party
  /\ outputs = [p \in Party |-> outputs[p]]
  /\ transcript = [p \in Party |-> transcript[p]]

ProtocolInv ==
  /\ launch \in Launches
  /\ ExchangeTypeOK
  /\ Answered
  /\ Shaped
  /\ \A p \in Party : Mine(p)

LEMMA InvTypeOK == ProtocolInv => TypeOK
<1> SUFFICES ASSUME ProtocolInv PROVE TypeOK
  OBVIOUS
<1>1. /\ pc \in [Party -> Steps \cup {"done", "failed", "crashed"}]
      /\ error \in [Party -> Faults]
      /\ place \in [Party -> (Nat \ {0}) \X (Nat \ {0})]
      /\ transcript \in [Party -> [rounds : Nat, sent : Nat, received : Nat]]
  BY DEF ProtocolInv, Shaped, Mine
<1>2. /\ DOMAIN wires = Party
      /\ \A p \in Party : wires[p] \in [Wires(Circ(p)) -> WireValue(p)]
  BY DEF ProtocolInv, Shaped, Mine
<1>w. /\ \A p \in Party : kept[p] \in Seq(Ring(p)) /\ outputs[p] \in Seq(Ring(p))
      /\ kept \in [Party -> Seq(Word)] /\ outputs \in [Party -> Seq(Word)]
  <2>1. ASSUME NEW p \in Party
        PROVE  /\ kept[p] \in Seq(Ring(p)) /\ outputs[p] \in Seq(Ring(p))
               /\ kept[p] \in Seq(Word) /\ outputs[p] \in Seq(Word)
    <3>1. kept[p] \in Seq(Ring(p)) /\ outputs[p] \in Seq(Ring(p))
      BY DEF ProtocolInv, Mine
    <3>2. Ring(p) \subseteq Word
      BY RingFacts DEF ProtocolInv
    <3> HIDE DEF Ring, Word
    <3> QED BY <3>1, <3>2
  <2> QED BY <2>1 DEF ProtocolInv, Shaped
<1>3. queue \in [Party -> Seq(Nat \ {0})]
  <2>1. ASSUME NEW p \in Party PROVE queue[p] \in Seq(Nat \ {0})
    <3>1. queue[p] \in Seq(Wires(Circ(p)))
      BY DEF ProtocolInv, Mine, Matching
    <3>2. Wires(Circ(p)) \subseteq Nat \ {0}
      BY DEF Wires
    <3> QED BY <3>1, <3>2
  <2> QED BY <2>1 DEF ProtocolInv, Shaped
<1> QED BY <1>1, <1>2, <1>3, <1>w DEF ProtocolInv, TypeOK

(* What a launch provides.                                                 *)
LEMMA LaunchFacts ==
  ASSUME launch \in Launches, NEW p \in Party
  PROVE  /\ IsCircuit(Circ(p))
         /\ \A w \in Wires(Circ(p)) :
              /\ WellFormedGate(Circ(p), w)
              /\ Gate(p, w).kind = "const" => Gate(p, w).literal \in Literals
              /\ (Gate(p, w).kind = "input" /\ Gate(p, w).owner = p)
                    => launch.input[p][w] \in Literals \cup {Missing}
         /\ launch.deal[p].triples \in Seq([1 .. 5 -> Ring(p)])
         /\ Len(launch.deal[p].triples) >= Circ(p).triples
         /\ Circ(p).triples \in Nat
         /\ Circ(p).outputs \in Seq(Wires(Circ(p)))
         /\ \A k \in 1 .. Len(Circ(p).outputs) : Gate(p, Circ(p).outputs[k]).kind = "output"
<1>1. IsLaunch(launch)
  BY ProtocolAssumption
<1>2. /\ IsCircuit(Circ(p))
      /\ launch.deal[p].triples \in Seq([1 .. 5 -> Ring(p)])
      /\ Len(launch.deal[p].triples) >= Circ(p).triples
  BY <1>1 DEF IsLaunch, Circ, Ring, Mod, Format
<1>3. \A w \in Wires(Circ(p)) :
        /\ Gate(p, w).kind = "const" => Gate(p, w).literal \in Literals
        /\ (Gate(p, w).kind = "input" /\ Gate(p, w).owner = p)
              => launch.input[p][w] \in Literals \cup {Missing}
  BY <1>1 DEF IsLaunch, Circ, Gate
<1>4. /\ \A w \in Wires(Circ(p)) : WellFormedGate(Circ(p), w)
      /\ Circ(p).triples \in Nat
      /\ Circ(p).outputs \in Seq({w \in Wires(Circ(p)) : Circ(p).gates[w].kind = "output"})
  BY <1>2 DEF IsCircuit
<1>5. /\ Circ(p).outputs \in Seq(Wires(Circ(p)))
      /\ \A k \in 1 .. Len(Circ(p).outputs) : Gate(p, Circ(p).outputs[k]).kind = "output"
  BY <1>4 DEF Gate
<1> QED BY <1>2, <1>3, <1>4, <1>5

LEMMA InputFacts ==
  ASSUME launch \in Launches, NEW p \in Party, NEW q \in Party
  PROVE  /\ InputsOf(Circ(p), q) \in Seq(Wires(Circ(p)))
         /\ \A k \in 1 .. Len(InputsOf(Circ(p), q)) :
              /\ Gate(p, InputsOf(Circ(p), q)[k]).kind = "input"
              /\ Gate(p, InputsOf(Circ(p), q)[k]).owner = q
<1>1. IsCircuit(Circ(p))
  BY LaunchFacts
<1>2. InputsOf(Circ(p), q) \in Seq({w \in Wires(Circ(p)) :
        Circ(p).gates[w].kind = "input" /\ Circ(p).gates[w].owner = q})
  BY <1>1 DEF IsCircuit
<1> QED BY <1>2 DEF Gate

LEMMA OperandFacts ==
  ASSUME launch \in Launches, NEW p \in Party, NEW w \in Wires(Circ(p))
  PROVE  /\ Len(Gate(p, w).args) \in Nat
         /\ \A k \in 1 .. Len(Gate(p, w).args) : Gate(p, w).args[k] \in Wires(Circ(p))
         /\ Gate(p, w).kind \in {"add", "mul"} => Len(Gate(p, w).args) = 2
         /\ Gate(p, w).kind = "output" => Len(Gate(p, w).args) = 1
         /\ Gate(p, w).kind = "mul" => Gate(p, w).triple \in 1 .. Circ(p).triples
<1>1. WellFormedGate(Circ(p), w)
  BY LaunchFacts
<1>2. Gate(p, w).args \in Seq(1 .. w - 1)
  BY <1>1 DEF WellFormedGate, Gate
<1>3. \A v \in 1 .. w - 1 : v \in Wires(Circ(p))
  BY DEF Wires
<1>4. /\ Gate(p, w).kind \in {"add", "mul"} => Len(Gate(p, w).args) = 2
      /\ Gate(p, w).kind = "output" => Len(Gate(p, w).args) = 1
      /\ Gate(p, w).kind = "mul" => Gate(p, w).triple \in 1 .. Circ(p).triples
  BY <1>1 DEF WellFormedGate, Gate
<1>5. /\ Len(Gate(p, w).args) \in Nat
      /\ \A k \in 1 .. Len(Gate(p, w).args) : Gate(p, w).args[k] \in 1 .. w - 1
  BY <1>2, Elements
<1> QED BY <1>3, <1>4, <1>5

LEMMA TripleFacts ==
  ASSUME launch \in Launches, NEW p \in Party, NEW w \in Wires(Circ(p)),
         Gate(p, w).kind = "mul"
  PROVE  launch.deal[p].triples[Gate(p, w).triple] \in [1 .. 5 -> Ring(p)]
<1>1. Gate(p, w).triple \in 1 .. Circ(p).triples
  BY OperandFacts
<1>2. /\ launch.deal[p].triples \in Seq([1 .. 5 -> Ring(p)])
      /\ Len(launch.deal[p].triples) >= Circ(p).triples /\ Circ(p).triples \in Nat
  BY LaunchFacts
<1> QED BY <1>1, <1>2, Elements

LEMMA TripleHalves ==
  ASSUME launch \in Launches, NEW p \in Party, NEW w \in Wires(Circ(p)),
         Gate(p, w).kind = "mul"
  PROVE  Triple(p, w).a \in Ring(p) /\ Triple(p, w).b \in Ring(p) /\ Triple(p, w).c \in Ring(p)
<1>1. PICK n \in Moduli : n = Mod(p) /\ Ring(p) = Z(n)
  BY RingFacts
<1>2. PICK r \in [1 .. 5 -> Z(n)] : r = launch.deal[p].triples[Gate(p, w).triple]
  BY <1>1, TripleFacts
<1>3. /\ Dealt(n, p, r).a \in Z(n) /\ Dealt(n, p, r).b \in Z(n) /\ Dealt(n, p, r).c \in Z(n)
  BY DealtHalves DEF Party
<1> QED BY <1>1, <1>2, <1>3 DEF Triple

(* A wire that can be read carries a share.                                *)
LEMMA WireFacts ==
  ASSUME launch \in Launches, TypeOK, NEW p \in Party, NEW w \in Wires(Circ(p))
  PROVE  /\ WireFault(p, w) \in Faults
         /\ WireFault(p, w) = "none" => ShareOf(p, w) \in Ring(p)
<1>1. wires[p][w] \in WireValue(p)
  BY DEF TypeOK
<1>2. WireFault(p, w) = "none" =>
        /\ wires[p][w] # Unset
        /\ p = 0 /\ wires[p][w].public => Encoded(p, wires[p][w].value) # Unencodable
  BY DEF WireFault
<1>3. p = 0 \/ p = 1
  BY DEF Party
<1>4. WireFault(p, w) \in Faults
  BY DEF WireFault, Faults
<1>5. ASSUME WireFault(p, w) = "none" PROVE ShareOf(p, w) \in Ring(p)
  <2>1. CASE \E v \in Ring(p) : wires[p][w] = ShareValue(v)
    <3>1. PICK v \in Ring(p) : wires[p][w] = ShareValue(v)
      BY <2>1
    <3>2. wires[p][w].public = FALSE /\ wires[p][w].value = v
      BY <3>1 DEF ShareValue
    <3> QED BY <3>2 DEF ShareOf
  <2>2. CASE \E l \in Literals : wires[p][w] = ConstValue(l)
    <3>1. PICK l \in Literals : wires[p][w] = ConstValue(l)
      BY <2>2
    <3>2. wires[p][w].public = TRUE /\ wires[p][w].value = l
      BY <3>1 DEF ConstValue
    <3>3. Encoded(p, l) \in Ring(p) \cup {Unencodable} /\ 0 \in Ring(p)
      BY RingFacts
    <3>4. CASE p = 1
      BY <3>2, <3>3, <3>4 DEF ShareOf
    <3>5. CASE p = 0
      BY <1>2, <1>5, <3>2, <3>3, <3>5 DEF ShareOf
    <3> QED BY <1>3, <3>4, <3>5
  <2> QED BY <1>1, <1>2, <1>5, <2>1, <2>2 DEF WireValue
<1> QED BY <1>4, <1>5

LEMMA ReadFacts ==
  ASSUME launch \in Launches, TypeOK, NEW p \in Party, NEW w \in Wires(Circ(p))
  PROVE  /\ First(ReadFaults(p, w)) \in Faults
         /\ First(ReadFaults(p, w)) = "none" =>
              \A k \in 1 .. Len(Gate(p, w).args) : ShareOf(p, Gate(p, w).args[k]) \in Ring(p)
         /\ GateFault(p, w) \in Faults
         /\ GateFault(p, w) = "none" =>
              /\ Gate(p, w).kind = "mul"
              /\ ShareOf(p, Gate(p, w).args[1]) \in Ring(p)
              /\ ShareOf(p, Gate(p, w).args[2]) \in Ring(p)
<1> DEFINE n == Len(Gate(p, w).args)
           f == ReadFaults(p, w)
<1>1. n \in Nat /\ \A k \in 1 .. n : Gate(p, w).args[k] \in Wires(Circ(p))
  BY OperandFacts
<1>2. f \in [1 .. n -> Faults] /\ \A k \in 1 .. n : f[k] = WireFault(p, Gate(p, w).args[k])
  BY <1>1, WireFacts DEF ReadFaults
<1>3. First(f) \in Faults /\ (First(f) = "none" <=> \A k \in 1 .. n : f[k] = "none")
  BY <1>1, <1>2, FirstFault
<1>4. First(f) = "none" => \A k \in 1 .. n : ShareOf(p, Gate(p, w).args[k]) \in Ring(p)
  BY <1>1, <1>2, <1>3, WireFacts
<1>5. Gate(p, w).kind = "mul" => n = 2
  BY OperandFacts
<1> HIDE DEF n, f
<1>6. GateFault(p, w) = IF Gate(p, w).kind = "mul" THEN First(f) ELSE "unsupported"
  BY DEF GateFault, f
<1>7. GateFault(p, w) \in Faults
  BY <1>3, <1>6 DEF Faults
<1>8. GateFault(p, w) = "none" => Gate(p, w).kind = "mul" /\ First(f) = "none"
  BY <1>6
<1> QED BY <1>3, <1>4, <1>5, <1>7, <1>8 DEF n, f

-----------------------------------------------------------------------------
(* The steps.  Untouched says what a step of p leaves to the peer; with    *)
(* it, an action has to be looked at for the party that takes it only.     *)
Untouched(q) ==
  /\ pc'[q] = pc[q] /\ error'[q] = error[q] /\ place'[q] = place[q]
  /\ queue'[q] = queue[q] /\ kept'[q] = kept[q] /\ wires'[q] = wires[q]
  /\ outputs'[q] = outputs[q] /\ transcript'[q] = transcript[q]
  /\ sent'[q] = sent[q]

(* A step of p keeps the invariant and does at most one thing to the link. *)
Stepped(p) == ProtocolInv' /\ (ExchangeStep(p) \/ UNCHANGED exchangeVars)

LEMMA Frame ==
  ASSUME ProtocolInv, NEW p \in Party, launch' = launch,
         ExchangeStep(p) \/ UNCHANGED exchangeVars,
         Shaped', Mine(p)',
         Untouched(Peer(p))
  PROVE  Stepped(p)
<1>1. ExchangeTypeOK' /\ Answered'
  BY StepTypeOK, StepAnswered
     DEF ProtocolInv, ExchangeTypeOK, Answered, exchangeVars
<1>2. Peer(p) \in Party /\ \A q \in Party : q = p \/ q = Peer(p)
  BY DEF Peer, Party
<1>3. Mine(Peer(p))'
  <2>1. Mine(Peer(p))
    BY <1>2 DEF ProtocolInv
  <2> QED BY <2>1, RingLasts DEF Mine, Matching, Untouched, Circ, Gate, Outgoing
<1>4. \A q \in Party : Mine(q)'
  BY <1>2, <1>3
<1>5. launch' \in Launches
  BY DEF ProtocolInv
<1> QED BY <1>1, <1>4, <1>5 DEF ProtocolInv, Stepped

(* A step that fails, or ends the process, moves nothing else.             *)
LEMMA FaultTypes ==
  ASSUME ProtocolInv, NEW p \in Party
  PROVE  /\ OwnFault(p) \in Faults
         /\ OwnFault(p) = "none" =>
              \A k \in 1 .. Len(InputsOf(Circ(p), p)) :
                /\ launch.input[p][InputsOf(Circ(p), p)[k]] \in Literals
                /\ Encoded(p, launch.input[p][InputsOf(Circ(p), p)[k]]) \in Ring(p)
         /\ QueueFault(p) \in Faults
         /\ QueueFault(p) = "none" =>
              \A k \in 1 .. Len(queue[p]) : GateFault(p, queue[p][k]) = "none"
         /\ RevealFault(p) \in Faults
         /\ RevealFault(p) = "none" =>
              \A k \in 1 .. Len(Circ(p).outputs) : ShareOf(p, Source(p, k)) \in Ring(p)
<1>0. launch \in Launches /\ TypeOK
  BY InvTypeOK DEF ProtocolInv
<1>1. /\ OwnFault(p) \in Faults
      /\ OwnFault(p) = "none" =>
           \A k \in 1 .. Len(InputsOf(Circ(p), p)) :
             /\ launch.input[p][InputsOf(Circ(p), p)[k]] \in Literals
             /\ Encoded(p, launch.input[p][InputsOf(Circ(p), p)[k]]) \in Ring(p)
  <2> DEFINE mine == InputsOf(Circ(p), p)
             f == [k \in 1 .. Len(mine) |-> InputFault(p, launch.input[p][mine[k]])]
  <2>1. /\ Len(mine) \in Nat
        /\ \A k \in 1 .. Len(mine) :
             launch.input[p][mine[k]] \in Literals \cup {Missing}
    <3>1. mine \in Seq(Wires(Circ(p)))
      BY <1>0, InputFacts
    <3>2. Len(mine) \in Nat /\ \A k \in 1 .. Len(mine) : mine[k] \in Wires(Circ(p))
      BY <3>1, Elements
    <3>3. \A k \in 1 .. Len(mine) : Gate(p, mine[k]).kind = "input" /\ Gate(p, mine[k]).owner = p
      BY <1>0, InputFacts
    <3> QED BY <1>0, <3>2, <3>3, LaunchFacts
  <2>2. \A v : /\ InputFault(p, v) \in Faults
               /\ InputFault(p, v) = "none" <=> v # Missing /\ Encoded(p, v) # Unencodable
    BY DEF InputFault, Faults
  <2>3. OwnFault(p) = First(f)
    BY DEF OwnFault
  <2>4. f \in [1 .. Len(mine) -> Faults]
    BY <2>2
  <2>5. First(f) \in Faults /\ (First(f) = "none" <=> \A k \in 1 .. Len(mine) : f[k] = "none")
    BY <2>1, <2>4, FirstFault
  <2>6. First(f) = "none" => \A k \in 1 .. Len(mine) :
          /\ launch.input[p][mine[k]] # Missing
          /\ Encoded(p, launch.input[p][mine[k]]) # Unencodable
    BY <2>2, <2>5
  <2>7. \A literal \in Literals : Encoded(p, literal) \in Ring(p) \cup {Unencodable}
    BY <1>0, RingFacts
  <2> QED BY <2>1, <2>3, <2>5, <2>6, <2>7
<1>2. /\ QueueFault(p) \in Faults
      /\ QueueFault(p) = "none" =>
           \A k \in 1 .. Len(queue[p]) : GateFault(p, queue[p][k]) = "none"
  <2> DEFINE f == [k \in 1 .. Len(queue[p]) |-> GateFault(p, queue[p][k])]
  <2>1. Len(queue[p]) \in Nat /\ \A k \in 1 .. Len(queue[p]) : queue[p][k] \in Wires(Circ(p))
    BY Elements DEF ProtocolInv, Mine, Matching
  <2>2. f \in [1 .. Len(queue[p]) -> Faults]
    BY <1>0, <2>1, ReadFacts
  <2>3. QueueFault(p) = First(f)
    BY DEF QueueFault
  <2> QED BY <2>1, <2>2, <2>3, FirstFault
<1>3. /\ RevealFault(p) \in Faults
      /\ RevealFault(p) = "none" =>
           \A k \in 1 .. Len(Circ(p).outputs) : ShareOf(p, Source(p, k)) \in Ring(p)
  <2> DEFINE n == Len(Circ(p).outputs)
             f == [k \in 1 .. n |-> WireFault(p, Source(p, k))]
  <2>1. n \in Nat /\ \A k \in 1 .. n : Source(p, k) \in Wires(Circ(p))
    <3>1. /\ n \in Nat
          /\ \A k \in 1 .. n : /\ Circ(p).outputs[k] \in Wires(Circ(p))
                               /\ Gate(p, Circ(p).outputs[k]).kind = "output"
      BY <1>0, LaunchFacts, Elements
    <3>2. ASSUME NEW k \in 1 .. n PROVE Source(p, k) \in Wires(Circ(p))
      BY <1>0, <3>1, OperandFacts DEF Source
    <3> QED BY <3>1, <3>2
  <2>2. f \in [1 .. n -> Faults]
    BY <1>0, <2>1, WireFacts
  <2>3. RevealFault(p) = First(f)
    BY DEF RevealFault
  <2> HIDE DEF n
  <2>4. First(f) \in Faults /\ (First(f) = "none" <=> \A k \in 1 .. n : f[k] = "none")
    BY <2>1, <2>2, FirstFault
  <2>5. First(f) = "none" => \A k \in 1 .. n : ShareOf(p, Source(p, k)) \in Ring(p)
    BY <1>0, <2>1, <2>4, WireFacts
  <2> QED BY <2>3, <2>4, <2>5 DEF n
<1> QED BY <1>1, <1>2, <1>3

LEMMA QuietStep ==
  ASSUME ProtocolInv, NEW p \in Party,
         \/ RefuseInputs(p) \/ SkipRound(p) \/ RefuseRound(p) \/ RefuseReveal(p)
         \/ PeerLost(p) \/ Exit(p) \/ Kill(p)
  PROVE  Stepped(p)
<1> USE DEF Shaped, Untouched, Mine, Matching, Circ, Gate, Outgoing, computation, exchangeVars
<1>0. /\ Shaped /\ Mine(p) /\ Peer(p) # p /\ Peer(p) \in Party
      /\ ExchangeTypeOK
  BY Peers DEF ProtocolInv
<1>f. OwnFault(p) \in Faults /\ QueueFault(p) \in Faults /\ RevealFault(p) \in Faults
  BY FaultTypes
<1>1. CASE RefuseInputs(p)
  <2>1. launch' = launch /\ Shaped' /\ Untouched(Peer(p))
    BY <1>1, <1>0 DEF RefuseInputs, Fail
  <2>2. Mine(p)'
    BY <1>1, <1>0, <1>f, RingLasts DEF RefuseInputs, Fail
  <2> QED BY <1>1, <2>1, <2>2, Frame DEF RefuseInputs, Fail
<1>2. CASE SkipRound(p)
  <2>1. launch' = launch /\ Shaped' /\ Untouched(Peer(p))
    BY <1>2, <1>0 DEF SkipRound, NextRound
  <2>2. Mine(p)'
    BY <1>2, <1>0, RingLasts DEF SkipRound, NextRound
  <2> QED BY <1>2, <2>1, <2>2, Frame DEF SkipRound, NextRound
<1>3. CASE RefuseRound(p)
  <2>1. launch' = launch /\ Shaped' /\ Untouched(Peer(p))
    BY <1>3, <1>0 DEF RefuseRound, Fail
  <2>2. Mine(p)'
    BY <1>3, <1>0, <1>f, RingLasts DEF RefuseRound, Fail
  <2> QED BY <1>3, <2>1, <2>2, Frame DEF RefuseRound, Fail
<1>4. CASE RefuseReveal(p)
  <2>1. launch' = launch /\ Shaped' /\ Untouched(Peer(p))
    BY <1>4, <1>0 DEF RefuseReveal, Fail
  <2>2. Mine(p)'
    BY <1>4, <1>0, <1>f, RingLasts DEF RefuseReveal, Fail
  <2> QED BY <1>4, <2>1, <2>2, Frame DEF RefuseReveal, Fail
<1>5. CASE PeerLost(p)
  <2>1. launch' = launch /\ Shaped' /\ Untouched(Peer(p))
    BY <1>5, <1>0 DEF PeerLost, Fail, Abort, ExchangeStep, Faults
  <2>2. Mine(p)'
    BY <1>5, <1>0, RingLasts DEF PeerLost, Fail, Abort, ExchangeStep, Faults
  <2> QED BY <1>5, <2>1, <2>2, Frame DEF PeerLost, Fail, Abort, ExchangeStep, Faults
<1>6. CASE Exit(p)
  <2>1. launch' = launch /\ Shaped' /\ Untouched(Peer(p))
    BY <1>6, <1>0 DEF Exit, Close, ExchangeStep
  <2>2. Mine(p)'
    BY <1>6, <1>0, RingLasts DEF Exit, Close, ExchangeStep
  <2> QED BY <1>6, <2>1, <2>2, Frame DEF Exit, Close, ExchangeStep
<1>7. CASE Kill(p)
  <2>1. launch' = launch /\ Shaped' /\ Untouched(Peer(p))
    BY <1>7, <1>0 DEF Kill, Goto, Crash, ExchangeStep
  <2>2. Mine(p)'
    BY <1>7, <1>0, RingLasts DEF Kill, Goto, Crash, ExchangeStep
  <2> QED BY <1>7, <2>1, <2>2, Frame DEF Kill, Goto, Crash, ExchangeStep
<1> QED BY <1>1, <1>2, <1>3, <1>4, <1>5, <1>6, <1>7

(* The turn of a gate.                                                     *)
LEMMA TurnStep ==
  ASSUME ProtocolInv, NEW p \in Party, pc[p] = "layer", Step(p),
         UNCHANGED <<pc, error>>,
         queue' = [q \in Party |-> queue'[q]],
         queue'[p] \in Seq(Wires(Circ(p))),
         queue'[Peer(p)] = queue[Peer(p)],
         DOMAIN wires' = Party,
         wires'[p] \in [Wires(Circ(p)) -> WireValue(p)],
         wires'[Peer(p)] = wires[Peer(p)]
  PROVE  Stepped(p)
<1>1. /\ Shaped /\ Mine(p) /\ Peer(p) # p /\ Peer(p) \in Party
  BY Peers DEF ProtocolInv
<1>2. /\ place'[p] = <<place[p][1], place[p][2] + 1>>
      /\ place'[Peer(p)] = place[Peer(p)]
      /\ place' = [q \in Party |-> place'[q]]
  BY <1>1 DEF Step, Shaped
<1>3. place[p] \in (Nat \ {0}) \X (Nat \ {0})
  BY <1>1 DEF Mine
<1>4. place'[p] \in (Nat \ {0}) \X (Nat \ {0})
  BY <1>2, <1>3
<1>5. launch' = launch /\ Shaped' /\ Untouched(Peer(p))
  BY <1>1, <1>2 DEF Step, Shaped, Untouched, exchangeVars
<1>6. Mine(p)'
  BY <1>1, <1>4, RingLasts DEF Step, Mine, Matching, Circ
<1> QED BY <1>5, <1>6, Frame DEF Step

LEMMA GateStep ==
  ASSUME ProtocolInv, NEW p \in Party, NEW w \in Wires(Circ(p)),
         \/ PassGate(p, w) \/ EvalConst(p, w) \/ EvalAdd(p, w)
         \/ RefuseAdd(p, w) \/ QueueGate(p, w)
  PROVE  Stepped(p)
<1>0. /\ Shaped /\ Mine(p) /\ Peer(p) # p /\ Peer(p) \in Party
      /\ ExchangeTypeOK /\ launch \in Launches /\ TypeOK
  BY Peers, InvTypeOK DEF ProtocolInv
<1>q. queue = [q \in Party |-> queue[q]] /\ queue[p] \in Seq(Wires(Circ(p)))
  BY <1>0 DEF Shaped, Mine, Matching
<1>w. DOMAIN wires = Party /\ wires[p] \in [Wires(Circ(p)) -> WireValue(p)]
  BY <1>0 DEF Shaped, Mine
<1>1. ASSUME NEW value \in WireValue(p), Assign(p, w, value), pc[p] = "layer"
      PROVE  Stepped(p)
  <2>1. /\ DOMAIN wires' = Party
        /\ wires'[p] \in [Wires(Circ(p)) -> WireValue(p)]
        /\ wires'[Peer(p)] = wires[Peer(p)]
    BY <1>0, <1>1, <1>w DEF Assign
  <2> QED BY <1>1, <1>q, <2>1, TurnStep DEF Assign
<1>2. CASE PassGate(p, w)
  <2>1. UNCHANGED <<pc, error, queue, wires>> /\ pc[p] = "layer" /\ Step(p)
    BY <1>2 DEF PassGate, Turn, InRound
  <2> QED BY <1>q, <1>w, <2>1, TurnStep
<1>3. CASE EvalConst(p, w)
  <2>1. ConstValue(Gate(p, w).literal) \in WireValue(p)
    BY <1>0, <1>3, LaunchFacts DEF EvalConst, WireValue
  <2> QED BY <1>1, <1>3, <2>1 DEF EvalConst, Turn, InRound
<1>4. CASE EvalAdd(p, w)
  <2>1. ShareOf(p, Gate(p, w).args[1]) \in Ring(p) /\ ShareOf(p, Gate(p, w).args[2]) \in Ring(p)
    BY <1>0, <1>4, ReadFacts, OperandFacts DEF EvalAdd
  <2> DEFINE sum == ZAdd(Mod(p), ShareOf(p, Gate(p, w).args[1]), ShareOf(p, Gate(p, w).args[2]))
  <2>2. sum \in Ring(p)
    BY <1>0, <2>1, RingInt, RingOperations
  <2>3. Assign(p, w, ShareValue(sum)) /\ pc[p] = "layer"
    BY <1>4 DEF EvalAdd, Turn, InRound
  <2> HIDE DEF sum
  <2>4. ShareValue(sum) \in WireValue(p)
    BY <2>2 DEF WireValue
  <2> QED BY <1>1, <2>3, <2>4
<1>5. CASE RefuseAdd(p, w)
  <2> USE DEF Shaped, Untouched, Mine, Matching, Circ, Outgoing, computation, exchangeVars
  <2>1. First(ReadFaults(p, w)) \in Faults
    BY <1>0, ReadFacts
  <2>2. launch' = launch /\ Shaped' /\ Untouched(Peer(p))
    BY <1>0, <1>5 DEF RefuseAdd, Fail
  <2>3. Mine(p)'
    BY <1>0, <1>5, <2>1, RingLasts DEF RefuseAdd, Fail
  <2> QED BY <1>5, <2>2, <2>3, Frame DEF RefuseAdd
<1>6. CASE QueueGate(p, w)
  <2>1. /\ queue' = [queue EXCEPT ![p] = Append(@, w)]
        /\ UNCHANGED <<pc, error, wires>> /\ pc[p] = "layer" /\ Step(p)
    BY <1>6 DEF QueueGate, Turn, InRound
  <2>2. /\ queue' = [q \in Party |-> queue'[q]]
        /\ queue'[p] \in Seq(Wires(Circ(p)))
        /\ queue'[Peer(p)] = queue[Peer(p)]
    <3>1. Append(queue[p], w) \in Seq(Wires(Circ(p)))
      BY <1>q
    <3>2. DOMAIN queue = Party
      BY <1>q
    <3>3. queue' = [queue EXCEPT ![p] = Append(queue[p], w)]
      BY <2>1
    <3> QED BY <1>0, <3>1, <3>2, <3>3
  <2> QED BY <1>w, <2>1, <2>2, TurnStep
<1> QED BY <1>2, <1>3, <1>4, <1>5, <1>6

(* A message of a party is a sequence of words, and so is the answer to    *)
(* it.                                                                     *)
LEMMA SendStep ==
  ASSUME ExchangeTypeOK, NEW p \in Party, NEW payload \in Seq(Word), Call(p, payload)
  PROVE  /\ ExchangeStep(p)
         /\ Outgoing(p)' = payload
         /\ sent'[Peer(p)] = sent[Peer(p)]
<1>1. payload \in Message
  BY ProtocolAssumption
<1>2. sent[p] \in Seq(Message) /\ sent'[p] = Append(sent[p], payload)
  BY DEF Call, ExchangeTypeOK
<1>3. Len(sent'[p]) = Len(sent[p]) + 1 /\ sent'[p][Len(sent[p]) + 1] = payload
  BY <1>1, <1>2
<1>4. sent'[Peer(p)] = sent[Peer(p)]
  BY Peers DEF Call, ExchangeTypeOK
<1> QED BY <1>1, <1>3, <1>4 DEF ExchangeStep, Outgoing

LEMMA ReturnStep ==
  ASSUME ExchangeTypeOK, Answered, NEW p \in Party, Return(p)
  PROVE  /\ ExchangeStep(p)
         /\ UNCHANGED sent
         /\ Incoming(p) \in Seq(Word)
         /\ Outgoing(p) \in Seq(Word)
<1>1. Message = Seq(Word) /\ Peer(p) \in Party
  BY ProtocolAssumption, Peers
<1>2. /\ sent[p] \in Seq(Seq(Word)) /\ sent[Peer(p)] \in Seq(Seq(Word))
      /\ got[p] \in Seq(Seq(Word))
  BY <1>1 DEF ExchangeTypeOK
<1>3. Len(got[p]) \in Nat /\ Len(got[p]) < Len(sent[Peer(p)])
  BY <1>2 DEF Return, HasMail
<1>4. Incoming(p) \in Seq(Word)
  BY <1>2, <1>3, Elements DEF Incoming
<1>5. Len(sent[p]) = Len(got[p]) + 1
  BY DEF Return, Answered
<1>6. Outgoing(p) \in Seq(Word)
  BY <1>2, <1>3, <1>5, Elements DEF Outgoing
<1> QED BY <1>4, <1>6 DEF ExchangeStep, Return

LEMMA AccountStep ==
  ASSUME Shaped, NEW p \in Party, Mine(p), Account(p),
         Incoming(p) \in Seq(Word), Outgoing(p) \in Seq(Word)
  PROVE  /\ transcript' = [q \in Party |-> transcript'[q]]
         /\ transcript'[p] \in [rounds : Nat, sent : Nat, received : Nat]
         /\ \A q \in Party : q # p => transcript'[q] = transcript[q]
<1>1. Len(Incoming(p)) \in Nat /\ Len(Outgoing(p)) \in Nat
  BY Elements
<1>2. transcript[p] \in [rounds : Nat, sent : Nat, received : Nat]
  BY DEF Mine
<1>3. /\ transcript[p].rounds + 1 \in Nat
      /\ transcript[p].sent + Len(Outgoing(p)) \in Nat
      /\ transcript[p].received + Len(Incoming(p)) \in Nat
  BY <1>1, <1>2
<1>4. DOMAIN transcript = Party
  BY DEF Shaped
<1> DEFINE sum == [rounds   |-> transcript[p].rounds + 1,
                   sent     |-> transcript[p].sent + Len(Outgoing(p)),
                   received |-> transcript[p].received + Len(Incoming(p))]
<1>5. transcript' = [transcript EXCEPT ![p] = sum]
  BY DEF Account
<1>6. sum \in [rounds : Nat, sent : Nat, received : Nat]
  BY <1>3
<1> HIDE DEF sum
<1> QED BY <1>4, <1>5, <1>6

-----------------------------------------------------------------------------
(* The three calls.                                                        *)

(* Both halves of an input are reduced, whatever word was drawn.           *)
LEMMA DrawnHalves ==
  ASSUME launch \in Launches, NEW p \in Party, NEW x \in Ring(p), NEW mask \in Word
  PROVE  /\ Share(Mod(p), x, ZRaw(Mod(p), mask))[1] \in Ring(p)
         /\ Share(Mod(p), x, ZRaw(Mod(p), mask))[2] \in Ring(p)
         /\ ZAdd(Mod(p), Share(Mod(p), x, ZRaw(Mod(p), mask))[1],
                         Share(Mod(p), x, ZRaw(Mod(p), mask))[2]) = x
<1>1. PICK n \in Moduli : n = Mod(p) /\ Ring(p) = Z(n)
  BY RingFacts
<1>2. PICK drawn \in Z(n) : drawn = ZRaw(n, mask)
  BY WordInt, ZRawIn
<1>3. /\ Share(n, x, drawn)[1] \in Z(n) /\ Share(n, x, drawn)[2] \in Z(n)
      /\ ZAdd(n, Share(n, x, drawn)[1], Share(n, x, drawn)[2]) = x
  BY <1>1, HalvesRecombine
<1> QED BY <1>1, <1>2, <1>3

LEMMA ShareStep ==
  ASSUME ProtocolInv, NEW p \in Party, ShareInputs(p)
  PROVE  Stepped(p)
<1> DEFINE mine == InputsOf(Circ(p), p)
<1>0. /\ Shaped /\ Mine(p) /\ Peer(p) # p /\ Peer(p) \in Party
      /\ ExchangeTypeOK /\ launch \in Launches
  BY Peers DEF ProtocolInv
<1>1. /\ Len(mine) \in Nat
      /\ \A k \in 1 .. Len(mine) : /\ launch.input[p][mine[k]] \in Literals
                                  /\ Encoded(p, launch.input[p][mine[k]]) \in Ring(p)
  BY <1>0, InputFacts, FaultTypes, Elements DEF ShareInputs
<1>2. PICK mask \in [1 .. Len(mine) -> Masks] :
        LET halves == [k \in 1 .. Len(mine) |->
                         Share(Mod(p), Encoded(p, launch.input[p][mine[k]]), ZRaw(Mod(p), mask[k]))]
        IN  /\ Call(p, [k \in 1 .. Len(mine) |-> halves[k][1]])
            /\ kept' = [kept EXCEPT ![p] = [k \in 1 .. Len(mine) |-> halves[k][2]]]
  BY DEF ShareInputs
<1> DEFINE half(k) == Share(Mod(p), Encoded(p, launch.input[p][mine[k]]), ZRaw(Mod(p), mask[k]))
           first  == [k \in 1 .. Len(mine) |-> half(k)[1]]
           second == [k \in 1 .. Len(mine) |-> half(k)[2]]
<1>3. Call(p, first) /\ kept' = [kept EXCEPT ![p] = second]
  BY <1>2
<1>4. \A k \in 1 .. Len(mine) : half(k)[1] \in Ring(p) /\ half(k)[2] \in Ring(p)
  <2> TAKE k \in 1 .. Len(mine)
  <2>1. Encoded(p, launch.input[p][mine[k]]) \in Ring(p) /\ mask[k] \in Word
    BY <1>1, ProtocolAssumption
  <2> QED BY <1>0, <2>1, DrawnHalves
<1> HIDE DEF half
<1>5. first \in Seq(Word) /\ second \in Seq(Ring(p)) /\ Len(second) = Len(mine)
  <2>1. first \in [1 .. Len(mine) -> Word] /\ second \in [1 .. Len(mine) -> Ring(p)]
    BY <1>0, <1>4, RingFacts
  <2> HIDE DEF first, second
  <2> QED BY <1>1, <2>1
<1> HIDE DEF first, second
<1>6. ExchangeStep(p) /\ sent'[Peer(p)] = sent[Peer(p)]
  BY <1>0, <1>3, <1>5, SendStep
<1>7. /\ pc' = [pc EXCEPT ![p] = "sharing"]
      /\ UNCHANGED <<error, launch, place, queue, wires, outputs, transcript>>
  BY DEF ShareInputs, Goto
<1>8. launch' = launch /\ Shaped' /\ Untouched(Peer(p))
  BY <1>0, <1>3, <1>6, <1>7 DEF Shaped, Untouched
<1>9. kept'[p] = second /\ pc'[p] = "sharing"
  BY <1>0, <1>3, <1>7 DEF Shaped
<1>10. Mine(p)'
  BY <1>0, <1>5, <1>7, <1>9, RingLasts DEF Mine, Matching, Circ, Steps
<1> QED BY <1>6, <1>8, <1>10, Frame

LEMMA OpenStep ==
  ASSUME ProtocolInv, NEW p \in Party, OpenRound(p)
  PROVE  Stepped(p)
<1> DEFINE n == Len(queue[p])
           payload == Openings(p)
<1>0. /\ Shaped /\ Mine(p) /\ Peer(p) # p /\ Peer(p) \in Party
      /\ ExchangeTypeOK /\ launch \in Launches /\ TypeOK
  BY Peers, InvTypeOK DEF ProtocolInv
<1>1. n \in Nat /\ \A k \in 1 .. n : queue[p][k] \in Wires(Circ(p))
  BY <1>0, Elements DEF Mine, Matching
<1>2. ASSUME NEW k \in 1 .. n
      PROVE  /\ Gate(p, queue[p][k]).kind = "mul"
             /\ ShareOf(p, Gate(p, queue[p][k]).args[1]) \in Ring(p)
             /\ ShareOf(p, Gate(p, queue[p][k]).args[2]) \in Ring(p)
             /\ Triple(p, queue[p][k]).a \in Ring(p)
             /\ Triple(p, queue[p][k]).b \in Ring(p)
  <2> DEFINE w == queue[p][k]
  <2>1. w \in Wires(Circ(p)) /\ GateFault(p, w) = "none"
    BY <1>1, <1>2, FaultTypes DEF OpenRound
  <2>2. /\ Gate(p, w).kind = "mul"
        /\ ShareOf(p, Gate(p, w).args[1]) \in Ring(p)
        /\ ShareOf(p, Gate(p, w).args[2]) \in Ring(p)
    BY <1>0, <2>1, ReadFacts
  <2>3. Triple(p, w).a \in Ring(p) /\ Triple(p, w).b \in Ring(p)
    BY <1>0, <2>1, <2>2, TripleHalves
  <2> QED BY <2>2, <2>3
<1>3. payload \in [1 .. 2 * n -> Word]
  <2>1. ASSUME NEW j \in 1 .. 2 * n
        PROVE  payload[j] \in Word
    <3> DEFINE k == (j + 1) \div 2
               w == queue[p][k]
               x == ShareOf(p, Gate(p, w).args[1])
               y == ShareOf(p, Gate(p, w).args[2])
               t == Triple(p, w)
    <3>1. k \in 1 .. n /\ 2 - (j % 2) \in {1, 2}
      BY <1>1, <2>1
    <3>2. payload[j] = Masked(Mod(p), x, y, t)[2 - (j % 2)]
      BY <2>1 DEF Openings
    <3>3. x \in Ring(p) /\ y \in Ring(p) /\ t.a \in Ring(p) /\ t.b \in Ring(p)
      BY <1>2, <3>1
    <3> HIDE DEF x, y, t
    <3>4. ZSub(Mod(p), x, t.a) \in Ring(p) /\ ZSub(Mod(p), y, t.b) \in Ring(p)
      BY <1>0, <3>3, RingInt, RingOperations
    <3>5. Masked(Mod(p), x, y, t)[1] \in Word /\ Masked(Mod(p), x, y, t)[2] \in Word
      BY <1>0, <3>4, RingInt DEF Masked
    <3> QED BY <3>1, <3>2, <3>5
  <2>2. DOMAIN payload = 1 .. 2 * n /\ payload = [j \in 1 .. 2 * n |-> payload[j]]
    BY DEF Openings
  <2> HIDE DEF payload
  <2> QED BY <2>1, <2>2
<1>4. payload \in Seq(Word) /\ Len(payload) = 2 * n
  <2> HIDE DEF payload
  <2>1. 2 * n \in Nat
    BY <1>1
  <2> QED BY <1>3, <2>1
<1>5. Call(p, payload)
  BY DEF OpenRound
<1> HIDE DEF payload
<1>6. ExchangeStep(p) /\ sent'[Peer(p)] = sent[Peer(p)] /\ Outgoing(p)' = payload
  BY <1>0, <1>4, <1>5, SendStep
<1>7. /\ pc' = [pc EXCEPT ![p] = "opening"]
      /\ UNCHANGED <<error, launch, place, queue, kept, wires, outputs, transcript>>
  BY DEF OpenRound, Goto, computation
<1>8. launch' = launch /\ Shaped' /\ Untouched(Peer(p))
  BY <1>0, <1>6, <1>7 DEF Shaped, Untouched
<1>9. pc'[p] = "opening"
  BY <1>0, <1>7 DEF Shaped
<1>10. Matching(p)'
  BY <1>0, <1>2, <1>4, <1>6, <1>7, <1>9 DEF Mine, Matching, Circ, Gate
<1>11. Mine(p)'
  BY <1>0, <1>7, <1>9, <1>10, RingLasts DEF Mine, Circ, Steps
<1> QED BY <1>6, <1>8, <1>11, Frame

LEMMA RevealStep ==
  ASSUME ProtocolInv, NEW p \in Party, RevealOutputs(p)
  PROVE  Stepped(p)
<1> DEFINE n == Len(Circ(p).outputs)
           payload == [k \in 1 .. n |-> ShareOf(p, Source(p, k))]
<1>0. /\ Shaped /\ Mine(p) /\ Peer(p) # p /\ Peer(p) \in Party
      /\ ExchangeTypeOK /\ launch \in Launches
  BY Peers DEF ProtocolInv
<1>1. n \in Nat /\ \A k \in 1 .. n : ShareOf(p, Source(p, k)) \in Ring(p)
  BY <1>0, LaunchFacts, FaultTypes, Elements DEF RevealOutputs
<1>2. payload \in Seq(Word) /\ Len(payload) = n
  <2>1. payload \in [1 .. n -> Word]
    BY <1>0, <1>1, RingInt
  <2> HIDE DEF payload
  <2> QED BY <1>1, <2>1
<1>3. Call(p, payload)
  BY DEF RevealOutputs
<1> HIDE DEF payload
<1>4. ExchangeStep(p) /\ sent'[Peer(p)] = sent[Peer(p)] /\ Outgoing(p)' = payload
  BY <1>0, <1>2, <1>3, SendStep
<1>5. /\ pc' = [pc EXCEPT ![p] = "revealing"]
      /\ UNCHANGED <<error, launch, place, queue, kept, wires, outputs, transcript>>
  BY DEF RevealOutputs, Goto, computation
<1>6. launch' = launch /\ Shaped' /\ Untouched(Peer(p))
  BY <1>0, <1>4, <1>5 DEF Shaped, Untouched
<1>7. pc'[p] = "revealing"
  BY <1>0, <1>5 DEF Shaped
<1>8. Mine(p)'
  BY <1>0, <1>2, <1>4, <1>5, <1>7, RingLasts DEF Mine, Matching, Circ, Steps
<1> QED BY <1>4, <1>6, <1>8, Frame

-----------------------------------------------------------------------------
(* The three returns.                                                      *)
LEMMA OpenedRing ==
  ASSUME launch \in Launches, NEW p \in Party,
         Incoming(p) \in Seq(Word), Outgoing(p) \in Seq(Word),
         Len(Incoming(p)) = Len(Outgoing(p)), NEW j \in 1 .. Len(Outgoing(p))
  PROVE  Opened(p, j) \in Ring(p)
<1>1. Outgoing(p)[j] \in Int /\ Incoming(p)[j] \in Int
  BY Elements, WordInt
<1>2. ZRaw(Mod(p), Incoming(p)[j]) \in Int
  BY <1>1, RingOperations, RingInt
<1> QED BY <1>1, <1>2, RingOperations DEF Opened

(* An input wire of either party gets a share.                             *)
LEMMA SharedInputs ==
  ASSUME ProtocolInv, NEW p \in Party, ReceiveInputs(p), NEW w \in Wires(Circ(p)),
         Len(Incoming(p)) = Len(InputsOf(Circ(p), Peer(p))),
         \E q \in Party : \E k \in 1 .. Len(InputsOf(Circ(p), q)) : InputsOf(Circ(p), q)[k] = w
  PROVE  \E v \in Ring(p) :
           Shared(p, InputsOf(Circ(p), Peer(p)), Incoming(p))[w] = ShareValue(v)
<1> DEFINE mine   == InputsOf(Circ(p), p)
           theirs == InputsOf(Circ(p), Peer(p))
           now    == Shared(p, theirs, Incoming(p))
<1>0. /\ Mine(p) /\ ExchangeTypeOK /\ Answered /\ pc[p] = "sharing" /\ Return(p)
      /\ launch \in Launches
      /\ \A q \in Party : q = p \/ q = Peer(p)
  BY DEF ProtocolInv, ReceiveInputs, Peer, Party
<1>1. Incoming(p) \in Seq(Word)
  BY <1>0, ReturnStep
<1>2. CASE \E k \in 1 .. Len(mine) : mine[k] = w
  <2> DEFINE k == CHOOSE k \in 1 .. Len(mine) : mine[k] = w
  <2>1. k \in 1 .. Len(mine)
    BY <1>2
  <2>2. now[w] = ShareValue(kept[p][k])
    BY <1>2 DEF Shared
  <2> HIDE DEF k
  <2>3. kept[p] \in Seq(Ring(p)) /\ Len(kept[p]) = Len(mine)
    BY <1>0 DEF Mine, Matching
  <2>4. kept[p][k] \in Ring(p)
    BY <2>1, <2>3, Elements
  <2> QED BY <2>2, <2>4
<1>3. CASE /\ ~ \E k \in 1 .. Len(mine) : mine[k] = w
           /\ \E k \in 1 .. Len(theirs) : theirs[k] = w
  <2> DEFINE k == CHOOSE k \in 1 .. Len(theirs) : theirs[k] = w
  <2>1. k \in 1 .. Len(theirs)
    BY <1>3
  <2>2. now[w] = ShareValue(ZRaw(Mod(p), Incoming(p)[k]))
    BY <1>3 DEF Shared
  <2> HIDE DEF k
  <2>3. Incoming(p)[k] \in Int
    BY <1>1, <2>1, Elements, WordInt
  <2>4. ZRaw(Mod(p), Incoming(p)[k]) \in Ring(p)
    BY <1>0, <2>3, RingOperations
  <2> QED BY <2>2, <2>4
<1> QED BY <1>0, <1>2, <1>3

LEMMA ReceiveInputsStep ==
  ASSUME ProtocolInv, NEW p \in Party, ReceiveInputs(p)
  PROVE  Stepped(p)
<1> DEFINE mine   == InputsOf(Circ(p), p)
           theirs == InputsOf(Circ(p), Peer(p))
<1>0. /\ Shaped /\ Mine(p) /\ Peer(p) # p /\ Peer(p) \in Party
      /\ ExchangeTypeOK /\ Answered /\ launch \in Launches
  BY Peers DEF ProtocolInv
<1>1. /\ ExchangeStep(p) /\ UNCHANGED sent
      /\ Incoming(p) \in Seq(Word) /\ Outgoing(p) \in Seq(Word)
  BY <1>0, ReturnStep DEF ReceiveInputs
<1>2. /\ transcript' = [q \in Party |-> transcript'[q]]
      /\ transcript'[p] \in [rounds : Nat, sent : Nat, received : Nat]
      /\ transcript'[Peer(p)] = transcript[Peer(p)]
  BY <1>0, <1>1, AccountStep DEF ReceiveInputs
<1>3. Len(mine) \in Nat /\ Len(theirs) \in Nat
  BY <1>0, InputFacts, Elements
<1>4. pc[p] = "sharing" /\ UNCHANGED <<launch, place, queue, kept, outputs>>
  BY DEF ReceiveInputs
<1>5. CASE Len(Incoming(p)) = Len(theirs)
  <2> DEFINE now == Shared(p, theirs, Incoming(p))
  <2>1. /\ pc' = [pc EXCEPT ![p] = "layer"] /\ error' = error
        /\ wires' = [wires EXCEPT ![p] = now]
    BY <1>5 DEF ReceiveInputs, Goto
  <2>2. ASSUME NEW w \in Wires(Circ(p)) PROVE now[w] \in WireValue(p)
    <3>1. CASE \E q \in Party : \E k \in 1 .. Len(InputsOf(Circ(p), q)) : InputsOf(Circ(p), q)[k] = w
      <4>1. PICK v \in Ring(p) : now[w] = ShareValue(v)
        BY <1>5, <3>1, SharedInputs
      <4> QED BY <4>1 DEF WireValue
    <3>2. CASE ~ \E q \in Party : \E k \in 1 .. Len(InputsOf(Circ(p), q)) : InputsOf(Circ(p), q)[k] = w
      <4>1. p \in Party /\ Peer(p) \in Party
        BY <1>0
      <4>2. now[w] = wires[p][w]
        BY <3>2, <4>1 DEF Shared
      <4> QED BY <1>0, <2>2, <4>2 DEF Mine
    <3> QED BY <3>1, <3>2
  <2>3. now \in [Wires(Circ(p)) -> WireValue(p)]
    BY <2>2 DEF Shared
  <2> HIDE DEF now
  <2>4. launch' = launch /\ Shaped' /\ Untouched(Peer(p))
    BY <1>0, <1>1, <1>2, <1>4, <2>1 DEF Shaped, Untouched
  <2>5. pc'[p] = "layer" /\ wires'[p] = now
    BY <1>0, <2>1 DEF Shaped
  <2>6. Mine(p)'
    BY <1>0, <1>2, <1>4, <2>1, <2>3, <2>5, RingLasts DEF Mine, Matching, Circ, Steps
  <2> QED BY <1>1, <2>4, <2>6, Frame
<1>6. CASE Len(Incoming(p)) # Len(theirs)
  <2>1. /\ pc' = [pc EXCEPT ![p] = "failed"]
        /\ error' = [error EXCEPT ![p] = "length"] /\ wires' = wires
    BY <1>6 DEF ReceiveInputs, Fail
  <2>2. launch' = launch /\ Shaped' /\ Untouched(Peer(p))
    BY <1>0, <1>1, <1>2, <1>4, <2>1 DEF Shaped, Untouched
  <2>3. pc'[p] = "failed" /\ error'[p] = "length"
    BY <1>0, <2>1 DEF Shaped
  <2>4. Mine(p)'
    BY <1>0, <1>2, <1>4, <2>1, <2>3, RingLasts DEF Mine, Matching, Circ, Faults
  <2> QED BY <1>1, <2>2, <2>4, Frame
<1> QED BY <1>5, <1>6

(* A gate of the queue gets its product.                                   *)
LEMMA FinishedGates ==
  ASSUME ProtocolInv, NEW p \in Party, CloseRound(p), NEW w \in Wires(Circ(p)),
         Len(Incoming(p)) = Len(Outgoing(p)),
         \E k \in 1 .. Len(queue[p]) : queue[p][k] = w
  PROVE  \E v \in Ring(p) : Finished(p)[w] = ShareValue(v)
<1> DEFINE n == Len(queue[p])
           k == CHOOSE k \in 1 .. n : queue[p][k] = w
           z == Product(Mod(p), p, Opened(p, 2 * k - 1), Opened(p, 2 * k), Triple(p, w))
<1>0. Mine(p) /\ ExchangeTypeOK /\ Answered /\ launch \in Launches /\ pc[p] = "opening" /\ Return(p)
  BY DEF ProtocolInv, CloseRound
<1>1. Incoming(p) \in Seq(Word) /\ Outgoing(p) \in Seq(Word)
  BY <1>0, ReturnStep
<1>2. /\ n \in Nat /\ Len(Outgoing(p)) = 2 * n
      /\ \A i \in 1 .. n : Gate(p, queue[p][i]).kind = "mul"
  BY <1>0, Elements DEF Mine, Matching
<1>3. k \in 1 .. n /\ queue[p][k] = w
  OBVIOUS
<1>4. Finished(p)[w] = ShareValue(z)
  BY DEF Finished
<1> HIDE DEF k
<1>5. Opened(p, 2 * k - 1) \in Ring(p) /\ Opened(p, 2 * k) \in Ring(p)
  <2>1. 2 * k - 1 \in 1 .. Len(Outgoing(p)) /\ 2 * k \in 1 .. Len(Outgoing(p))
    BY <1>2, <1>3
  <2> QED BY <1>0, <1>1, <2>1, OpenedRing
<1>6. Triple(p, w).a \in Ring(p) /\ Triple(p, w).b \in Ring(p) /\ Triple(p, w).c \in Ring(p)
  BY <1>0, <1>2, <1>3, TripleHalves
<1>7. z \in Ring(p)
  <2>1. PICK modulus \in Moduli : modulus = Mod(p) /\ Ring(p) = Z(modulus)
    BY <1>0, RingFacts
  <2>2. PICK t, d, e : t = Triple(p, w) /\ d = Opened(p, 2 * k - 1) /\ e = Opened(p, 2 * k)
    OBVIOUS
  <2>3. d \in Z(modulus) /\ e \in Z(modulus) /\ t.a \in Z(modulus) /\ t.b \in Z(modulus) /\ t.c \in Z(modulus)
    BY <1>5, <1>6, <2>1, <2>2
  <2>4. Product(modulus, p, d, e, t) \in Z(modulus)
    BY <2>3, ProductOf DEF Party
  <2> QED BY <2>1, <2>2, <2>4
<1> QED BY <1>4, <1>7

LEMMA CloseStep ==
  ASSUME ProtocolInv, NEW p \in Party, CloseRound(p)
  PROVE  Stepped(p)
<1> DEFINE n == Len(queue[p])
<1>0. /\ Shaped /\ Mine(p) /\ Peer(p) # p /\ Peer(p) \in Party
      /\ ExchangeTypeOK /\ Answered /\ launch \in Launches
  BY Peers DEF ProtocolInv
<1>1. /\ ExchangeStep(p) /\ UNCHANGED sent
      /\ Incoming(p) \in Seq(Word) /\ Outgoing(p) \in Seq(Word)
  BY <1>0, ReturnStep DEF CloseRound
<1>2. /\ transcript' = [q \in Party |-> transcript'[q]]
      /\ transcript'[p] \in [rounds : Nat, sent : Nat, received : Nat]
      /\ transcript'[Peer(p)] = transcript[Peer(p)]
  BY <1>0, <1>1, AccountStep DEF CloseRound
<1>3. /\ n \in Nat /\ \A k \in 1 .. n : queue[p][k] \in Wires(Circ(p))
      /\ \A k \in 1 .. n : Gate(p, queue[p][k]).kind = "mul"
      /\ Len(Outgoing(p)) = 2 * n
  BY <1>0, Elements DEF Mine, Matching, CloseRound
<1>4. pc[p] = "opening" /\ UNCHANGED <<launch, kept, outputs>>
  BY DEF CloseRound
<1>5. CASE Len(Incoming(p)) = Len(Outgoing(p))
  <2> DEFINE now == Finished(p)
  <2>1. /\ pc' = [pc EXCEPT ![p] = "layer"] /\ error' = error
        /\ wires' = [wires EXCEPT ![p] = now]
        /\ queue' = [queue EXCEPT ![p] = <<>>]
        /\ place' = [place EXCEPT ![p] = <<place[p][1] + 1, 1>>]
    BY <1>5 DEF CloseRound, Goto, NextRound
  <2>2. ASSUME NEW w \in Wires(Circ(p)) PROVE now[w] \in WireValue(p)
    <3>1. CASE \E k \in 1 .. n : queue[p][k] = w
      <4>1. PICK v \in Ring(p) : now[w] = ShareValue(v)
        BY <1>5, <3>1, FinishedGates
      <4> QED BY <4>1 DEF WireValue
    <3>2. CASE ~ \E k \in 1 .. n : queue[p][k] = w
      <4>1. now[w] = wires[p][w]
        BY <2>2, <3>2 DEF Finished
      <4> QED BY <1>0, <2>2, <4>1 DEF Mine
    <3> QED BY <3>1, <3>2
  <2>3. now \in [Wires(Circ(p)) -> WireValue(p)]
    BY <2>2 DEF Finished
  <2> HIDE DEF now
  <2>4. launch' = launch /\ Shaped' /\ Untouched(Peer(p))
    BY <1>0, <1>1, <1>2, <1>4, <2>1 DEF Shaped, Untouched
  <2>5. /\ pc'[p] = "layer" /\ wires'[p] = now /\ queue'[p] = <<>>
        /\ place'[p] = <<place[p][1] + 1, 1>>
    BY <1>0, <2>1 DEF Shaped
  <2>6. place'[p] \in (Nat \ {0}) \X (Nat \ {0}) /\ queue'[p] \in Seq(Wires(Circ(p)))
    BY <1>0, <2>5 DEF Mine
  <2>7. Mine(p)'
    BY <1>0, <1>2, <1>4, <2>1, <2>3, <2>5, <2>6, RingLasts DEF Mine, Matching, Circ, Steps
  <2> QED BY <1>1, <2>4, <2>7, Frame
<1>6. CASE Len(Incoming(p)) # Len(Outgoing(p))
  <2>1. /\ pc' = [pc EXCEPT ![p] = "failed"]
        /\ error' = [error EXCEPT ![p] = "length"] /\ UNCHANGED <<wires, queue, place>>
    BY <1>6 DEF CloseRound, Fail
  <2>2. launch' = launch /\ Shaped' /\ Untouched(Peer(p))
    BY <1>0, <1>1, <1>2, <1>4, <2>1 DEF Shaped, Untouched
  <2>3. pc'[p] = "failed" /\ error'[p] = "length"
    BY <1>0, <2>1 DEF Shaped
  <2>4. Mine(p)'
    BY <1>0, <1>2, <1>4, <2>1, <2>3, RingLasts DEF Mine, Matching, Circ, Faults
  <2> QED BY <1>1, <2>2, <2>4, Frame
<1> QED BY <1>5, <1>6

LEMMA ReceiveOutputsStep ==
  ASSUME ProtocolInv, NEW p \in Party, ReceiveOutputs(p)
  PROVE  Stepped(p)
<1> DEFINE n == Len(Circ(p).outputs)
<1>0. /\ Shaped /\ Mine(p) /\ Peer(p) # p /\ Peer(p) \in Party
      /\ ExchangeTypeOK /\ Answered /\ launch \in Launches
  BY Peers DEF ProtocolInv
<1>1. /\ ExchangeStep(p) /\ UNCHANGED sent
      /\ Incoming(p) \in Seq(Word) /\ Outgoing(p) \in Seq(Word)
  BY <1>0, ReturnStep DEF ReceiveOutputs
<1>2. /\ transcript' = [q \in Party |-> transcript'[q]]
      /\ transcript'[p] \in [rounds : Nat, sent : Nat, received : Nat]
      /\ transcript'[Peer(p)] = transcript[Peer(p)]
  BY <1>0, <1>1, AccountStep DEF ReceiveOutputs
<1>3. n \in Nat /\ Len(Outgoing(p)) = n
  BY <1>0, LaunchFacts, Elements DEF Mine, Matching, ReceiveOutputs
<1>4. pc[p] = "revealing" /\ UNCHANGED <<launch, place, queue, kept, wires>>
  BY DEF ReceiveOutputs
<1>5. CASE Len(Incoming(p)) = Len(Outgoing(p))
  <2> DEFINE now == [k \in 1 .. n |-> Opened(p, k)]
  <2>1. /\ pc' = [pc EXCEPT ![p] = "done"] /\ error' = error
        /\ outputs' = [outputs EXCEPT ![p] = now]
    BY <1>5 DEF ReceiveOutputs, Goto
  <2>2. now \in [1 .. n -> Ring(p)]
    BY <1>0, <1>1, <1>3, <1>5, OpenedRing
  <2> HIDE DEF now
  <2>3. now \in Seq(Ring(p))
    BY <1>3, <2>2
  <2>4. launch' = launch /\ Shaped' /\ Untouched(Peer(p))
    BY <1>0, <1>1, <1>2, <1>4, <2>1 DEF Shaped, Untouched
  <2>5. pc'[p] = "done" /\ outputs'[p] = now
    BY <1>0, <2>1 DEF Shaped
  <2>6. Mine(p)'
    BY <1>0, <1>2, <1>4, <2>1, <2>3, <2>5, RingLasts DEF Mine, Matching, Circ
  <2> QED BY <1>1, <2>4, <2>6, Frame
<1>6. CASE Len(Incoming(p)) # Len(Outgoing(p))
  <2>1. /\ pc' = [pc EXCEPT ![p] = "failed"]
        /\ error' = [error EXCEPT ![p] = "length"] /\ UNCHANGED outputs
    BY <1>6 DEF ReceiveOutputs, Fail
  <2>2. launch' = launch /\ Shaped' /\ Untouched(Peer(p))
    BY <1>0, <1>1, <1>2, <1>4, <2>1 DEF Shaped, Untouched
  <2>3. pc'[p] = "failed" /\ error'[p] = "length"
    BY <1>0, <2>1 DEF Shaped
  <2>4. Mine(p)'
    BY <1>0, <1>2, <1>4, <2>1, <2>3, RingLasts DEF Mine, Matching, Circ, Faults
  <2> QED BY <1>1, <2>2, <2>4, Frame
<1> QED BY <1>5, <1>6

-----------------------------------------------------------------------------
LEMMA InitProtocolInv == Init => ProtocolInv /\ ExchangeInit
<1> SUFFICES ASSUME Init PROVE ProtocolInv /\ ExchangeInit
  OBVIOUS
<1>1. launch \in Launches /\ ExchangeInit
  BY DEF Init
<1>2. ExchangeTypeOK /\ Answered
  BY <1>1, InitExchangeInv DEF ExchangeInv
<1>3. Shaped
  BY DEF Init, Shaped
<1>4. ASSUME NEW p \in Party PROVE Mine(p)
  <2>1. /\ pc[p] = "share" /\ error[p] = "none" /\ place[p] = <<1, 1>>
        /\ queue[p] = <<>> /\ kept[p] = <<>> /\ outputs[p] = <<>>
        /\ wires[p] = [w \in Wires(Circ(p)) |-> Unset]
        /\ transcript[p] = [rounds |-> 0, sent |-> 0, received |-> 0]
    BY <1>4 DEF Init
  <2>2. wires[p] \in [Wires(Circ(p)) -> WireValue(p)]
    BY <2>1 DEF WireValue
  <2>3. queue[p] \in Seq(Wires(Circ(p))) /\ kept[p] \in Seq(Ring(p)) /\ outputs[p] \in Seq(Ring(p))
    BY <2>1
  <2> QED BY <2>1, <2>2, <2>3 DEF Mine, Matching, Steps, Faults
<1> QED BY <1>1, <1>2, <1>3, <1>4 DEF ProtocolInv

LEMMA RunStepped ==
  ASSUME ProtocolInv, NEW p \in Party, Run(p) \/ Kill(p)
  PROVE  Stepped(p)
<1>1. CASE EvaluateGate(p)
  <2>1. PICK w \in Wires(Circ(p)) :
          \/ PassGate(p, w) \/ EvalConst(p, w) \/ EvalAdd(p, w)
          \/ RefuseAdd(p, w) \/ QueueGate(p, w)
    BY <1>1 DEF EvaluateGate
  <2> QED BY <2>1, GateStep
<1>2. CASE \/ RefuseInputs(p) \/ SkipRound(p) \/ RefuseRound(p) \/ RefuseReveal(p)
           \/ PeerLost(p) \/ Exit(p) \/ Kill(p)
  BY <1>2, QuietStep
<1>3. CASE ShareInputs(p)
  BY <1>3, ShareStep
<1>4. CASE ReceiveInputs(p)
  BY <1>4, ReceiveInputsStep
<1>5. CASE OpenRound(p)
  BY <1>5, OpenStep
<1>6. CASE CloseRound(p)
  BY <1>6, CloseStep
<1>7. CASE RevealOutputs(p)
  BY <1>7, RevealStep
<1>8. CASE ReceiveOutputs(p)
  BY <1>8, ReceiveOutputsStep
<1> QED BY <1>1, <1>2, <1>3, <1>4, <1>5, <1>6, <1>7, <1>8 DEF Run

LEMMA NextStepped ==
  ASSUME ProtocolInv, [Next]_vars
  PROVE  ProtocolInv' /\ [ExchangeNext]_exchangeVars
<1>1. ASSUME NEW p \in Party, Run(p) \/ Kill(p) PROVE Stepped(p)
  BY <1>1, RunStepped
<1>2. CASE \E p \in Party : Run(p) \/ Kill(p)
  BY <1>1, <1>2 DEF Stepped, ExchangeNext
<1>3. CASE UNCHANGED vars
  <2>1. UNCHANGED exchangeVars
    BY <1>3 DEF vars
  <2>2. ProtocolInv'
    BY <1>3 DEF vars, computation, exchangeVars, ProtocolInv, ExchangeTypeOK, Answered,
                Shaped, Mine, Matching, Circ, Gate, Outgoing, Ring, Mod, Format, WireValue
  <2> QED BY <2>1, <2>2
<1> QED BY <1>2, <1>3 DEF Next, Over

(* Whatever netlists, inputs and halves the parties were started with and  *)
(* however they are interleaved, fail or are killed, every variable keeps  *)
(* its type: no share leaves the ring (ring.rs:38-40), every wire carries  *)
(* a share or a literal, the cost is counted in whole words.               *)
THEOREM ProtocolTypeOK == Spec => []TypeOK
<1>1. Init => ProtocolInv
  BY InitProtocolInv
<1>2. ProtocolInv /\ [Next]_vars => ProtocolInv'
  BY NextStepped
<1>3. ProtocolInv => TypeOK
  BY InvTypeOK
<1> QED BY <1>1, <1>2, <1>3, PTL DEF Spec

(* The protocol uses its link as Exchange allows: at most one call under   *)
(* way, whole words only, nothing after a call has failed.                *)
THEOREM ProtocolUsesExchange == Spec => ExchangeSpec
<1>1. Init => ProtocolInv /\ ExchangeInit
  BY InitProtocolInv
<1>2. ProtocolInv /\ [Next]_vars => ProtocolInv' /\ [ExchangeNext]_exchangeVars
  BY NextStepped
<1> QED BY <1>1, <1>2, PTL DEF Spec, ExchangeSpec

(* So round i of a party is answered by round i of the other, and neither  *)
(* is ever more than a round ahead (protocol.rs:153, 232, 285).            *)
THEOREM ProtocolFifo == Spec => []Fifo
<1>1. ExchangeInv => Fifo
  BY DEF ExchangeInv
<1> QED BY <1>1, ProtocolUsesExchange, ExchangeInvariant, PTL

THEOREM ProtocolLockstep == Spec => []Lockstep
BY ProtocolUsesExchange, ExchangeLockstep, PTL

-----------------------------------------------------------------------------
(* What two parties that both succeed report.                              *)
(* A party that is done added, word by word, the last message it sent and  *)
(* the last one it got, and these have one length.                         *)
Concluded(p) ==
  pc[p] = "done" =>
    /\ Len(sent[p]) > 0
    /\ Len(got[p]) = Len(sent[p])
    /\ Len(got[p][Len(got[p])]) = Len(Outgoing(p))
    /\ outputs[p] = [k \in 1 .. Len(Outgoing(p)) |->
                       ZAdd(Mod(p), Outgoing(p)[k], ZRaw(Mod(p), got[p][Len(got[p])][k]))]

AnswerInv == \A p \in Party : Concluded(p)

(* What Concluded speaks of.                                               *)
Kept(q) ==
  /\ launch' = launch
  /\ pc'[q] = pc[q] /\ outputs'[q] = outputs[q]
  /\ sent'[q] = sent[q] /\ got'[q] = got[q]

LEMMA KeptConcluded ==
  ASSUME NEW q \in Party, Concluded(q), Kept(q)
  PROVE  Concluded(q)'
BY RingLasts DEF Concluded, Kept, Outgoing

(* What the two were started with never changes.                           *)
LEMMA LaunchLasts ==
  ASSUME NEW p \in Party, Run(p) \/ Kill(p)
  PROVE  launch' = launch
<1>1. CASE EvaluateGate(p)
  BY <1>1 DEF EvaluateGate, PassGate, EvalConst, EvalAdd, RefuseAdd, QueueGate, Assign, Step
<1>2. CASE \/ RefuseInputs(p) \/ SkipRound(p) \/ RefuseRound(p) \/ RefuseReveal(p)
           \/ PeerLost(p) \/ Exit(p) \/ Kill(p)
  BY <1>2 DEF RefuseInputs, SkipRound, RefuseRound, RefuseReveal, PeerLost, Exit, Kill
<1>3. CASE ShareInputs(p) \/ OpenRound(p) \/ RevealOutputs(p)
  BY <1>3 DEF ShareInputs, OpenRound, RevealOutputs
<1>4. CASE ReceiveInputs(p) \/ CloseRound(p) \/ ReceiveOutputs(p)
  BY <1>4 DEF ReceiveInputs, CloseRound, ReceiveOutputs
<1> QED BY <1>1, <1>2, <1>3, <1>4 DEF Run

(* No step touches what the other party reported.                          *)
LEMMA PeerKept ==
  ASSUME ProtocolInv, NEW p \in Party, Run(p) \/ Kill(p)
  PROVE  Kept(Peer(p))
<1>0. /\ Shaped /\ Peer(p) # p /\ Peer(p) \in Party /\ ExchangeTypeOK
  BY Peers DEF ProtocolInv
<1>1. ASSUME ExchangeStep(p) \/ UNCHANGED exchangeVars
      PROVE  sent'[Peer(p)] = sent[Peer(p)] /\ got'[Peer(p)] = got[Peer(p)]
  BY <1>0, <1>1
     DEF ExchangeStep, Call, Return, Abort, Close, Crash, ExchangeTypeOK, exchangeVars
<1>2. ExchangeStep(p) \/ UNCHANGED exchangeVars
  BY RunStepped DEF Stepped
<1>3. pc'[Peer(p)] = pc[Peer(p)] /\ outputs'[Peer(p)] = outputs[Peer(p)]
  <2> USE <1>0 DEF Shaped, Fail, Goto, computation
  <2>1. CASE EvaluateGate(p)
    BY <2>1 DEF EvaluateGate, PassGate, EvalConst, EvalAdd, RefuseAdd, QueueGate, Assign, Step
  <2>2. CASE \/ RefuseInputs(p) \/ SkipRound(p) \/ RefuseRound(p) \/ RefuseReveal(p)
             \/ PeerLost(p) \/ Exit(p) \/ Kill(p)
    BY <2>2 DEF RefuseInputs, SkipRound, RefuseRound, RefuseReveal, PeerLost, Exit, Kill
  <2>3. CASE ShareInputs(p) \/ OpenRound(p) \/ RevealOutputs(p)
    BY <2>3 DEF ShareInputs, OpenRound, RevealOutputs
  <2>4. CASE ReceiveInputs(p) \/ CloseRound(p) \/ ReceiveOutputs(p)
    BY <2>4 DEF ReceiveInputs, CloseRound, ReceiveOutputs
  <2> QED BY <2>1, <2>2, <2>3, <2>4 DEF Run
<1> QED BY <1>1, <1>2, <1>3, LaunchLasts DEF Kept

(* A party becomes done only by taking the outputs; once done it does      *)
(* nothing but end.                                                        *)
LEMMA OwnKept ==
  ASSUME ProtocolInv, NEW p \in Party, Run(p) \/ Kill(p), ~ReceiveOutputs(p),
         pc'[p] = "done"
  PROVE  Kept(p)
<1>0. Shaped /\ launch' = launch
  BY LaunchLasts DEF ProtocolInv
<1> USE <1>0 DEF Shaped, Fail, Goto, computation
<1>1. CASE EvaluateGate(p)
  BY <1>1 DEF EvaluateGate, PassGate, EvalConst, EvalAdd, RefuseAdd, QueueGate, Assign, Step,
              Turn, InRound
<1>2. CASE SkipRound(p)
  BY <1>2 DEF SkipRound, RoundIsOver, InRound
<1>3. CASE RefuseInputs(p) \/ RefuseRound(p) \/ RefuseReveal(p) \/ PeerLost(p) \/ Kill(p)
  BY <1>3 DEF RefuseInputs, RefuseRound, RefuseReveal, PeerLost, Kill
<1>4. CASE ShareInputs(p) \/ OpenRound(p) \/ RevealOutputs(p)
  BY <1>4 DEF ShareInputs, OpenRound, RevealOutputs
<1>5. CASE ReceiveInputs(p) \/ CloseRound(p)
  BY <1>5 DEF ReceiveInputs, CloseRound
<1>6. CASE Exit(p)
  BY <1>6 DEF Exit, Close, Kept
<1> QED BY <1>1, <1>2, <1>3, <1>4, <1>5, <1>6 DEF Run

LEMMA OutputsConcluded ==
  ASSUME ProtocolInv, NEW p \in Party, ReceiveOutputs(p)
  PROVE  Concluded(p)'
<1>0. /\ Shaped /\ Mine(p) /\ ExchangeTypeOK /\ Answered /\ launch \in Launches
      /\ sent[p] \in Seq(Message) /\ got[p] \in Seq(Message) /\ DOMAIN got = Party
  BY DEF ProtocolInv, ExchangeTypeOK
<1>1. /\ status[p] = "busy" /\ UNCHANGED sent
      /\ got' = [got EXCEPT ![p] = Append(got[p], Incoming(p))]
  BY DEF ReceiveOutputs, Return
<1>2. Len(sent[p]) = Len(got[p]) + 1 /\ Len(got[p]) \in Nat
  BY <1>0, <1>1 DEF Answered
<1>3. /\ got'[p] = Append(got[p], Incoming(p))
      /\ Len(got'[p]) = Len(got[p]) + 1
      /\ got'[p][Len(got'[p])] = Incoming(p)
  BY <1>0, <1>1, <1>2
<1>4. Outgoing(p)' = Outgoing(p)
  BY <1>1 DEF Outgoing
<1>5. CASE Len(Incoming(p)) = Len(Outgoing(p))
  <2>1. Len(Outgoing(p)) = Len(Circ(p).outputs)
    BY <1>0 DEF Mine, Matching, ReceiveOutputs
  <2>2. outputs'[p] = [k \in 1 .. Len(Circ(p).outputs) |-> Opened(p, k)]
    BY <1>0, <1>5 DEF ReceiveOutputs, Shaped
  <2>3. outputs'[p] = [k \in 1 .. Len(Outgoing(p)) |->
                         ZAdd(Mod(p), Outgoing(p)[k], ZRaw(Mod(p), Incoming(p)[k]))]
    BY <2>1, <2>2 DEF Opened
  <2>4. launch' = launch
    BY DEF ReceiveOutputs
  <2>5. Mod(p)' = Mod(p)
    BY <2>4, RingLasts
  <2> QED BY <1>1, <1>2, <1>3, <1>4, <1>5, <2>3, <2>5 DEF Concluded
<1>6. CASE Len(Incoming(p)) # Len(Outgoing(p))
  <2>1. pc'[p] = "failed"
    BY <1>0, <1>6 DEF ReceiveOutputs, Fail, Shaped
  <2> QED BY <2>1 DEF Concluded
<1> QED BY <1>5, <1>6

LEMMA InitAnswerInv == Init => AnswerInv
<1>1. Init => \A p \in Party : pc[p] = "share"
  BY DEF Init
<1> QED BY <1>1 DEF AnswerInv, Concluded

LEMMA StepAnswerInv ==
  ASSUME ProtocolInv, AnswerInv, [Next]_vars
  PROVE  AnswerInv'
<1>1. ASSUME NEW p \in Party, Run(p) \/ Kill(p) PROVE AnswerInv'
  <2>1. Concluded(p)'
    <3>1. CASE ReceiveOutputs(p)
      BY <1>1, <3>1, OutputsConcluded
    <3>2. CASE ~ReceiveOutputs(p) /\ pc'[p] = "done"
      BY <1>1, <3>2, OwnKept, KeptConcluded DEF AnswerInv
    <3>3. CASE pc'[p] # "done"
      BY <3>3 DEF Concluded
    <3> QED BY <3>1, <3>2, <3>3
  <2>2. Concluded(Peer(p))'
    BY <1>1, Peers, PeerKept, KeptConcluded DEF AnswerInv
  <2>3. \A q \in Party : q = p \/ q = Peer(p)
    BY DEF Peer, Party
  <2> QED BY <2>1, <2>2, <2>3 DEF AnswerInv
<1>2. CASE UNCHANGED vars
  <2>1. ASSUME NEW p \in Party PROVE Kept(p)
    BY <1>2 DEF vars, computation, exchangeVars, Kept
  <2> QED BY <2>1, KeptConcluded DEF AnswerInv
<1> QED BY <1>1, <1>2 DEF Next, Over

(* Either party may reduce the word of the other before it adds it.        *)
LEMMA RawCommutes ==
  ASSUME NEW n \in Moduli, NEW x \in Int, NEW y \in Int
  PROVE  ZAdd(n, x, ZRaw(n, y)) = ZAdd(n, y, ZRaw(n, x))
<1> n \in Nat \ {0}
  BY DEF Moduli
<1>1. ASSUME NEW v \in Int, NEW w \in Int
      PROVE  ZAdd(n, v, ZRaw(n, w)) \in Z(n) /\ Congruent(n, ZAdd(n, v, ZRaw(n, w)), v + w)
  <2>1. PICK z \in Z(n) : z = ZRaw(n, w)
    BY ZRawIn
  <2>2. z \in Int /\ ZRaw(n, z) = z
    BY ZInt
  <2>3. Congruent(n, z, w) /\ Congruent(n, v, v)
    BY <2>1, <2>2 DEF Congruent, ZRaw
  <2>4. Congruent(n, v + z, v + w)
    BY <2>2, <2>3, CongruentAdd
  <2>5. ZAdd(n, v, z) \in Z(n) /\ Congruent(n, ZAdd(n, v, z), v + z)
    BY <2>2, ZOperations
  <2>6. Congruent(n, ZAdd(n, v, z), v + w)
    BY <2>4, <2>5 DEF Congruent
  <2> QED BY <2>1, <2>5, <2>6
<1> DEFINE a == ZAdd(n, x, ZRaw(n, y))
           b == ZAdd(n, y, ZRaw(n, x))
<1>2. a \in Z(n) /\ b \in Z(n) /\ Congruent(n, a, x + y) /\ Congruent(n, b, y + x)
  BY <1>1
<1> HIDE DEF a, b
<1>3. x + y = y + x
  OBVIOUS
<1>4. Congruent(n, a, b)
  BY <1>2, <1>3 DEF Congruent
<1>5. a = b
  BY <1>2, <1>4, ZSame
<1> QED BY <1>5 DEF a, b

LEMMA InvOutputsAgree == ProtocolInv /\ ExchangeInv /\ AnswerInv => OutputsAgree
<1> SUFFICES ASSUME ProtocolInv, ExchangeInv, AnswerInv, pc[0] = "done", pc[1] = "done",
                    Format(0) = Format(1)
             PROVE  outputs[0] = outputs[1]
  BY DEF OutputsAgree
<1> DEFINE n == Len(sent[0])
           u == sent[0][n]
           v == sent[1][n]
<1>0. 0 \in Party /\ 1 \in Party /\ Peer(0) = 1 /\ Peer(1) = 0
  BY Peers DEF Party
<1>f. PICK modulus \in Moduli : modulus = Mod(0) /\ modulus = Mod(1)
  <2>1. Mod(0) = Mod(1) /\ launch \in Launches
    BY DEF Mod, ProtocolInv
  <2> QED BY <1>0, <2>1, RingFacts
<1>1. \A p \in Party : /\ sent[p] \in Seq(Seq(Word))
                       /\ Len(sent[p]) \in Nat /\ Len(got[p]) \in Nat
  BY ProtocolAssumption DEF ExchangeInv, ExchangeTypeOK
<1>2. Concluded(0) /\ Concluded(1)
  BY <1>0 DEF AnswerInv
<1>3. n > 0 /\ Len(got[0]) = n /\ Len(got[1]) = Len(sent[1])
  BY <1>2 DEF Concluded
<1>4. Len(got[0]) <= Len(sent[1]) /\ Len(got[1]) <= Len(sent[0])
  BY <1>0 DEF ExchangeInv, Fifo
<1>5. Len(sent[1]) = n /\ Len(got[1]) = n /\ n \in Nat
  BY <1>0, <1>1, <1>3, <1>4
<1>6. got[0][n] = v /\ got[1][n] = u
  <2>1. n \in 1 .. Len(got[0]) /\ n \in 1 .. Len(got[1])
    BY <1>3, <1>5
  <2> QED BY <1>0, <2>1 DEF ExchangeInv, Fifo
<1>7. u \in Seq(Word) /\ v \in Seq(Word)
  BY <1>0, <1>1, <1>3, <1>5
<1>8. /\ Len(v) = Len(u)
      /\ outputs[0] = [k \in 1 .. Len(u) |-> ZAdd(modulus, u[k], ZRaw(modulus, v[k]))]
      /\ outputs[1] = [k \in 1 .. Len(v) |-> ZAdd(modulus, v[k], ZRaw(modulus, u[k]))]
  BY <1>2, <1>3, <1>5, <1>6, <1>f DEF Concluded, Outgoing
<1> HIDE DEF u, v
<1>9. ASSUME NEW k \in 1 .. Len(u)
      PROVE  ZAdd(modulus, u[k], ZRaw(modulus, v[k])) = ZAdd(modulus, v[k], ZRaw(modulus, u[k]))
  <2>1. u[k] \in Int /\ v[k] \in Int
    BY <1>7, <1>8, Elements, WordInt
  <2> QED BY <2>1, RawCommutes
<1> QED BY <1>8, <1>9

(* Two parties of one format that both report outputs report the same,     *)
(* whatever else each of them loaded (reveal_outputs, protocol.rs:276-307; *)
(* net.rs:78-98).                                                          *)
THEOREM AnswersAgree == Spec => []OutputsAgree
<1>1. Init => AnswerInv
  BY InitAnswerInv
<1>2. ProtocolInv /\ AnswerInv /\ [Next]_vars => AnswerInv'
  BY StepAnswerInv
<1>3. Init => ProtocolInv
  BY InitProtocolInv
<1>4. ProtocolInv /\ [Next]_vars => ProtocolInv'
  BY NextStepped
<1>5. Spec => []ExchangeInv
  BY ProtocolUsesExchange, ExchangeInvariant, PTL
<1> QED BY <1>1, <1>2, <1>3, <1>4, <1>5, InvOutputsAgree, PTL DEF Spec

-----------------------------------------------------------------------------
(* The invariant behind SharesRecombine.  It speaks of each party alone,   *)
(* and of what it has put on the link: which message, and which words of   *)
(* it, a product went through.  Two parties with one circuit agree on both *)
(* without ever having compared them.                                      *)

(* How many members of S there are up to k.                                *)
Count(S, k) == Cardinality({i \in 1 .. k : i \in S})

(* The interactive gates of a round, by position; the rounds that have any.*)
Interactive(c, r) == {i \in 1 .. Len(c.rounds[r]) : IsInteractive(c.gates[c.rounds[r][i]])}

Talking(c) == {r \in 1 .. Len(c.rounds) : Interactive(c, r) # {}}

(* The message that opens round r, and the words of it for the gate at x.  *)
MessageOf(c, r) == 1 + Count(Talking(c), r)

WordOf(c, x, h) == 2 * Count(Interactive(c, x[1]), x[2]) - 2 + h

(* Operand k of a gate, and the half that is opened for it.                *)
Operand(p, w, k) == Gate(p, w).args[k]

CanRead(p, w) == WireFault(p, w) = "none"

HalfOf(p, w, h) ==
  Masked(Mod(p), ShareOf(p, Operand(p, w, 1)), ShareOf(p, Operand(p, w, 2)), Triple(p, w))[h]

(* q lists the places i < k of a row that are in `here`, in order.         *)
Holds(q, here, k, row) ==
  /\ Len(q) = Count(here, k - 1)
  /\ \A n \in 1 .. Len(q) : \E i \in here : i < k /\ Count(here, i) = n /\ q[n] = row[i]
  /\ \A i \in here : i < k => q[Count(here, i)] = row[i]

(* The queue lists the interactive gates of the round so far.              *)
InQueue(p) ==
  LET r == place[p][1]
  IN  Holds(queue[p], Interactive(Circ(p), r), place[p][2], Circ(p).rounds[r])

(* Where a party is, in its circuit and in its messages.                   *)
Where(p) ==
  LET c == Circ(p)
      r == place[p][1]
      n == Len(sent[p])
  IN  /\ pc[p] \in {"share", "sharing"} =>
           /\ \A w \in Wires(c) : wires[p][w] = Unset
           /\ place[p] = <<1, 1>> /\ queue[p] = <<>>
      /\ pc[p] = "share" => n = 0
      /\ pc[p] = "sharing" => n = 1
      /\ pc[p] \in {"layer", "opening"} =>
           /\ r <= Len(c.rounds) + 1
           /\ r <= Len(c.rounds) => place[p][2] <= Len(c.rounds[r]) + 1 /\ InQueue(p)
           /\ r > Len(c.rounds) => queue[p] = <<>>
           /\ \A x \in Places(c) :
                wires[p][At(c, x)] # Unset /\ Gate(p, At(c, x)).kind # "input"
                  => ReadyBefore(c, x, place[p])
      /\ pc[p] = "layer" => n = MessageOf(c, r - 1)
      /\ pc[p] = "opening" =>
           r <= Len(c.rounds) /\ place[p][2] = Len(c.rounds[r]) + 1 /\ n = MessageOf(c, r)
      /\ pc[p] \in {"revealing", "done"} => n = MessageOf(c, Len(c.rounds)) + 1

(* What a party has sent, word by word.                                    *)
SpokenInputs(p) ==
  LET mine == InputsOf(Circ(p), p)
  IN  Len(sent[p]) >= 1 =>
        \A k \in 1 .. Len(mine) :
          /\ launch.input[p][mine[k]] \in Literals
          /\ Encoded(p, launch.input[p][mine[k]]) \in Ring(p)
          /\ sent[p][1][k] \in Ring(p) /\ kept[p][k] \in Ring(p)
          /\ ZAdd(Mod(p), sent[p][1][k], kept[p][k]) = Encoded(p, launch.input[p][mine[k]])

Opens(p, x) ==
  LET c == Circ(p)
      w == At(c, x)
  IN  /\ Gate(p, w).kind = "mul"
      /\ CanRead(p, Operand(p, w, 1)) /\ CanRead(p, Operand(p, w, 2))
      /\ \A h \in {1, 2} : sent[p][MessageOf(c, x[1])][WordOf(c, x, h)] = HalfOf(p, w, h)

SpokenRounds(p) ==
  \A x \in Places(Circ(p)) :
    (x[2] \in Interactive(Circ(p), x[1]) /\ MessageOf(Circ(p), x[1]) <= Len(sent[p]))
      => Opens(p, x)

SpokenOutputs(p) ==
  LET last == MessageOf(Circ(p), Len(Circ(p).rounds)) + 1
  IN  Len(sent[p]) >= last =>
        /\ Len(sent[p][last]) = Len(Circ(p).outputs)
        /\ \A k \in 1 .. Len(Circ(p).outputs) :
             CanRead(p, Source(p, k)) /\ sent[p][last][k] = ShareOf(p, Source(p, k))

(* What the value of a wire was computed from.                             *)
Sum(p, m, j) == ZAdd(Mod(p), sent[p][m][j], ZRaw(Mod(p), sent[Peer(p)][m][j]))

FromProduct(p, w, x) ==
  LET c == Circ(p)
      m == MessageOf(c, x[1])
  IN  /\ At(c, x) = w /\ x[2] \in Interactive(c, x[1])
      /\ m <= Len(sent[p]) /\ m <= Len(sent[Peer(p)])
      /\ wires[p][w] = ShareValue(Product(Mod(p), p, Sum(p, m, WordOf(c, x, 1)),
                                                     Sum(p, m, WordOf(c, x, 2)), Triple(p, w)))

FromInput(p, w, q, k) ==
  /\ InputsOf(Circ(p), q)[k] = w
  /\ Len(sent[q]) >= 1
  /\ wires[p][w] = ShareValue(IF q = p THEN kept[p][k] ELSE ZRaw(Mod(p), sent[q][1][k]))

Derived(p, w) ==
  LET g == Gate(p, w)
  IN  \/ /\ g.kind = "input"
         /\ \E k \in 1 .. Len(InputsOf(Circ(p), g.owner)) : FromInput(p, w, g.owner, k)
      \/ /\ g.kind = "const"
         /\ wires[p][w] = ConstValue(g.literal)
      \/ /\ g.kind = "add"
         /\ CanRead(p, Operand(p, w, 1)) /\ CanRead(p, Operand(p, w, 2))
         /\ wires[p][w] = ShareValue(ZAdd(Mod(p), ShareOf(p, Operand(p, w, 1)),
                                                   ShareOf(p, Operand(p, w, 2))))
      \/ /\ g.kind = "mul"
         /\ \E x \in Places(Circ(p)) : FromProduct(p, w, x)

Written(p) == \A w \in Wires(Circ(p)) : wires[p][w] # Unset => Derived(p, w)

Spoken(p) == SpokenInputs(p) /\ SpokenRounds(p) /\ SpokenOutputs(p)

ShareInv == \A p \in Party : Where(p) /\ Spoken(p) /\ Written(p)
LEMMA Counting ==
  ASSUME NEW S, NEW k \in Nat
  PROVE  /\ Count(S, k) \in Nat
         /\ Count(S, 0) = 0
         /\ Count(S, k + 1) = Count(S, k) + IF k + 1 \in S THEN 1 ELSE 0
<1> DEFINE upto == {i \in 1 .. k : i \in S}
           next == {i \in 1 .. k + 1 : i \in S}
<1>1. IsFiniteSet(upto) /\ Cardinality(upto) \in Nat
  <2>1. IsFiniteSet(1 .. k) /\ upto \subseteq 1 .. k
    BY FS_Interval
  <2> HIDE DEF upto
  <2> QED BY <2>1, FS_Subset, FS_CardinalityType
<1>2. CASE k + 1 \in S
  <2>1. next = upto \cup {k + 1} /\ k + 1 \notin upto
    BY <1>2
  <2>2. Cardinality(next) = Cardinality(upto) + 1
    BY <1>1, <2>1, FS_AddElement
  <2> QED BY <1>1, <1>2, <2>2, FS_EmptySet DEF Count
<1>3. CASE k + 1 \notin S
  <2>1. next = upto
    BY <1>3
  <2> QED BY <1>1, <1>3, <2>1, FS_EmptySet DEF Count
<1> QED BY <1>2, <1>3

LEMMA CountGrows ==
  ASSUME NEW S, NEW j \in Nat, NEW k \in Nat, j <= k
  PROVE  Count(S, j) <= Count(S, k)
<1> DEFINE low  == {i \in 1 .. j : i \in S}
           high == {i \in 1 .. k : i \in S}
<1>1. IsFiniteSet(high) /\ low \subseteq high
  <2>1. IsFiniteSet(1 .. k) /\ high \subseteq 1 .. k /\ low \subseteq high
    BY FS_Interval
  <2> HIDE DEF high
  <2> QED BY <2>1, FS_Subset
<1> QED BY <1>1, FS_Subset DEF Count

(* A member of S raises the count.                                         *)
LEMMA CountMember ==
  ASSUME NEW S, NEW j \in Nat, NEW k \in Nat, j < k, k \in S
  PROVE  Count(S, j) < Count(S, k) /\ Count(S, k) = Count(S, k - 1) + 1 /\ Count(S, k) \in Nat
<1>1. k - 1 \in Nat /\ j <= k - 1 /\ (k - 1) + 1 = k
  OBVIOUS
<1>2. Count(S, j) <= Count(S, k - 1)
  BY <1>1, CountGrows
<1>3. Count(S, k - 1) \in Nat /\ Count(S, (k - 1) + 1) = Count(S, k - 1) + 1
  BY <1>1, Counting
<1>4. Count(S, j) \in Nat
  BY Counting
<1> QED BY <1>1, <1>2, <1>3, <1>4

(* So two members with one count are the same.                             *)
LEMMA CountTells ==
  ASSUME NEW S, NEW j \in Nat \ {0}, NEW k \in Nat \ {0}, j \in S, k \in S,
         Count(S, j) = Count(S, k)
  PROVE  j = k
<1>1. Count(S, j) \in Nat
  BY Counting
<1>2. CASE j < k
  BY <1>1, <1>2, CountMember
<1>3. CASE k < j
  BY <1>1, <1>3, CountMember
<1> QED BY <1>2, <1>3

-----------------------------------------------------------------------------
(* The algebra of a wire: what two shares of it add up to.                 *)
LEMMA AddCommutes ==
  ASSUME NEW n \in Moduli, NEW x \in Z(n), NEW y \in Z(n)
  PROVE  ZAdd(n, x, y) = ZAdd(n, y, x) /\ ZAdd(n, x, ZRaw(n, y)) = ZAdd(n, x, y)
<1>1. x \in Int /\ y \in Int /\ ZRaw(n, y) = y
  BY ZInt
<1>2. x + y = y + x
  BY <1>1
<1> QED BY <1>1, <1>2 DEF ZAdd

LEMMA AddZero ==
  ASSUME NEW n \in Moduli, NEW x \in Z(n)
  PROVE  ZAdd(n, x, 0) = x
<1>1. x \in Int /\ 0 \in Int /\ x + 0 = x
  BY ZInt
<1>2. ZAdd(n, x, 0) \in Z(n) /\ Congruent(n, ZAdd(n, x, 0), x)
  BY <1>1, ZOperations
<1> QED BY <1>2, ZSame

LEMMA SumsRecombine ==
  ASSUME NEW n \in Moduli, NEW x0 \in Z(n), NEW x1 \in Z(n), NEW y0 \in Z(n), NEW y1 \in Z(n)
  PROVE  ZAdd(n, ZAdd(n, x0, y0), ZAdd(n, x1, y1)) = ZAdd(n, ZAdd(n, x0, x1), ZAdd(n, y0, y1))
<1>0. x0 \in Int /\ x1 \in Int /\ y0 \in Int /\ y1 \in Int
  BY ZInt
<1> DEFINE a == ZAdd(n, x0, y0)
           b == ZAdd(n, x1, y1)
           c == ZAdd(n, x0, x1)
           d == ZAdd(n, y0, y1)
<1>1. /\ a \in Int /\ Congruent(n, a, x0 + y0) /\ b \in Int /\ Congruent(n, b, x1 + y1)
      /\ c \in Int /\ Congruent(n, c, x0 + x1) /\ d \in Int /\ Congruent(n, d, y0 + y1)
  BY <1>0, ZOperations
<1> HIDE DEF a, b, c, d
<1>2. /\ x0 + y0 \in Int /\ x1 + y1 \in Int /\ x0 + x1 \in Int /\ y0 + y1 \in Int
      /\ (x0 + y0) + (x1 + y1) = (x0 + x1) + (y0 + y1)
      /\ (x0 + y0) + (x1 + y1) \in Int
  BY <1>0
<1>3. Congruent(n, a + b, (x0 + y0) + (x1 + y1)) /\ Congruent(n, c + d, (x0 + x1) + (y0 + y1))
  BY <1>1, <1>2, CongruentAdd
<1>4. a + b \in Int /\ c + d \in Int
  BY <1>1
<1>5. /\ ZAdd(n, a, b) \in Z(n) /\ Congruent(n, ZAdd(n, a, b), a + b)
      /\ ZAdd(n, c, d) \in Z(n) /\ Congruent(n, ZAdd(n, c, d), c + d)
  BY <1>1, ZOperations
<1>6. Congruent(n, ZAdd(n, a, b), ZAdd(n, c, d))
  BY <1>2, <1>3, <1>5 DEF Congruent
<1>7. ZAdd(n, a, b) = ZAdd(n, c, d)
  BY <1>5, <1>6, ZSame
<1> QED BY <1>7 DEF a, b, c, d

(* A wire that can be read was assigned, and what it carries is read off   *)
(* it as the share it is.                                                  *)
LEMMA Readings ==
  ASSUME NEW p \in Party, NEW w, CanRead(p, w)
  PROVE  /\ wires[p][w] # Unset
         /\ \A v : wires[p][w] = ShareValue(v) => ShareOf(p, w) = v
         /\ \A v : wires[p][w] = ConstValue(v) =>
              /\ ShareOf(p, w) = (IF p = 1 THEN 0 ELSE Encoded(p, v))
              /\ p = 0 => Encoded(p, v) # Unencodable
<1>1. /\ wires[p][w] # Unset
      /\ p = 0 /\ wires[p][w].public => Encoded(p, wires[p][w].value) # Unencodable
  BY DEF CanRead, WireFault
<1>2. \A v : /\ ShareValue(v).public = FALSE /\ ShareValue(v).value = v
             /\ ConstValue(v).public = TRUE /\ ConstValue(v).value = v
  BY DEF ShareValue, ConstValue
<1>3. ASSUME NEW v, wires[p][w] = ShareValue(v) PROVE ShareOf(p, w) = v
  BY <1>2, <1>3 DEF ShareOf
<1>4. ASSUME NEW v, wires[p][w] = ConstValue(v)
      PROVE  /\ ShareOf(p, w) = (IF p = 1 THEN 0 ELSE Encoded(p, v))
             /\ p = 0 => Encoded(p, v) # Unencodable
  BY <1>1, <1>2, <1>4 DEF ShareOf, Party
<1> QED BY <1>1, <1>3, <1>4

-----------------------------------------------------------------------------
(* From the invariant to the values.  Both parties have one circuit and    *)
(* halves of one dealer run.                                               *)
LEMMA SameFacts ==
  ASSUME ProtocolInv, SameStart
  PROVE  /\ launch \in Launches /\ TypeOK /\ 0 \in Party /\ 1 \in Party
         /\ Circ(0) = Circ(1) /\ IsCircuit(Circ(0)) /\ launch.deal[0] = launch.deal[1]
         /\ \A w : Gate(0, w) = Gate(1, w) /\ Gate(0, w) = Circ(0).gates[w]
         /\ \A w, k : Operand(0, w, k) = Operand(1, w, k)
         /\ Mod(0) \in Moduli /\ Mod(1) = Mod(0)
         /\ Ring(0) = Z(Mod(0)) /\ Ring(1) = Z(Mod(0))
         /\ \A v : Encoded(1, v) = Encoded(0, v)
         /\ Means(Circ(0), Format(0), launch.input, launch.clear)
<1>1. launch \in Launches /\ TypeOK
  BY InvTypeOK DEF ProtocolInv
<1>2. Circ(0) = Circ(1) /\ launch.deal[0] = launch.deal[1]
  BY DEF SameStart, SameCircuit, Circ
<1>3. \A w : Gate(0, w) = Gate(1, w) /\ Gate(0, w) = Circ(0).gates[w]
  BY <1>2 DEF Gate
<1>4. IsLaunch(launch)
  BY <1>1, ProtocolAssumption
<1>5. Means(Circ(0), Format(0), launch.input, launch.clear)
  BY <1>4 DEF IsLaunch, SameStart, SameCircuit, Circ, Format
<1>6. 0 \in Party /\ 1 \in Party
  BY DEF Party
<1>7. IsCircuit(Circ(0))
  BY <1>1, <1>6, LaunchFacts
<1>8. \A w, k : Operand(0, w, k) = Operand(1, w, k)
  BY <1>3 DEF Operand
<1>9. /\ Mod(0) \in Moduli /\ Mod(1) = Mod(0)
      /\ Ring(0) = Z(Mod(0)) /\ Ring(1) = Z(Mod(0))
      /\ \A v : Encoded(1, v) = Encoded(0, v)
  <2>1. Mod(0) \in Moduli
    BY <1>1, <1>6, RingFacts
  <2> QED BY <1>2, <2>1 DEF Ring, Mod, Format, Encoded
<1> QED BY <1>1, <1>2, <1>3, <1>5, <1>6, <1>7, <1>8, <1>9

Recombines(w) == ZAdd(Mod(0), ShareOf(0, w), ShareOf(1, w)) = launch.clear[w]

LEMMA InputRecombines ==
  ASSUME ProtocolInv, ShareInv, SameStart, NEW w \in Wires(Circ(0)),
         CanRead(0, w), CanRead(1, w), Gate(0, w).kind = "input"
  PROVE  Recombines(w)
<1> DEFINE q   == Gate(0, w).owner
           own == InputsOf(Circ(0), q)
<1>0. /\ launch \in Launches /\ 0 \in Party /\ 1 \in Party /\ Circ(0) = Circ(1)
      /\ IsCircuit(Circ(0)) /\ Gate(0, w) = Gate(1, w) /\ Gate(0, w) = Circ(0).gates[w]
      /\ Means(Circ(0), Format(0), launch.input, launch.clear)
  BY SameFacts
<1>n. /\ Mod(0) \in Moduli /\ Mod(1) = Mod(0) /\ Ring(0) = Z(Mod(0)) /\ Ring(1) = Z(Mod(0))
      /\ \A v : Encoded(1, v) = Encoded(0, v)
  BY SameFacts
<1>m. PICK n \in Moduli : n = Mod(0)
  BY <1>n
<1>1. q \in Party
  BY <1>0 DEF IsCircuit, WellFormedGate
<1>2. ASSUME NEW p \in Party PROVE \E k \in 1 .. Len(own) : FromInput(p, w, q, k)
  <2>1. CanRead(p, w) /\ Gate(p, w) = Gate(0, w) /\ Circ(p) = Circ(0)
    BY <1>0 DEF Party
  <2>2. Derived(p, w)
    BY <2>1, Readings DEF ShareInv, Written
  <2> QED BY <2>1, <2>2 DEF Derived
<1>3. PICK k \in 1 .. Len(own) : FromInput(0, w, q, k)
  BY <1>0, <1>2
<1>4. PICK j \in 1 .. Len(own) : FromInput(1, w, q, j)
  BY <1>0, <1>2
<1>5. own[k] = w /\ own[j] = w
  BY <1>0, <1>3, <1>4 DEF FromInput
<1>6. j = k
  <2>1. \A h, i \in 1 .. Len(own) : own[h] = own[i] => h = i
    BY <1>0, <1>1 DEF IsCircuit
  <2> HIDE DEF own
  <2> QED BY <1>5, <2>1
<1> DEFINE s == sent[q][1][k]
           t == kept[q][k]
<1>7. SpokenInputs(q) /\ Circ(q) = Circ(0)
  BY <1>0, <1>1 DEF ShareInv, Spoken, Party
<1>8. /\ launch.input[q][w] \in Literals
      /\ s \in Ring(q) /\ t \in Ring(q)
      /\ ZAdd(Mod(q), s, t) = Encoded(q, launch.input[q][w])
      /\ Encoded(q, launch.input[q][w]) \in Ring(q)
  BY <1>3, <1>5, <1>7 DEF SpokenInputs, FromInput
<1>v. PICK value : value = Encoded(q, launch.input[q][w])
  OBVIOUS
<1>w. /\ Mod(q) = n /\ Ring(q) = Z(n)
      /\ s \in Z(n) /\ t \in Z(n) /\ ZAdd(n, s, t) = value /\ value \in Ring(q)
      /\ value = Encoded(0, launch.input[q][w])
  BY <1>1, <1>8, <1>m, <1>n, <1>v DEF Party
<1>9. launch.clear[w] = value
  <2>1. value # Unencodable
    BY <1>0, <1>1, <1>w, RingFacts
  <2>2. Encoding[Format(0)][launch.input[q][w]] = value
    BY <1>w DEF Encoded
  <2> QED BY <1>0, <1>8, <2>1, <2>2 DEF Means
<1>10. /\ wires[0][w] = ShareValue(IF q = 0 THEN t ELSE ZRaw(n, s))
       /\ wires[1][w] = ShareValue(IF q = 1 THEN t ELSE ZRaw(n, s))
  BY <1>3, <1>4, <1>6, <1>m, <1>n DEF FromInput
<1> HIDE DEF s, t
<1>11. ZRaw(n, s) = s
  BY <1>w, ZInt
<1>12. /\ ShareOf(0, w) = IF q = 0 THEN t ELSE s
       /\ ShareOf(1, w) = IF q = 1 THEN t ELSE s
  BY <1>0, <1>10, <1>11, Readings
<1>13. q = 0 \/ q = 1
  BY <1>1 DEF Party
<1> HIDE DEF q
<1>14. ZAdd(n, s, t) = ZAdd(n, t, s)
  BY <1>w, AddCommutes
<1> QED BY <1>9, <1>12, <1>13, <1>14, <1>m, <1>w DEF Recombines

LEMMA ConstRecombines ==
  ASSUME ProtocolInv, ShareInv, SameStart, NEW w \in Wires(Circ(0)),
         CanRead(0, w), CanRead(1, w), Gate(0, w).kind = "const"
  PROVE  Recombines(w)
<1> DEFINE l == Gate(0, w).literal
<1>0. /\ launch \in Launches /\ 0 \in Party /\ 1 \in Party /\ Circ(0) = Circ(1)
      /\ Gate(0, w) = Gate(1, w) /\ Gate(0, w) = Circ(0).gates[w]
      /\ Means(Circ(0), Format(0), launch.input, launch.clear)
  BY SameFacts
<1>1. Derived(0, w) /\ Derived(1, w)
  BY <1>0, Readings DEF ShareInv, Written
<1>2. wires[0][w] = ConstValue(l) /\ wires[1][w] = ConstValue(l)
  BY <1>0, <1>1 DEF Derived
<1>3. ShareOf(0, w) = Encoded(0, l) /\ Encoded(0, l) # Unencodable /\ ShareOf(1, w) = 0
  BY <1>0, <1>2, Readings
<1>4. l \in Literals
  BY <1>0, LaunchFacts
<1>5. PICK n \in Moduli : n = Mod(0) /\ Ring(0) = Z(n)
  BY SameFacts
<1>6. PICK value \in Z(n) : value = Encoded(0, l)
  BY <1>0, <1>3, <1>4, <1>5, RingFacts
<1>7. launch.clear[w] = value
  BY <1>0, <1>3, <1>4, <1>6 DEF Means, Encoded
<1>8. ZAdd(n, value, 0) = value
  BY AddZero
<1> QED BY <1>3, <1>5, <1>6, <1>7, <1>8 DEF Recombines

(* The operands of a gate that was evaluated.                              *)
LEMMA OperandsRecombine ==
  ASSUME ProtocolInv, SameStart, NEW w \in Wires(Circ(0)),
         Gate(0, w).kind \in {"add", "mul"},
         \A k \in {1, 2} : CanRead(0, Operand(0, w, k)) /\ CanRead(1, Operand(0, w, k)),
         \A v \in 1 .. w - 1 : CanRead(0, v) /\ CanRead(1, v) => Recombines(v)
  PROVE  \A k \in {1, 2} :
           /\ ShareOf(0, Operand(0, w, k)) \in Ring(0) /\ ShareOf(1, Operand(0, w, k)) \in Ring(0)
           /\ ZAdd(Mod(0), ShareOf(0, Operand(0, w, k)), ShareOf(1, Operand(0, w, k)))
                = launch.clear[Gate(0, w).args[k]]
<1>0. /\ launch \in Launches /\ TypeOK /\ 0 \in Party /\ 1 \in Party /\ Circ(0) = Circ(1)
      /\ IsCircuit(Circ(0)) /\ Gate(0, w) = Circ(0).gates[w]
      /\ Ring(1) = Ring(0)
  BY SameFacts
<1>1. Gate(0, w).args \in Seq(1 .. w - 1) /\ Len(Gate(0, w).args) = 2
  BY <1>0 DEF IsCircuit, WellFormedGate
<1> TAKE k \in {1, 2}
<1> DEFINE v == Operand(0, w, k)
<1>2. v \in 1 .. w - 1 /\ v \in Wires(Circ(0))
  <2>1. \A i \in 1 .. 2 : Gate(0, w).args[i] \in 1 .. w - 1
    BY <1>1, Elements
  <2>2. v \in 1 .. w - 1
    BY <2>1 DEF Operand
  <2> QED BY <2>2 DEF Wires
<1>3. CanRead(0, v) /\ CanRead(1, v)
  OBVIOUS
<1>4. ShareOf(0, v) \in Ring(0) /\ ShareOf(1, v) \in Ring(0)
  BY <1>0, <1>2, <1>3, WireFacts DEF CanRead
<1>5. Recombines(v)
  BY <1>2, <1>3
<1> QED BY <1>4, <1>5 DEF Recombines, Operand

LEMMA AddRecombines ==
  ASSUME ProtocolInv, ShareInv, SameStart, NEW w \in Wires(Circ(0)),
         CanRead(0, w), CanRead(1, w), Gate(0, w).kind = "add",
         \A v \in 1 .. w - 1 : CanRead(0, v) /\ CanRead(1, v) => Recombines(v)
  PROVE  Recombines(w)
<1> DEFINE x(p) == ShareOf(p, Operand(0, w, 1))
           y(p) == ShareOf(p, Operand(0, w, 2))
<1>0. /\ launch \in Launches /\ 0 \in Party /\ 1 \in Party /\ Circ(0) = Circ(1)
      /\ Gate(0, w) = Gate(1, w) /\ Gate(0, w) = Circ(0).gates[w]
      /\ \A k : Operand(0, w, k) = Operand(1, w, k)
      /\ Means(Circ(0), Format(0), launch.input, launch.clear)
  BY SameFacts
<1>m. PICK n \in Moduli : n = Mod(0) /\ n = Mod(1) /\ Ring(0) = Z(n)
  BY SameFacts
<1>1. Derived(0, w) /\ Derived(1, w)
  BY <1>0, Readings DEF ShareInv, Written
<1>2. ASSUME NEW p \in Party
      PROVE  /\ CanRead(p, Operand(0, w, 1)) /\ CanRead(p, Operand(0, w, 2))
             /\ wires[p][w] = ShareValue(ZAdd(n, x(p), y(p)))
  <2>1. /\ Derived(p, w) /\ Gate(p, w).kind = "add" /\ Mod(p) = n
        /\ \A k : Operand(p, w, k) = Operand(0, w, k)
    BY <1>0, <1>1, <1>m DEF Party
  <2> QED BY <2>1 DEF Derived
<1>3. \A k \in {1, 2} : CanRead(0, Operand(0, w, k)) /\ CanRead(1, Operand(0, w, k))
  BY <1>0, <1>2
<1>4. /\ x(0) \in Z(n) /\ x(1) \in Z(n) /\ ZAdd(n, x(0), x(1)) = launch.clear[Gate(0, w).args[1]]
      /\ y(0) \in Z(n) /\ y(1) \in Z(n) /\ ZAdd(n, y(0), y(1)) = launch.clear[Gate(0, w).args[2]]
  BY <1>3, <1>m, OperandsRecombine
<1>5. ShareOf(0, w) = ZAdd(n, x(0), y(0)) /\ ShareOf(1, w) = ZAdd(n, x(1), y(1))
  BY <1>0, <1>2, Readings
<1>6. launch.clear[w] = ZAdd(n, launch.clear[Gate(0, w).args[1]], launch.clear[Gate(0, w).args[2]])
  BY <1>0, <1>m DEF Means, Mod
<1> HIDE DEF x, y
<1> QED BY <1>4, <1>5, <1>6, <1>m, SumsRecombine DEF Recombines

LEMMA ProductOfWire ==
  ASSUME ProtocolInv, ShareInv, SameStart, NEW w \in Wires(Circ(0)),
         CanRead(0, w), CanRead(1, w), Gate(0, w).kind = "mul",
         \A v \in 1 .. w - 1 : CanRead(0, v) /\ CanRead(1, v) => Recombines(v)
  PROVE  Recombines(w)
<1> DEFINE c == Circ(0)
           x(p) == ShareOf(p, Operand(0, w, 1))
           y(p) == ShareOf(p, Operand(0, w, 2))
           r == launch.deal[0].triples[Gate(0, w).triple]
<1>0. /\ launch \in Launches /\ 0 \in Party /\ 1 \in Party /\ Circ(0) = Circ(1)
      /\ IsCircuit(Circ(0)) /\ launch.deal[0] = launch.deal[1]
      /\ Gate(0, w) = Gate(1, w) /\ Gate(0, w) = Circ(0).gates[w]
      /\ \A k : Operand(0, w, k) = Operand(1, w, k)
      /\ Means(Circ(0), Format(0), launch.input, launch.clear)
  BY SameFacts
<1>m. PICK n \in Moduli : n = Mod(0) /\ n = Mod(1) /\ Ring(0) = Z(n)
  BY SameFacts
<1>1. Derived(0, w) /\ Derived(1, w)
  BY <1>0, Readings DEF ShareInv, Written
<1>2. PICK a \in Places(c) : FromProduct(0, w, a)
  BY <1>0, <1>1 DEF Derived
<1>3. PICK b \in Places(c) : FromProduct(1, w, b)
  BY <1>0, <1>1 DEF Derived
<1>4. a = b /\ At(c, a) = w
  BY <1>0, <1>2, <1>3 DEF IsCircuit, WellScheduled, FromProduct
<1> DEFINE m == MessageOf(c, a[1])
           h1(p) == HalfOf(p, w, 1)
           h2(p) == HalfOf(p, w, 2)
<1>5. ASSUME NEW p \in Party
      PROVE  /\ CanRead(p, Operand(0, w, 1)) /\ CanRead(p, Operand(0, w, 2))
             /\ sent[p][m][WordOf(c, a, 1)] = h1(p) /\ sent[p][m][WordOf(c, a, 2)] = h2(p)
  <2>1. Circ(p) = c /\ (\A k : Operand(p, w, k) = Operand(0, w, k)) /\ SpokenRounds(p)
    BY <1>0 DEF ShareInv, Spoken, Party
  <2>2. m <= Len(sent[p]) /\ a[2] \in Interactive(c, a[1])
    BY <1>0, <1>2, Peers DEF FromProduct, Party
  <2>3. Opens(p, a)
    BY <2>1, <2>2 DEF SpokenRounds
  <2> QED BY <1>4, <2>1, <2>3 DEF Opens
<1>6. \A k \in {1, 2} : CanRead(0, Operand(0, w, k)) /\ CanRead(1, Operand(0, w, k))
  BY <1>0, <1>5
<1>7. /\ x(0) \in Z(n) /\ x(1) \in Z(n) /\ ZAdd(n, x(0), x(1)) = launch.clear[Gate(0, w).args[1]]
      /\ y(0) \in Z(n) /\ y(1) \in Z(n) /\ ZAdd(n, y(0), y(1)) = launch.clear[Gate(0, w).args[2]]
  BY <1>6, <1>m, OperandsRecombine
<1>8. r \in [1 .. 5 -> Z(n)] /\ \A p \in Party : Triple(p, w) = Dealt(n, p, r)
  <2>1. r \in [1 .. 5 -> Z(n)]
    BY <1>0, <1>m, TripleFacts
  <2> QED BY <1>0, <1>m, <2>1 DEF Triple, Party
<1>9. \A p \in Party : /\ h1(p) = Masked(n, x(p), y(p), Dealt(n, p, r))[1]
                       /\ h2(p) = Masked(n, x(p), y(p), Dealt(n, p, r))[2]
  BY <1>0, <1>8, <1>m DEF HalfOf, Party
<1>10. /\ wires[0][w] = ShareValue(Product(n, 0, ZAdd(n, h1(0), ZRaw(n, h1(1))),
                                              ZAdd(n, h2(0), ZRaw(n, h2(1))), Dealt(n, 0, r)))
       /\ wires[1][w] = ShareValue(Product(n, 1, ZAdd(n, h1(1), ZRaw(n, h1(0))),
                                              ZAdd(n, h2(1), ZRaw(n, h2(0))), Dealt(n, 1, r)))
  <2>1. Peer(0) = 1 /\ Peer(1) = 0
    BY Peers
  <2> QED BY <1>0, <1>2, <1>3, <1>4, <1>5, <1>8, <1>m, <2>1 DEF FromProduct, Sum
<1>11. launch.clear[w] = ZMul(n, launch.clear[Gate(0, w).args[1]], launch.clear[Gate(0, w).args[2]])
  BY <1>0, <1>m DEF Means, Mod
<1> HIDE DEF x, y, r
<1>12. ASSUME NEW p \in Party PROVE h1(p) \in Z(n) /\ h2(p) \in Z(n)
  <2>1. x(p) \in Z(n) /\ y(p) \in Z(n) /\ Dealt(n, p, r).a \in Z(n) /\ Dealt(n, p, r).b \in Z(n)
    BY <1>7, <1>8, DealtHalves DEF Party
  <2>2. ZSub(n, x(p), Dealt(n, p, r).a) \in Z(n) /\ ZSub(n, y(p), Dealt(n, p, r).b) \in Z(n)
    BY <2>1, ZInt, ZOperations
  <2> QED BY <1>9, <2>2 DEF Masked
<1> HIDE DEF h1, h2
<1> DEFINE d == ZAdd(n, h1(0), h1(1))
           e == ZAdd(n, h2(0), h2(1))
<1>13. /\ d = ZAdd(n, Masked(n, x(0), y(0), Dealt(n, 0, r))[1], Masked(n, x(1), y(1), Dealt(n, 1, r))[1])
       /\ e = ZAdd(n, Masked(n, x(0), y(0), Dealt(n, 0, r))[2], Masked(n, x(1), y(1), Dealt(n, 1, r))[2])
  BY <1>0, <1>9
<1>14. /\ ZAdd(n, h1(0), ZRaw(n, h1(1))) = d /\ ZAdd(n, h2(0), ZRaw(n, h2(1))) = e
       /\ ZAdd(n, h1(1), ZRaw(n, h1(0))) = d /\ ZAdd(n, h2(1), ZRaw(n, h2(0))) = e
  BY <1>0, <1>12, AddCommutes
<1> HIDE DEF d, e
<1>15. ZAdd(n, Product(n, 0, d, e, Dealt(n, 0, r)), Product(n, 1, d, e, Dealt(n, 1, r)))
         = ZMul(n, ZAdd(n, x(0), x(1)), ZAdd(n, y(0), y(1)))
  BY <1>7, <1>8, <1>13, ProductRecombines
<1>16. ShareOf(0, w) = Product(n, 0, d, e, Dealt(n, 0, r)) /\ ShareOf(1, w) = Product(n, 1, d, e, Dealt(n, 1, r))
  BY <1>0, <1>10, <1>14, Readings
<1> QED BY <1>7, <1>11, <1>15, <1>16, <1>m DEF Recombines

LEMMA InvSharesRecombine == ProtocolInv /\ ShareInv => SharesRecombine
<1> SUFFICES ASSUME ProtocolInv, ShareInv, SameStart,
                    NEW bad, bad = {w \in Wires(Circ(0)) :
                                      CanRead(0, w) /\ CanRead(1, w) /\ ~Recombines(w)}
             PROVE  bad = {}
  BY DEF SharesRecombine, CanRead, Recombines
<1> SUFFICES ASSUME bad # {} PROVE FALSE
  OBVIOUS
<1>1. bad \subseteq Nat
  BY DEF Wires
<1>2. PICK w \in bad : \A v \in bad : w <= v
  BY <1>1, Least
<1>3. /\ w \in Wires(Circ(0)) /\ CanRead(0, w) /\ CanRead(1, w) /\ ~Recombines(w)
  OBVIOUS
<1>4. \A v \in 1 .. w - 1 : CanRead(0, v) /\ CanRead(1, v) => Recombines(v)
  <2> TAKE v \in 1 .. w - 1
  <2>1. v \in Wires(Circ(0)) /\ ~(w <= v)
    BY <1>3 DEF Wires
  <2> QED BY <1>2, <2>1
<1>5. Derived(0, w)
  <2>1. 0 \in Party
    BY DEF Party
  <2> QED BY <1>3, <2>1, Readings DEF ShareInv, Written
<1>6. Gate(0, w).kind \in {"input", "const", "add", "mul"}
  BY <1>5 DEF Derived
<1> QED BY <1>3, <1>4, <1>6, InputRecombines, ConstRecombines, AddRecombines, ProductOfWire

LEMMA InvOutputsCorrect ==
  ProtocolInv /\ ExchangeInv /\ AnswerInv /\ ShareInv => OutputsCorrect
<1> SUFFICES ASSUME ProtocolInv, ExchangeInv, AnswerInv, ShareInv, SameStart,
                    NEW p \in Party, pc[p] = "done"
             PROVE  outputs[p] = [k \in 1 .. Len(Circ(p).outputs) |->
                                    launch.clear[Circ(p).outputs[k]]]
  BY DEF OutputsCorrect
<1> DEFINE q    == Peer(p)
           c    == Circ(0)
           last == MessageOf(c, Len(c.rounds)) + 1
<1>0. /\ launch \in Launches /\ TypeOK /\ 0 \in Party /\ 1 \in Party
      /\ Circ(0) = Circ(1) /\ (\A w : Gate(0, w) = Gate(1, w) /\ Gate(0, w) = c.gates[w])
      /\ Means(c, Format(0), launch.input, launch.clear)
  BY SameFacts
<1>m. PICK n \in Moduli : n = Mod(0) /\ n = Mod(1) /\ Ring(0) = Z(n) /\ Ring(1) = Z(n)
  BY SameFacts
<1>1. Circ(p) = c /\ Circ(q) = c /\ q \in Party /\ q # p
      /\ (\A k : Source(q, k) = Source(p, k) /\ Source(p, k) = Gate(0, c.outputs[k]).args[1])
  BY <1>0, Peers DEF Party, Source
<1>2. Len(sent[p]) = last /\ Len(got[p]) = last
  BY <1>1 DEF ShareInv, Where, AnswerInv, Concluded
<1>3. last \in 1 .. Len(got[p])
  <2>1. Len(got[p]) \in Nat
    BY DEF ExchangeInv, ExchangeTypeOK
  <2>2. Len(got[p]) > 0
    BY <1>2 DEF AnswerInv, Concluded
  <2> HIDE DEF last
  <2> QED BY <1>2, <2>1, <2>2
<1> HIDE DEF last
<1>4. Len(sent[q]) >= last /\ got[p][last] = sent[q][last]
  <2>1. Len(got[p]) <= Len(sent[q]) /\ got[p][last] = sent[q][last]
    BY <1>3 DEF ExchangeInv, Fifo
  <2>2. Len(sent[q]) \in Nat /\ last \in Nat
    BY <1>1, <1>3 DEF ExchangeInv, ExchangeTypeOK
  <2> QED BY <1>2, <2>1, <2>2
<1>5. last \in Nat /\ last >= last
  BY <1>3
<1>6. ASSUME NEW o \in {p, q}
      PROVE  /\ Len(sent[o][last]) = Len(c.outputs)
             /\ \A k \in 1 .. Len(c.outputs) :
                  CanRead(o, Source(p, k)) /\ sent[o][last][k] = ShareOf(o, Source(p, k))
  <2>1. SpokenOutputs(o) /\ Circ(o) = c /\ Len(sent[o]) >= last
        /\ (\A k : Source(o, k) = Source(p, k))
    BY <1>1, <1>2, <1>4, <1>5 DEF ShareInv, Spoken
  <2> QED BY <2>1 DEF SpokenOutputs, last
<1>7. outputs[p] = [k \in 1 .. Len(c.outputs) |-> ZAdd(n, sent[p][last][k], ZRaw(n, sent[q][last][k]))]
  <2>1. Outgoing(p) = sent[p][last] /\ Len(Outgoing(p)) = Len(c.outputs)
    BY <1>2, <1>6 DEF Outgoing
  <2>2. Mod(p) = n
    BY <1>m DEF Party
  <2> QED BY <1>2, <1>4, <2>1, <2>2 DEF AnswerInv, Concluded
<1>8. ASSUME NEW k \in 1 .. Len(c.outputs)
      PROVE  ZAdd(n, sent[p][last][k], ZRaw(n, sent[q][last][k])) = launch.clear[c.outputs[k]]
  <2> DEFINE o == c.outputs[k]
             v == Source(p, k)
  <2>1. o \in Wires(c) /\ Gate(0, o).kind = "output"
    BY <1>0, LaunchFacts, Elements
  <2>2. v \in Wires(c) /\ launch.clear[o] = launch.clear[v]
    <3>1. v = Gate(0, o).args[1] /\ Gate(0, o) = c.gates[o]
      BY <1>0, <1>1
    <3>2. v \in Wires(c)
      BY <1>0, <2>1, <3>1, OperandFacts
    <3> QED BY <1>0, <2>1, <3>1, <3>2 DEF Means
  <2>3. /\ CanRead(p, v) /\ CanRead(q, v)
        /\ sent[p][last][k] = ShareOf(p, v) /\ sent[q][last][k] = ShareOf(q, v)
    BY <1>6
  <2> HIDE DEF v, o
  <2>4. ShareOf(p, v) \in Z(n) /\ ShareOf(q, v) \in Z(n)
    BY <1>0, <1>1, <1>m, <2>2, <2>3, WireFacts DEF CanRead, Party
  <2>5. (p = 0 /\ q = 1) \/ (p = 1 /\ q = 0)
    BY Peers DEF Party
  <2>6. ZAdd(n, ShareOf(0, v), ShareOf(1, v)) = launch.clear[v]
    BY <1>m, <2>2, <2>3, <2>5, InvSharesRecombine DEF SharesRecombine, CanRead
  <2>7. ZAdd(n, ShareOf(p, v), ZRaw(n, ShareOf(q, v))) = launch.clear[v]
    BY <2>4, <2>5, <2>6, AddCommutes
  <2> QED BY <2>2, <2>3, <2>7 DEF o
<1> QED BY <1>1, <1>7, <1>8

-----------------------------------------------------------------------------
(* The invariant is kept.  First what a step leaves alone: nothing that    *)
(* was sent, kept or assigned is ever taken back.                          *)
Grows ==
  /\ launch' = launch
  /\ \A q \in Party :
       /\ Len(sent[q]) \in Nat /\ Len(sent'[q]) \in Nat /\ Len(sent[q]) <= Len(sent'[q])
       /\ \A j \in 1 .. Len(sent[q]) : sent'[q][j] = sent[q][j]

Lasting(p) ==
  /\ \A w \in Wires(Circ(p)) : wires[p][w] # Unset => wires'[p][w] = wires[p][w]
  /\ Len(sent[p]) >= 1 => kept'[p] = kept[p]

LEMMA RunGrows ==
  ASSUME ProtocolInv, NEW p \in Party, Run(p) \/ Kill(p)
  PROVE  Grows
<1>0. ExchangeTypeOK /\ ProtocolInv'
  BY RunStepped DEF ProtocolInv, Stepped
<1>1. \A q \in Party : sent[q] \in Seq(Message) /\ Len(sent[q]) \in Nat
  BY <1>0 DEF ExchangeTypeOK
<1>2. launch' = launch
  <2> USE DEF computation
  <2>1. CASE EvaluateGate(p)
    BY <2>1 DEF EvaluateGate, PassGate, EvalConst, EvalAdd, RefuseAdd, QueueGate, Assign, Step
  <2>2. CASE \/ RefuseInputs(p) \/ SkipRound(p) \/ RefuseRound(p) \/ RefuseReveal(p)
             \/ PeerLost(p) \/ Exit(p) \/ Kill(p)
    BY <2>2 DEF RefuseInputs, SkipRound, RefuseRound, RefuseReveal, PeerLost, Exit, Kill
  <2>3. CASE ShareInputs(p) \/ OpenRound(p) \/ RevealOutputs(p)
    BY <2>3 DEF ShareInputs, OpenRound, RevealOutputs
  <2>4. CASE ReceiveInputs(p) \/ CloseRound(p) \/ ReceiveOutputs(p)
    BY <2>4 DEF ReceiveInputs, CloseRound, ReceiveOutputs
  <2> QED BY <2>1, <2>2, <2>3, <2>4 DEF Run
<1>3. CASE UNCHANGED sent
  BY <1>1, <1>2, <1>3 DEF Grows
<1>4. ASSUME NEW payload \in Message, Call(p, payload) PROVE Grows
  <2>1. sent' = [sent EXCEPT ![p] = Append(sent[p], payload)]
    BY <1>4 DEF Call
  <2>2. /\ sent'[p] = Append(sent[p], payload)
        /\ \A q \in Party : q # p => sent'[q] = sent[q]
    BY <1>0, <2>1 DEF ExchangeTypeOK
  <2>3. /\ Len(sent'[p]) = Len(sent[p]) + 1
        /\ \A j \in 1 .. Len(sent[p]) : sent'[p][j] = sent[p][j]
    BY <1>1, <2>2
  <2> QED BY <1>1, <1>2, <2>2, <2>3 DEF Grows
<1>5. ExchangeStep(p) \/ UNCHANGED exchangeVars
  BY RunStepped DEF Stepped
<1> QED BY <1>3, <1>4, <1>5 DEF ExchangeStep, Return, Abort, Close, Crash, exchangeVars

(* The peer's own variables are not touched.                               *)
Alone(q) ==
  /\ pc'[q] = pc[q] /\ place'[q] = place[q] /\ queue'[q] = queue[q]
  /\ kept'[q] = kept[q] /\ wires'[q] = wires[q] /\ sent'[q] = sent[q]

LEMMA PeerAlone ==
  ASSUME ProtocolInv, NEW p \in Party, Run(p) \/ Kill(p)
  PROVE  Alone(Peer(p))
<1>0. /\ Shaped /\ Peer(p) # p /\ Peer(p) \in Party
  BY Peers DEF ProtocolInv
<1>1. Kept(Peer(p))
  BY PeerKept
<1>2. /\ place'[Peer(p)] = place[Peer(p)] /\ queue'[Peer(p)] = queue[Peer(p)]
      /\ kept'[Peer(p)] = kept[Peer(p)] /\ wires'[Peer(p)] = wires[Peer(p)]
  <2> USE <1>0 DEF Shaped, Fail, Goto, computation, NextRound
  <2>1. CASE EvaluateGate(p)
    BY <2>1 DEF EvaluateGate, PassGate, EvalConst, EvalAdd, RefuseAdd, QueueGate, Assign, Step
  <2>2. CASE \/ RefuseInputs(p) \/ SkipRound(p) \/ RefuseRound(p) \/ RefuseReveal(p)
             \/ PeerLost(p) \/ Exit(p) \/ Kill(p)
    BY <2>2 DEF RefuseInputs, SkipRound, RefuseRound, RefuseReveal, PeerLost, Exit, Kill
  <2>3. CASE ShareInputs(p) \/ OpenRound(p) \/ RevealOutputs(p)
    BY <2>3 DEF ShareInputs, OpenRound, RevealOutputs
  <2>4. CASE ReceiveInputs(p) \/ CloseRound(p) \/ ReceiveOutputs(p)
    BY <2>4 DEF ReceiveInputs, CloseRound, ReceiveOutputs
  <2> QED BY <2>1, <2>2, <2>3, <2>4 DEF Run
<1> QED BY <1>1, <1>2 DEF Kept, Alone

(* What a party could read it can still read.                              *)
LEMMA ReadsLast ==
  ASSUME launch' = launch, NEW p \in Party, Lasting(p),
         NEW w \in Wires(Circ(p)), CanRead(p, w)
  PROVE  CanRead(p, w)' /\ ShareOf(p, w)' = ShareOf(p, w)
<1>1. wires[p][w] # Unset
  BY Readings
<1>2. wires'[p][w] = wires[p][w]
  BY <1>1 DEF Lasting
<1> QED BY <1>2, RingLasts DEF CanRead, WireFault, ShareOf

LEMMA OperandWires ==
  ASSUME launch \in Launches, NEW p \in Party, NEW w \in Wires(Circ(p)),
         Gate(p, w).kind \in {"add", "mul"}
  PROVE  Operand(p, w, 1) \in Wires(Circ(p)) /\ Operand(p, w, 2) \in Wires(Circ(p))
<1>1. /\ \A k \in 1 .. Len(Gate(p, w).args) : Gate(p, w).args[k] \in Wires(Circ(p))
      /\ Len(Gate(p, w).args) = 2
  BY OperandFacts
<1>2. \A k \in 1 .. 2 : Gate(p, w).args[k] \in Wires(Circ(p))
  BY <1>1
<1> QED BY <1>2 DEF Operand

(* Nor does what a wire was computed from change.                          *)
LEMMA DerivedLasts ==
  ASSUME ProtocolInv, Grows, NEW p \in Party, Lasting(p),
         NEW w \in Wires(Circ(p)), wires[p][w] # Unset, Derived(p, w)
  PROVE  Derived(p, w)'
<1>0. /\ launch' = launch /\ launch \in Launches /\ Circ(p)' = Circ(p)
      /\ (\A v : Gate(p, v)' = Gate(p, v)) /\ (\A v, k : Operand(p, v, k)' = Operand(p, v, k))
      /\ wires'[p][w] = wires[p][w] /\ Mod(p)' = Mod(p)
  BY RingLasts DEF Grows, ProtocolInv, Circ, Gate, Operand, Lasting
<1>1. CASE Gate(p, w).kind = "input"
  <2>1. PICK q \in Party : q = Gate(p, w).owner
    BY <1>0, <1>1, LaunchFacts DEF WellFormedGate, Gate
  <2>2. PICK k \in 1 .. Len(InputsOf(Circ(p), q)) : FromInput(p, w, q, k)
    BY <1>1, <2>1 DEF Derived
  <2>3. Len(sent[q]) >= 1
    BY <2>2 DEF FromInput
  <2>4. Len(sent'[q]) >= 1 /\ sent'[q][1] = sent[q][1] /\ (q = p => kept'[p] = kept[p])
    BY <2>3 DEF Grows, Lasting
  <2>5. FromInput(p, w, q, k)'
    BY <1>0, <2>2, <2>4 DEF FromInput
  <2> QED BY <1>0, <1>1, <2>1, <2>2, <2>5 DEF Derived
<1>2. CASE Gate(p, w).kind = "const"
  BY <1>0, <1>2 DEF Derived
<1>3. CASE Gate(p, w).kind = "add"
  <2>1. /\ CanRead(p, Operand(p, w, 1)) /\ CanRead(p, Operand(p, w, 2))
        /\ wires[p][w] = ShareValue(ZAdd(Mod(p), ShareOf(p, Operand(p, w, 1)), ShareOf(p, Operand(p, w, 2))))
    BY <1>3 DEF Derived
  <2> DEFINE u == Operand(p, w, 1)
             v == Operand(p, w, 2)
  <2>2. u \in Wires(Circ(p)) /\ v \in Wires(Circ(p))
    BY <1>0, <1>3, OperandWires
  <2>3. u' = u /\ v' = v
    BY <1>0
  <2> HIDE DEF u, v
  <2>4. /\ CanRead(p, u)' /\ ShareOf(p, u)' = ShareOf(p, u)
        /\ CanRead(p, v)' /\ ShareOf(p, v)' = ShareOf(p, v)
    BY <1>0, <2>1, <2>2, ReadsLast DEF u, v
  <2> QED BY <1>0, <1>3, <2>1, <2>3, <2>4 DEF Derived, u, v
<1>4. CASE Gate(p, w).kind = "mul"
  <2>1. PICK x \in Places(Circ(p)) : FromProduct(p, w, x)
    BY <1>4 DEF Derived
  <2>2. PICK m \in Nat : m = MessageOf(Circ(p), x[1]) /\ m >= 1
    <3>1. x[1] \in Nat
      BY DEF Places
    <3>2. Count(Talking(Circ(p)), x[1]) \in Nat
      BY <3>1, Counting
    <3> QED BY <3>2 DEF MessageOf
  <2>3. m <= Len(sent[p]) /\ m <= Len(sent[Peer(p)]) /\ Peer(p) \in Party
    BY <2>1, <2>2, Peers DEF FromProduct
  <2>4. /\ m <= Len(sent'[p]) /\ m <= Len(sent'[Peer(p)])
        /\ sent'[p][m] = sent[p][m] /\ sent'[Peer(p)][m] = sent[Peer(p)][m]
    BY <2>2, <2>3 DEF Grows
  <2>5. Triple(p, w)' = Triple(p, w)
    BY <1>0, RingLasts DEF Triple
  <2>6. \A j : Sum(p, m, j)' = Sum(p, m, j)
    BY <1>0, <2>4 DEF Sum
  <2>7. FromProduct(p, w, x)'
    BY <1>0, <2>1, <2>2, <2>4, <2>5, <2>6 DEF FromProduct
  <2> QED BY <1>0, <1>4, <2>7 DEF Derived
<1> QED BY <1>1, <1>2, <1>3, <1>4 DEF Derived

(* The numbers of the messages.                                            *)
LEMMA Messages ==
  ASSUME NEW c
  PROVE  /\ \A r \in Nat : MessageOf(c, r) \in Nat /\ MessageOf(c, r) >= 1
         /\ \A r \in Nat : MessageOf(c, r + 1) = MessageOf(c, r) + IF r + 1 \in Talking(c) THEN 1 ELSE 0
         /\ \A r, s \in Nat : r <= s => MessageOf(c, r) <= MessageOf(c, s)
         /\ MessageOf(c, 0) = 1
         /\ \A r \in Talking(c) : r \in Nat \ {0} /\ MessageOf(c, r) >= 2
         /\ \A r, s \in Talking(c) : MessageOf(c, r) = MessageOf(c, s) => r = s
<1> DEFINE S == Talking(c)
<1>1. S \subseteq Nat \ {0}
  BY DEF Talking
<1> HIDE DEF S
<1>2. \A r \in Nat : /\ Count(S, r) \in Nat /\ Count(S, 0) = 0
                     /\ Count(S, r + 1) = Count(S, r) + IF r + 1 \in S THEN 1 ELSE 0
  BY Counting
<1>3. \A r, s \in Nat : r <= s => Count(S, r) <= Count(S, s)
  BY CountGrows
<1>4. \A r \in S : Count(S, r) \in Nat /\ Count(S, r) >= 1
  <2> TAKE r \in S
  <2>1. r \in Nat /\ 0 \in Nat /\ 0 < r
    BY <1>1
  <2>2. Count(S, 0) < Count(S, r) /\ Count(S, r) \in Nat
    BY <2>1, CountMember
  <2> QED BY <1>2, <2>1, <2>2
<1>5. \A r, s \in S : Count(S, r) = Count(S, s) => r = s
  BY <1>1, CountTells
<1>6. \A r : MessageOf(c, r) = 1 + Count(S, r)
  BY DEF MessageOf, S
<1>7. \A r \in Nat : MessageOf(c, r) \in Nat /\ MessageOf(c, r) >= 1
  BY <1>2, <1>6
<1>8. \A r \in Nat : MessageOf(c, r + 1) = MessageOf(c, r) + IF r + 1 \in S THEN 1 ELSE 0
  <2> TAKE r \in Nat
  <2>1. Count(S, r) \in Nat /\ Count(S, r + 1) = Count(S, r) + IF r + 1 \in S THEN 1 ELSE 0
    BY <1>2
  <2> QED BY <1>6, <2>1
<1>9. \A r, s \in Nat : r <= s => MessageOf(c, r) <= MessageOf(c, s)
  BY <1>2, <1>3, <1>6
<1>10. MessageOf(c, 0) = 1
  BY <1>2, <1>6
<1>11. \A r \in S : r \in Nat \ {0} /\ MessageOf(c, r) >= 2
  BY <1>1, <1>4, <1>6
<1>12. \A r, s \in S : MessageOf(c, r) = MessageOf(c, s) => r = s
  BY <1>4, <1>5, <1>6
<1> QED BY <1>7, <1>8, <1>9, <1>10, <1>11, <1>12 DEF S

(* A place is two positive numbers, and its round one that has a message,  *)
(* if its gate is interactive.                                             *)
LEMMA PlaceFacts ==
  ASSUME launch \in Launches, NEW p \in Party, NEW x \in Places(Circ(p))
  PROVE  /\ x[1] \in Nat \ {0} /\ x[2] \in Nat \ {0} /\ x = <<x[1], x[2]>>
         /\ Len(Circ(p).rounds) \in Nat /\ x[1] <= Len(Circ(p).rounds)
         /\ x[2] <= Len(Circ(p).rounds[x[1]]) /\ Len(Circ(p).rounds[x[1]]) \in Nat
         /\ At(Circ(p), x) \in Wires(Circ(p))
         /\ x[2] \in Interactive(Circ(p), x[1]) <=> IsInteractive(Gate(p, At(Circ(p), x)))
         /\ x[2] \in Interactive(Circ(p), x[1]) => x[1] \in Talking(Circ(p))
         /\ \A y \in Places(Circ(p)) : At(Circ(p), y) = At(Circ(p), x) => y = x
<1> DEFINE c == Circ(p)
<1>1. c.rounds \in Seq(Seq(Wires(c))) /\ WellScheduled(c)
  BY LaunchFacts DEF IsCircuit
<1>2. /\ x \in (1 .. Len(c.rounds)) \X Wires(c) /\ x[2] <= Len(c.rounds[x[1]])
      /\ Len(c.rounds) \in Nat
  BY <1>1 DEF Places
<1>3. c.rounds[x[1]] \in Seq(Wires(c)) /\ Len(c.rounds[x[1]]) \in Nat
  BY <1>1, <1>2, Elements
<1>4. x[1] \in Nat \ {0} /\ x[2] \in Nat \ {0} /\ x = <<x[1], x[2]>> /\ x[1] <= Len(c.rounds)
  BY <1>2 DEF Wires
<1>5. x[2] \in 1 .. Len(c.rounds[x[1]]) /\ x[1] \in 1 .. Len(c.rounds)
  BY <1>2, <1>3, <1>4
<1>6. At(c, x) \in Wires(c)
  BY <1>3, <1>5, Elements DEF At
<1>7. x[2] \in Interactive(c, x[1]) <=> IsInteractive(Gate(p, At(c, x)))
  BY <1>5 DEF Interactive, At, Gate
<1>8. x[2] \in Interactive(c, x[1]) => x[1] \in Talking(c)
  BY <1>5 DEF Talking
<1>9. \A y \in Places(c) : At(c, y) = At(c, x) => y = x
  BY <1>1 DEF WellScheduled
<1> QED BY <1>2, <1>3, <1>4, <1>6, <1>7, <1>8, <1>9

(* What a party had sent before a step it has sent after it.               *)
LEMMA SpokenGrows ==
  ASSUME ProtocolInv, Grows, NEW p \in Party, Lasting(p), Spoken(p)
  PROVE  /\ Len(sent[p]) >= 1 => SpokenInputs(p)'
         /\ \A x \in Places(Circ(p)) :
              x[2] \in Interactive(Circ(p), x[1]) /\ MessageOf(Circ(p), x[1]) <= Len(sent[p])
                => Opens(p, x)'
         /\ Len(sent[p]) >= MessageOf(Circ(p), Len(Circ(p).rounds)) + 1 => SpokenOutputs(p)'
<1>0. /\ launch' = launch /\ launch \in Launches /\ Circ(p)' = Circ(p)
      /\ (\A v : Gate(p, v)' = Gate(p, v)) /\ (\A v, k : Operand(p, v, k)' = Operand(p, v, k))
      /\ (\A k : Source(p, k)' = Source(p, k)) /\ (\A v : Triple(p, v)' = Triple(p, v))
      /\ Mod(p)' = Mod(p) /\ Ring(p)' = Ring(p) /\ (\A v : Encoded(p, v)' = Encoded(p, v))
  BY RingLasts DEF Grows, ProtocolInv, Circ, Gate, Operand, Source, Triple
<1>1. ASSUME Len(sent[p]) >= 1 PROVE SpokenInputs(p)'
  <2>1. sent'[p][1] = sent[p][1] /\ kept'[p] = kept[p]
    BY <1>1 DEF Grows, Lasting
  <2> QED BY <1>0, <1>1, <2>1 DEF Spoken, SpokenInputs
<1>2. ASSUME NEW x \in Places(Circ(p)), x[2] \in Interactive(Circ(p), x[1]),
             MessageOf(Circ(p), x[1]) <= Len(sent[p])
      PROVE  Opens(p, x)'
  <2>1. PICK w : w = At(Circ(p), x)
    OBVIOUS
  <2>2. PICK m : m = MessageOf(Circ(p), x[1])
    OBVIOUS
  <2>3. PICK u, v : u = Operand(p, w, 1) /\ v = Operand(p, w, 2)
    OBVIOUS
  <2>4. /\ Gate(p, w).kind = "mul" /\ CanRead(p, u) /\ CanRead(p, v)
        /\ \A h \in {1, 2} : sent[p][m][WordOf(Circ(p), x, h)] = HalfOf(p, w, h)
    BY <1>2, <2>1, <2>2, <2>3 DEF Spoken, SpokenRounds, Opens
  <2>5. m \in Nat /\ m >= 1 /\ w \in Wires(Circ(p))
    BY <1>0, <2>1, <2>2, Messages, PlaceFacts
  <2>6. sent'[p][m] = sent[p][m]
    BY <1>2, <2>2, <2>5 DEF Grows
  <2>7. u \in Wires(Circ(p)) /\ v \in Wires(Circ(p))
    BY <1>0, <2>3, <2>4, <2>5, OperandWires
  <2>8. /\ CanRead(p, u)' /\ ShareOf(p, u)' = ShareOf(p, u)
        /\ CanRead(p, v)' /\ ShareOf(p, v)' = ShareOf(p, v)
    BY <1>0, <2>4, <2>7, ReadsLast
  <2>9. \A h : HalfOf(p, w, h)' = HalfOf(p, w, h)
    BY <1>0, <2>3, <2>8 DEF HalfOf
  <2>10. \A h : WordOf(Circ(p), x, h)' = WordOf(Circ(p), x, h)
    BY <1>0
  <2> QED BY <1>0, <2>1, <2>2, <2>3, <2>4, <2>6, <2>8, <2>9, <2>10 DEF Opens
<1>3. ASSUME Len(sent[p]) >= MessageOf(Circ(p), Len(Circ(p).rounds)) + 1
      PROVE  SpokenOutputs(p)'
  <2>1. PICK last : last = MessageOf(Circ(p), Len(Circ(p).rounds)) + 1
    OBVIOUS
  <2>2. Len(Circ(p).rounds) \in Nat
    BY <1>0, LaunchFacts DEF IsCircuit
  <2>3. last \in Nat /\ last >= 1
    <3>1. /\ MessageOf(Circ(p), Len(Circ(p).rounds)) \in Nat
          /\ MessageOf(Circ(p), Len(Circ(p).rounds)) >= 1
      BY <2>2, Messages
    <3> QED BY <2>1, <3>1
  <2>4. sent'[p][last] = sent[p][last]
    BY <1>3, <2>1, <2>3 DEF Grows
  <2>5. ASSUME NEW k \in 1 .. Len(Circ(p).outputs)
        PROVE  /\ CanRead(p, Source(p, k))' /\ ShareOf(p, Source(p, k))' = ShareOf(p, Source(p, k))
               /\ sent'[p][last][k] = ShareOf(p, Source(p, k))
    <3>1. PICK v : v = Source(p, k)
      OBVIOUS
    <3>2. CanRead(p, v) /\ sent[p][last][k] = ShareOf(p, v)
      BY <1>3, <2>1, <3>1 DEF Spoken, SpokenOutputs
    <3>3. v \in Wires(Circ(p))
      <4>1. Circ(p).outputs[k] \in Wires(Circ(p)) /\ Gate(p, Circ(p).outputs[k]).kind = "output"
        BY <1>0, LaunchFacts, Elements
      <4> QED BY <1>0, <3>1, <4>1, OperandFacts DEF Source
    <3>4. CanRead(p, v)' /\ ShareOf(p, v)' = ShareOf(p, v)
      BY <1>0, <3>2, <3>3, ReadsLast
    <3>5. Source(p, k)' = v
      BY <1>0, <3>1
    <3> QED BY <2>4, <3>1, <3>2, <3>4, <3>5
  <2>6. Len(sent[p][last]) = Len(Circ(p).outputs)
    BY <1>3, <2>1 DEF Spoken, SpokenOutputs
  <2> QED BY <1>0, <2>1, <2>4, <2>5, <2>6 DEF SpokenOutputs
<1> QED BY <1>1, <1>2, <1>3

(* A step that leaves the party's messages, its shares and its wires as    *)
(* they are leaves what is said of them as it is.                          *)
Silent(p) == kept'[p] = kept[p] /\ wires'[p] = wires[p] /\ sent'[p] = sent[p]

LEMMA SpokenLasts ==
  ASSUME ProtocolInv, Grows, NEW p \in Party, Lasting(p), Spoken(p),
         Len(sent'[p]) = Len(sent[p])
  PROVE  Spoken(p)'
<1>0. launch' = launch /\ Circ(p)' = Circ(p)
  BY DEF Grows, Circ
<1>1. SpokenInputs(p)'
  <2>1. CASE Len(sent[p]) >= 1
    BY <2>1, SpokenGrows
  <2>2. CASE ~(Len(sent[p]) >= 1)
    BY <2>2 DEF SpokenInputs
  <2> QED BY <2>1, <2>2
<1>2. SpokenRounds(p)'
  BY <1>0, SpokenGrows DEF SpokenRounds
<1>3. SpokenOutputs(p)'
  <2>1. CASE Len(sent[p]) >= MessageOf(Circ(p), Len(Circ(p).rounds)) + 1
    BY <2>1, SpokenGrows
  <2>2. CASE ~(Len(sent[p]) >= MessageOf(Circ(p), Len(Circ(p).rounds)) + 1)
    BY <1>0, <2>2 DEF SpokenOutputs
  <2> QED BY <2>1, <2>2
<1> QED BY <1>1, <1>2, <1>3 DEF Spoken

LEMMA WrittenLasts ==
  ASSUME ProtocolInv, Grows, NEW p \in Party, Lasting(p), Written(p),
         wires'[p] = wires[p]
  PROVE  Written(p)'
<1>0. Circ(p)' = Circ(p)
  BY DEF Grows, Circ
<1>1. ASSUME NEW w \in Wires(Circ(p)), wires[p][w] # Unset PROVE Derived(p, w)'
  BY <1>1, DerivedLasts DEF Written
<1> QED BY <1>0, <1>1 DEF Written

LEMMA SameKept ==
  ASSUME ProtocolInv, Grows, NEW p \in Party, Silent(p), Spoken(p), Written(p)
  PROVE  Spoken(p)' /\ Written(p)' /\ Lasting(p)
<1>1. Lasting(p) /\ Len(sent'[p]) = Len(sent[p]) /\ wires'[p] = wires[p]
  BY DEF Silent, Lasting
<1> QED BY <1>1, SpokenLasts, WrittenLasts

LEMMA AloneKept ==
  ASSUME ProtocolInv, Grows, NEW q \in Party, Alone(q), Where(q), Spoken(q), Written(q)
  PROVE  Where(q)' /\ Spoken(q)' /\ Written(q)' /\ Lasting(q)
<1>0. Circ(q)' = Circ(q) /\ \A v : Gate(q, v)' = Gate(q, v)
  BY DEF Grows, Circ, Gate
<1>1. Spoken(q)' /\ Written(q)' /\ Lasting(q)
  BY SameKept DEF Alone, Silent
<1>2. InQueue(q) => InQueue(q)'
  BY <1>0 DEF InQueue, Alone
<1>3. Where(q)'
  BY <1>0, <1>2 DEF Where, Alone
<1> QED BY <1>1, <1>3

(* A step that fails, or ends the process.                                 *)
LEMMA StopKept ==
  ASSUME ProtocolInv, NEW p \in Party, Where(p),
         \/ RefuseInputs(p) \/ RefuseRound(p) \/ RefuseReveal(p)
         \/ PeerLost(p) \/ Exit(p) \/ Kill(p) \/ \E w \in Wires(Circ(p)) : RefuseAdd(p, w)
  PROVE  Silent(p) /\ Where(p)'
<1>0. Shaped
  BY DEF ProtocolInv
<1>1. UNCHANGED <<launch, kept, wires, sent>> /\ (pc'[p] \in {"failed", "crashed"} \/ pc' = pc)
  BY <1>0 DEF Shaped, RefuseInputs, RefuseRound, RefuseReveal, PeerLost, Exit, Kill, RefuseAdd,
              Fail, Goto, computation, exchangeVars, Abort, Close, Crash
<1>2. CASE pc'[p] \in {"failed", "crashed"}
  BY <1>1, <1>2 DEF Silent, Where
<1>3. CASE pc' = pc /\ pc'[p] \notin {"failed", "crashed"}
  <2>1. pc[p] = "done"
    BY <1>0, <1>3 DEF Shaped, RefuseInputs, RefuseRound, RefuseReveal, PeerLost, Exit, Kill, RefuseAdd,
                      Fail, Goto
  <2> QED BY <1>1, <1>3, <2>1 DEF Silent, Where, Circ
<1> QED BY <1>1, <1>2, <1>3

(* The gate whose turn it is has not been evaluated.                       *)
LEMMA TurnFacts ==
  ASSUME ProtocolInv, NEW p \in Party, Where(p), NEW w \in Wires(Circ(p)), Turn(p, w)
  PROVE  /\ place[p] \in Places(Circ(p)) /\ At(Circ(p), place[p]) = w
         /\ Gate(p, w).kind # "input" => wires[p][w] = Unset
         /\ pc[p] = "layer"
<1> DEFINE c == Circ(p)
           x == place[p]
<1>0. /\ launch \in Launches /\ x \in (Nat \ {0}) \X (Nat \ {0})
      /\ pc[p] = "layer" /\ x[1] <= Len(c.rounds) /\ x[2] <= Len(c.rounds[x[1]]) /\ w = At(c, x)
  BY DEF ProtocolInv, Mine, Turn, InRound
<1>1. c.rounds \in Seq(Seq(Wires(c))) /\ WellScheduled(c)
  BY <1>0, LaunchFacts DEF IsCircuit
<1>2. Len(c.rounds) \in Nat /\ x[1] \in 1 .. Len(c.rounds)
  BY <1>0, <1>1
<1>3. Len(c.rounds[x[1]]) \in Nat /\ Len(c.rounds[x[1]]) <= Len(c.gates)
  BY <1>1, <1>2, Elements DEF WellScheduled
<1>4. Len(c.gates) \in Nat
  BY <1>0, LaunchFacts DEF IsCircuit
<1>5. x[2] \in Wires(c)
  BY <1>0, <1>3, <1>4 DEF Wires
<1>6. x \in Places(c)
  BY <1>0, <1>2, <1>5 DEF Places
<1>7. ~ReadyBefore(c, x, x)
  BY <1>0 DEF ReadyBefore
<1>8. Gate(p, w).kind # "input" => wires[p][w] = Unset
  BY <1>0, <1>6, <1>7 DEF Where
<1> QED BY <1>0, <1>6, <1>8

(* A gate whose operands show no fault has operands that can be read.      *)
LEMMA NoReadFault ==
  ASSUME launch \in Launches, TypeOK, NEW p \in Party, NEW w \in Wires(Circ(p)),
         Gate(p, w).kind \in {"add", "mul"}, First(ReadFaults(p, w)) = "none"
  PROVE  CanRead(p, Operand(p, w, 1)) /\ CanRead(p, Operand(p, w, 2))
<1> DEFINE f == ReadFaults(p, w)
<1>1. /\ Len(Gate(p, w).args) = 2
      /\ \A k \in 1 .. 2 : Gate(p, w).args[k] \in Wires(Circ(p))
  BY OperandFacts
<1>2. f \in [1 .. 2 -> Faults] /\ \A k \in 1 .. 2 : f[k] = WireFault(p, Gate(p, w).args[k])
  BY <1>1, WireFacts DEF ReadFaults
<1> HIDE DEF f
<1>3. First(f) = "none" <=> \A k \in 1 .. 2 : f[k] = "none"
  BY <1>2, FirstFault
<1>4. \A k \in 1 .. 2 : f[k] = "none"
  BY <1>3 DEF f
<1> QED BY <1>2, <1>4 DEF CanRead, Operand

LEMMA HoldsNext ==
  ASSUME NEW S, NEW old \in Seq(S), NEW w \in S, NEW row, NEW k \in Nat \ {0}, w = row[k],
         NEW here \in SUBSET (Nat \ {0}), Holds(old, here, k, row)
  PROVE  Holds(IF k \in here THEN Append(old, w) ELSE old, here, k + 1, row)
<1>1. /\ Count(here, k - 1) \in Nat
      /\ Count(here, k) = Count(here, k - 1) + IF k \in here THEN 1 ELSE 0
  <2>1. k - 1 \in Nat /\ (k - 1) + 1 = k
    OBVIOUS
  <2>2. Count(here, k - 1) \in Nat
        /\ Count(here, (k - 1) + 1) = Count(here, k - 1) + IF (k - 1) + 1 \in here THEN 1 ELSE 0
    BY <2>1, Counting
  <2> QED BY <2>1, <2>2
<1>2. k + 1 - 1 = k /\ \A i \in here : i \in Nat /\ (i < k + 1 <=> i < k \/ i = k)
  OBVIOUS
<1>3. CASE k \notin here
  <2>1. \A i \in here : i < k + 1 <=> i < k
    BY <1>2, <1>3
  <2>2. Count(here, k) = Count(here, k - 1)
    BY <1>1, <1>3
  <2> QED BY <1>2, <1>3, <2>1, <2>2 DEF Holds
<1>4. CASE k \in here
  <2> DEFINE new == Append(old, w)
  <2>1. /\ Len(new) = Len(old) + 1 /\ new[Len(old) + 1] = w /\ Len(old) \in Nat
        /\ \A n \in 1 .. Len(old) : new[n] = old[n]
    OBVIOUS
  <2> HIDE DEF new
  <2>2. Len(old) = Count(here, k - 1) /\ Count(here, k) = Len(old) + 1
    BY <1>1, <1>4 DEF Holds
  <2>3. ASSUME NEW n \in 1 .. Len(new)
        PROVE  \E i \in here : i < k + 1 /\ Count(here, i) = n /\ new[n] = row[i]
    <3>1. CASE n = Len(old) + 1
      <4>1. k < k + 1 /\ new[n] = row[k] /\ Count(here, k) = n
        BY <2>1, <2>2, <3>1
      <4> QED BY <1>4, <4>1
    <3>2. CASE n \in 1 .. Len(old)
      <4>1. PICK i \in here : i < k /\ Count(here, i) = n /\ old[n] = row[i]
        BY <3>2 DEF Holds
      <4>2. i < k + 1 /\ new[n] = old[n]
        BY <1>2, <2>1, <3>2, <4>1
      <4> QED BY <4>1, <4>2
    <3> QED BY <2>1, <3>1, <3>2
  <2>4. ASSUME NEW i \in here, i < k + 1 PROVE new[Count(here, i)] = row[i]
    <3>1. CASE i = k
      BY <2>1, <2>2, <3>1
    <3>2. CASE i < k
      <4>1. i \in Nat /\ 0 \in Nat /\ 0 < i /\ k - 1 \in Nat /\ i <= k - 1
        BY <3>2
      <4>2. Count(here, 0) < Count(here, i) /\ Count(here, i) \in Nat
        BY <4>1, CountMember
      <4>3. Count(here, 0) = 0 /\ Count(here, i) <= Count(here, k - 1)
        BY <4>1, Counting, CountGrows
      <4>4. Count(here, i) \in 1 .. Len(old)
        BY <2>1, <2>2, <4>2, <4>3
      <4>5. new[Count(here, i)] = old[Count(here, i)]
        BY <2>1, <4>4
      <4> QED BY <3>2, <4>5 DEF Holds
    <3> QED BY <1>2, <2>4, <3>1, <3>2
  <2>5. Holds(new, here, k + 1, row)
    BY <1>2, <2>1, <2>2, <2>3, <2>4 DEF Holds
  <2> QED BY <1>4, <2>5 DEF new
<1> QED BY <1>3, <1>4

(* One gate further: the place, the queue and what was evaluated keep in   *)
(* step.                                                                   *)
LEMMA QueueGrows ==
  ASSUME ProtocolInv, NEW p \in Party, Where(p), NEW w \in Wires(Circ(p)), Turn(p, w),
         launch' = launch, place'[p] = <<place[p][1], place[p][2] + 1>>,
         queue'[p] = IF IsInteractive(Gate(p, w)) THEN Append(queue[p], w) ELSE queue[p]
  PROVE  InQueue(p)'
<1>0. /\ launch \in Launches /\ place[p] \in Places(Circ(p)) /\ At(Circ(p), place[p]) = w
      /\ pc[p] = "layer" /\ queue[p] \in Seq(Wires(Circ(p))) /\ Circ(p)' = Circ(p)
  BY TurnFacts DEF ProtocolInv, Mine, Matching, Circ
<1>1. PICK r, k : r = place[p][1] /\ k = place[p][2]
  OBVIOUS
<1>2. PICK here : here = Interactive(Circ(p), r)
  OBVIOUS
<1>3. /\ r \in Nat \ {0} /\ k \in Nat \ {0} /\ r <= Len(Circ(p).rounds)
      /\ (k \in here <=> IsInteractive(Gate(p, w)))
  BY <1>0, <1>1, <1>2, PlaceFacts
<1>4. Holds(queue[p], here, k, Circ(p).rounds[r])
  BY <1>0, <1>1, <1>2, <1>3 DEF Where, InQueue
<1>5. here \in SUBSET (Nat \ {0}) /\ w = Circ(p).rounds[r][k]
  BY <1>0, <1>1, <1>2 DEF Interactive, At
<1>6. Holds(IF k \in here THEN Append(queue[p], w) ELSE queue[p], here, k + 1, Circ(p).rounds[r])
  BY <1>0, <1>3, <1>4, <1>5, HoldsNext
<1>7. Holds(queue'[p], here, k + 1, Circ(p).rounds[r])
  BY <1>3, <1>6
<1>8. place'[p][1] = r /\ place'[p][2] = k + 1
  BY <1>1
<1> QED BY <1>0, <1>2, <1>7, <1>8 DEF InQueue

LEMMA GateWhere ==
  ASSUME ProtocolInv, NEW p \in Party, Where(p), NEW w \in Wires(Circ(p)), Turn(p, w),
         launch' = launch, place'[p] = <<place[p][1], place[p][2] + 1>>,
         queue'[p] = IF IsInteractive(Gate(p, w)) THEN Append(queue[p], w) ELSE queue[p],
         pc'[p] = pc[p], sent'[p] = sent[p],
         \A v \in Wires(Circ(p)) : v # w => wires'[p][v] = wires[p][v],
         IsInteractive(Gate(p, w)) => wires'[p][w] = wires[p][w]
  PROVE  Where(p)'
<1> DEFINE c == Circ(p)
           r == place[p][1]
           k == place[p][2]
<1>0. /\ launch \in Launches /\ place[p] \in Places(c) /\ At(c, place[p]) = w /\ pc[p] = "layer"
      /\ Circ(p)' = c /\ \A v : Gate(p, v)' = Gate(p, v)
  BY TurnFacts DEF ProtocolInv, Circ, Gate
<1>1. /\ r \in Nat \ {0} /\ k \in Nat \ {0} /\ k <= Len(c.rounds[r]) /\ r <= Len(c.rounds)
      /\ Len(c.rounds) \in Nat /\ Len(c.rounds[r]) \in Nat
      /\ \A y \in Places(c) : At(c, y) = w => y = place[p]
  BY <1>0, PlaceFacts
<1>2. InQueue(p)'
  BY QueueGrows
<1>3. place'[p][1] = r /\ place'[p][2] = k + 1 /\ pc'[p] = "layer"
  BY <1>0
<1>4. ASSUME NEW x \in Places(c), wires'[p][At(c, x)] # Unset, Gate(p, At(c, x)).kind # "input"
      PROVE  ReadyBefore(c, x, place'[p])
  <2>0. x[1] \in Nat /\ x[2] \in Nat /\ At(c, x) \in Wires(c)
    BY <1>0, PlaceFacts
  <2>1. CASE At(c, x) = w /\ ~IsInteractive(Gate(p, w))
    <3>1. x = place[p]
      BY <1>1, <2>1
    <3>2. x[1] = r /\ x[2] < k + 1
      BY <1>1, <3>1
    <3> QED BY <1>3, <2>1, <3>2 DEF ReadyBefore, Gate
  <2>2. CASE At(c, x) # w \/ IsInteractive(Gate(p, w))
    <3>1. wires[p][At(c, x)] # Unset
      BY <1>4, <2>0, <2>2
    <3>2. ReadyBefore(c, x, place[p])
      BY <1>0, <1>4, <3>1 DEF Where
    <3>3. x[2] < k => x[2] < k + 1
      BY <1>1, <2>0
    <3> QED BY <1>3, <3>2, <3>3 DEF ReadyBefore
  <2> QED BY <2>1, <2>2
<1>5. Len(sent[p]) = MessageOf(c, r - 1)
  BY <1>0 DEF Where
<1>6. r <= Len(c.rounds) + 1 /\ k + 1 <= Len(c.rounds[r]) + 1 /\ ~(r > Len(c.rounds))
  BY <1>1
<1> HIDE DEF r, k
<1> QED BY <1>0, <1>2, <1>3, <1>4, <1>5, <1>6 DEF Where

LEMMA PassKept ==
  ASSUME ProtocolInv, Grows, NEW p \in Party, Where(p), Spoken(p), Written(p),
         NEW w \in Wires(Circ(p)), PassGate(p, w) \/ QueueGate(p, w)
  PROVE  Where(p)' /\ Spoken(p)' /\ Written(p)' /\ Lasting(p)
<1>0. Shaped /\ launch' = launch /\ Turn(p, w) /\ place[p] \in (Nat \ {0}) \X (Nat \ {0})
      /\ UNCHANGED <<pc, kept, wires, sent>>
  BY DEF ProtocolInv, Mine, Grows, PassGate, QueueGate, Step, exchangeVars
<1>1. place'[p] = <<place[p][1], place[p][2] + 1>>
  BY <1>0 DEF Shaped, PassGate, QueueGate, Step
<1>2. queue'[p] = IF IsInteractive(Gate(p, w)) THEN Append(queue[p], w) ELSE queue[p]
  BY <1>0 DEF Shaped, PassGate, QueueGate, IsInteractive
<1>3. Where(p)'
  BY <1>0, <1>1, <1>2, GateWhere
<1>4. Silent(p)
  BY <1>0 DEF Silent
<1> QED BY <1>3, <1>4, SameKept

(* A wire is assigned that was not, and all that is read stays.            *)
LEMMA AssignKept ==
  ASSUME ProtocolInv, Grows, NEW p \in Party, Where(p), Spoken(p), Written(p),
         NEW w \in Wires(Circ(p)), Turn(p, w), NEW value, Assign(p, w, value),
         Gate(p, w).kind \in {"const", "add"}
  PROVE  /\ Where(p)' /\ Spoken(p)' /\ Lasting(p) /\ wires'[p][w] = value
         /\ \A v \in Wires(Circ(p)) : v # w /\ wires'[p][v] # Unset => Derived(p, v)'
<1>0. /\ Shaped /\ wires[p] \in [Wires(Circ(p)) -> WireValue(p)]
      /\ place[p] \in (Nat \ {0}) \X (Nat \ {0})
      /\ UNCHANGED <<pc, kept, sent, queue>> /\ launch' = launch /\ wires[p][w] = Unset
  BY TurnFacts DEF ProtocolInv, Mine, Grows, Assign, Step, exchangeVars
<1>1. place'[p] = <<place[p][1], place[p][2] + 1>>
  BY <1>0 DEF Shaped, Assign, Step
<1>2. wires'[p] = [wires[p] EXCEPT ![w] = value]
  BY <1>0 DEF Shaped, Assign
<1>3. wires'[p][w] = value /\ \A v \in Wires(Circ(p)) : v # w => wires'[p][v] = wires[p][v]
  BY <1>0, <1>2
<1>4. ~IsInteractive(Gate(p, w)) /\ queue'[p] = queue[p] /\ pc'[p] = pc[p] /\ sent'[p] = sent[p]
  BY <1>0 DEF IsInteractive
<1>5. Where(p)'
  BY <1>0, <1>1, <1>3, <1>4, GateWhere
<1>6. Lasting(p)
  BY <1>0, <1>3 DEF Lasting
<1>7. Spoken(p)'
  BY <1>4, <1>6, SpokenLasts
<1>8. ASSUME NEW v \in Wires(Circ(p)), v # w, wires'[p][v] # Unset PROVE Derived(p, v)'
  <2>1. wires[p][v] # Unset
    BY <1>3, <1>8
  <2>2. Derived(p, v)
    BY <2>1 DEF Written
  <2> QED BY <1>6, <2>1, <2>2, DerivedLasts
<1> QED BY <1>3, <1>5, <1>6, <1>7, <1>8

LEMMA EvalKept ==
  ASSUME ProtocolInv, Grows, NEW p \in Party, Where(p), Spoken(p), Written(p),
         NEW w \in Wires(Circ(p)), EvalConst(p, w) \/ EvalAdd(p, w)
  PROVE  Where(p)' /\ Spoken(p)' /\ Written(p)' /\ Lasting(p)
<1>0. /\ launch \in Launches /\ launch' = launch /\ Turn(p, w)
      /\ Circ(p)' = Circ(p) /\ Gate(p, w)' = Gate(p, w)
      /\ (\A k : Operand(p, w, k)' = Operand(p, w, k)) /\ Mod(p)' = Mod(p)
  BY RingLasts DEF ProtocolInv, Grows, EvalConst, EvalAdd, Circ, Gate, Operand
<1>1. CASE EvalConst(p, w)
  <2>1. Gate(p, w).kind = "const" /\ Assign(p, w, ConstValue(Gate(p, w).literal))
    BY <1>1 DEF EvalConst
  <2>2. /\ Where(p)' /\ Spoken(p)' /\ Lasting(p) /\ wires'[p][w] = ConstValue(Gate(p, w).literal)
        /\ \A v \in Wires(Circ(p)) : v # w /\ wires'[p][v] # Unset => Derived(p, v)'
    BY <1>0, <2>1, AssignKept
  <2>3. Derived(p, w)'
    BY <1>0, <2>1, <2>2 DEF Derived
  <2> QED BY <1>0, <2>2, <2>3 DEF Written
<1>2. CASE EvalAdd(p, w)
  <2>1. PICK u, v : u = Operand(p, w, 1) /\ v = Operand(p, w, 2)
    OBVIOUS
  <2>2. PICK value : value = ShareValue(ZAdd(Mod(p), ShareOf(p, u), ShareOf(p, v)))
    OBVIOUS
  <2>3. /\ Gate(p, w).kind = "add" /\ Assign(p, w, value)
        /\ First(ReadFaults(p, w)) = "none"
    BY <1>2, <2>1, <2>2 DEF EvalAdd, Operand
  <2>4. /\ Where(p)' /\ Spoken(p)' /\ Lasting(p) /\ wires'[p][w] = value
        /\ \A z \in Wires(Circ(p)) : z # w /\ wires'[p][z] # Unset => Derived(p, z)'
    BY <1>0, <2>3, AssignKept
  <2>5. CanRead(p, u) /\ CanRead(p, v)
    <3>1. TypeOK
      BY InvTypeOK
    <3> QED BY <1>0, <2>1, <2>3, <3>1, NoReadFault
  <2>6. u \in Wires(Circ(p)) /\ v \in Wires(Circ(p))
    BY <1>0, <2>1, <2>3, OperandWires
  <2>7. /\ CanRead(p, u)' /\ ShareOf(p, u)' = ShareOf(p, u)
        /\ CanRead(p, v)' /\ ShareOf(p, v)' = ShareOf(p, v)
    BY <1>0, <2>4, <2>5, <2>6, ReadsLast
  <2>8. Derived(p, w)'
    BY <1>0, <2>1, <2>2, <2>3, <2>4, <2>7 DEF Derived
  <2> QED BY <1>0, <2>4, <2>8 DEF Written
<1> QED BY <1>1, <1>2

(* The end of a round.                                                     *)
LEMMA RoundFacts ==
  ASSUME ProtocolInv, NEW p \in Party, Where(p), RoundIsOver(p)
  PROVE  /\ place[p][1] \in Nat \ {0} /\ place[p][1] <= Len(Circ(p).rounds)
         /\ Len(Circ(p).rounds) \in Nat /\ Len(Circ(p).rounds[place[p][1]]) \in Nat
         /\ place[p][2] = Len(Circ(p).rounds[place[p][1]]) + 1
         /\ pc[p] = "layer" /\ InQueue(p)
         /\ Len(sent[p]) = MessageOf(Circ(p), place[p][1] - 1)
         /\ queue[p] = <<>> <=> place[p][1] \notin Talking(Circ(p))
         /\ MessageOf(Circ(p), place[p][1]) = Len(sent[p]) + IF queue[p] = <<>> THEN 0 ELSE 1
<1>0. /\ launch \in Launches /\ place[p] \in (Nat \ {0}) \X (Nat \ {0})
      /\ queue[p] \in Seq(Wires(Circ(p)))
  BY DEF ProtocolInv, Mine, Matching
<1>1. PICK c, r, k : c = Circ(p) /\ r = place[p][1] /\ k = place[p][2]
  OBVIOUS
<1>2. PICK here : here = Interactive(c, r)
  OBVIOUS
<1>3. r \in Nat \ {0} /\ k \in Nat \ {0}
  BY <1>0, <1>1
<1>4. /\ r <= Len(c.rounds) /\ pc[p] = "layer" /\ k > Len(c.rounds[r])
      /\ k <= Len(c.rounds[r]) + 1 /\ Holds(queue[p], here, k, c.rounds[r]) /\ InQueue(p)
      /\ Len(sent[p]) = MessageOf(c, r - 1)
  BY <1>1, <1>2 DEF RoundIsOver, InRound, Where, InQueue
<1>5. Len(c.rounds) \in Nat /\ Len(c.rounds[r]) \in Nat
  <2>1. c.rounds \in Seq(Seq(Wires(c)))
    BY <1>0, <1>1, LaunchFacts DEF IsCircuit
  <2>2. r \in 1 .. Len(c.rounds)
    BY <1>3, <1>4, <2>1
  <2> QED BY <2>1, <2>2, Elements
<1>6. k = Len(c.rounds[r]) + 1
  BY <1>3, <1>4, <1>5
<1>7. Len(queue[p]) = 0 <=> here = {}
  <2>1. here \subseteq 1 .. Len(c.rounds[r])
    BY <1>2 DEF Interactive
  <2>2. CASE here = {}
    BY <1>0, <1>4, <2>2 DEF Holds
  <2>3. CASE here # {}
    <3>1. PICK i \in here : TRUE
      BY <2>3
    <3>2. i \in Nat /\ 0 \in Nat /\ 0 < i /\ k - 1 \in Nat /\ i <= k - 1
      BY <1>5, <1>6, <2>1
    <3>3. Count(here, 0) < Count(here, i) /\ Count(here, i) \in Nat
      BY <3>2, CountMember
    <3>4. Count(here, i) <= Count(here, k - 1) /\ Count(here, 0) = 0 /\ Count(here, k - 1) \in Nat
      BY <3>2, Counting, CountGrows
    <3>5. Len(queue[p]) = Count(here, k - 1)
      BY <1>4 DEF Holds
    <3> QED BY <2>3, <3>3, <3>4, <3>5
  <2> QED BY <2>2, <2>3
<1>8. queue[p] = <<>> <=> Len(queue[p]) = 0
  BY <1>0
<1>9. queue[p] = <<>> <=> r \notin Talking(c)
  BY <1>2, <1>3, <1>4, <1>5, <1>7, <1>8 DEF Talking
<1>10. MessageOf(c, r) = Len(sent[p]) + IF queue[p] = <<>> THEN 0 ELSE 1
  <2>1. r - 1 \in Nat /\ (r - 1) + 1 = r
    BY <1>3
  <2>2. MessageOf(c, (r - 1) + 1) = MessageOf(c, r - 1) + IF (r - 1) + 1 \in Talking(c) THEN 1 ELSE 0
    BY <2>1, Messages
  <2> QED BY <1>4, <1>9, <2>1, <2>2
<1> QED BY <1>1, <1>3, <1>4, <1>5, <1>6, <1>9, <1>10

LEMMA RoundWhere ==
  ASSUME ProtocolInv, NEW p \in Party, launch' = launch,
         NEW r \in Nat, r <= Len(Circ(p).rounds),
         place'[p] = <<r + 1, 1>>, queue'[p] = <<>>, pc'[p] = "layer",
         Len(sent'[p]) = MessageOf(Circ(p), r),
         \A x \in Places(Circ(p)) :
           wires'[p][At(Circ(p), x)] # Unset /\ Gate(p, At(Circ(p), x)).kind # "input" => x[1] <= r
  PROVE  Where(p)'
<1>0. /\ launch \in Launches /\ Circ(p)' = Circ(p) /\ \A v : Gate(p, v)' = Gate(p, v)
  BY DEF ProtocolInv, Circ, Gate
<1>1. place'[p][1] = r + 1 /\ place'[p][2] = 1 /\ (r + 1) - 1 = r
  OBVIOUS
<1>2. Holds(<<>>, Interactive(Circ(p), r + 1), 1, Circ(p).rounds[r + 1])
  <2> DEFINE here == Interactive(Circ(p), r + 1)
  <2>1. here \subseteq Nat \ {0}
    BY DEF Interactive
  <2> HIDE DEF here
  <2>2. Count(here, 0) = 0 /\ Len(<<>>) = 0 /\ 1 - 1 = 0
    BY Counting
  <2>3. \A i \in here : ~(i < 1)
    BY <2>1
  <2>4. Holds(<<>>, here, 1, Circ(p).rounds[r + 1])
    BY <2>2, <2>3 DEF Holds
  <2> QED BY <2>4 DEF here
<1>3. InQueue(p)'
  BY <1>0, <1>1, <1>2 DEF InQueue
<1>4. ASSUME NEW x \in Places(Circ(p)), wires'[p][At(Circ(p), x)] # Unset,
             Gate(p, At(Circ(p), x)).kind # "input"
      PROVE  ReadyBefore(Circ(p), x, place'[p])
  <2>1. x[1] \in Nat /\ x[1] <= r
    BY <1>0, <1>4, PlaceFacts
  <2> QED BY <1>1, <2>1 DEF ReadyBefore
<1>5. Len(Circ(p).rounds) \in Nat
  BY <1>0, LaunchFacts DEF IsCircuit
<1>6. /\ r + 1 <= Len(Circ(p).rounds) + 1
      /\ r + 1 <= Len(Circ(p).rounds) =>
           Len(Circ(p).rounds[r + 1]) \in Nat /\ 1 <= Len(Circ(p).rounds[r + 1]) + 1
  <2>1. Circ(p).rounds \in Seq(Seq(Wires(Circ(p))))
    BY <1>0, LaunchFacts DEF IsCircuit
  <2>2. ASSUME r + 1 <= Len(Circ(p).rounds) PROVE Len(Circ(p).rounds[r + 1]) \in Nat
    <3>1. r + 1 \in 1 .. Len(Circ(p).rounds)
      BY <1>5, <2>2
    <3> QED BY <2>1, <3>1, Elements
  <2> QED BY <1>5, <2>2
<1> QED BY <1>0, <1>1, <1>3, <1>4, <1>6 DEF Where

LEMMA SkipKept ==
  ASSUME ProtocolInv, Grows, NEW p \in Party, Where(p), Spoken(p), Written(p), SkipRound(p)
  PROVE  Where(p)' /\ Spoken(p)' /\ Written(p)' /\ Lasting(p)
<1>0. /\ Shaped /\ launch \in Launches /\ UNCHANGED <<launch, pc, queue, kept, wires, sent>>
      /\ RoundIsOver(p) /\ queue[p] = <<>>
  BY DEF ProtocolInv, SkipRound, computation, exchangeVars
<1>1. PICK r : r = place[p][1]
  OBVIOUS
<1>2. /\ r \in Nat \ {0} /\ r <= Len(Circ(p).rounds) /\ pc[p] = "layer"
      /\ MessageOf(Circ(p), r) = Len(sent[p])
      /\ Len(Circ(p).rounds[r]) \in Nat /\ Len(Circ(p).rounds) \in Nat
  <2>1. /\ r \in Nat \ {0} /\ r <= Len(Circ(p).rounds) /\ pc[p] = "layer"
        /\ MessageOf(Circ(p), r) = Len(sent[p]) + 0
        /\ Len(Circ(p).rounds[r]) \in Nat /\ Len(Circ(p).rounds) \in Nat
    BY <1>0, <1>1, RoundFacts
  <2>2. Len(sent[p]) \in Nat
    BY DEF Grows
  <2> QED BY <2>1, <2>2
<1>3. place'[p] = <<r + 1, 1>>
  BY <1>0, <1>1 DEF Shaped, SkipRound, NextRound
<1>4. ASSUME NEW x \in Places(Circ(p)), wires'[p][At(Circ(p), x)] # Unset,
             Gate(p, At(Circ(p), x)).kind # "input"
      PROVE  x[1] <= r
  <2>1. ReadyBefore(Circ(p), x, place[p])
    BY <1>0, <1>2, <1>4 DEF Where
  <2>2. x[1] \in Nat
    BY <1>0, PlaceFacts
  <2> QED BY <1>1, <1>2, <2>1, <2>2 DEF ReadyBefore
<1>5. Where(p)'
  BY <1>0, <1>2, <1>3, <1>4, RoundWhere
<1> QED BY <1>0, <1>5, SameKept DEF Silent

-----------------------------------------------------------------------------
(* The three calls: the message that is sent is what Spoken says of it.    *)
LEMMA SentWords ==
  ASSUME ProtocolInv, NEW p \in Party, NEW payload, Call(p, payload)
  PROVE  /\ Len(sent'[p]) = Len(sent[p]) + 1
         /\ sent'[p][Len(sent[p]) + 1] = payload
<1>1. sent[p] \in Seq(Message) /\ DOMAIN sent = Party
  BY DEF ProtocolInv, ExchangeTypeOK
<1>2. sent'[p] = Append(sent[p], payload)
  BY <1>1 DEF Call
<1> QED BY <1>1, <1>2

LEMMA ShareKept ==
  ASSUME ProtocolInv, Grows, NEW p \in Party, Where(p), Spoken(p), Written(p), ShareInputs(p)
  PROVE  Where(p)' /\ Spoken(p)' /\ Written(p)' /\ Lasting(p)
<1> DEFINE mine == InputsOf(Circ(p), p)
<1>0. /\ Shaped /\ launch \in Launches /\ UNCHANGED <<launch, place, queue, wires>>
      /\ pc[p] = "share" /\ pc'[p] = "sharing" /\ Circ(p)' = Circ(p)
  BY DEF ProtocolInv, Shaped, ShareInputs, Goto, Circ
<1>1. /\ Len(mine) \in Nat
      /\ \A k \in 1 .. Len(mine) : /\ launch.input[p][mine[k]] \in Literals
                                  /\ Encoded(p, launch.input[p][mine[k]]) \in Ring(p)
  BY <1>0, InputFacts, FaultTypes, Elements DEF ShareInputs
<1>2. PICK mask \in [1 .. Len(mine) -> Masks] :
        LET halves == [k \in 1 .. Len(mine) |->
                         Share(Mod(p), Encoded(p, launch.input[p][mine[k]]), ZRaw(Mod(p), mask[k]))]
        IN  /\ Call(p, [k \in 1 .. Len(mine) |-> halves[k][1]])
            /\ kept' = [kept EXCEPT ![p] = [k \in 1 .. Len(mine) |-> halves[k][2]]]
  BY DEF ShareInputs
<1>3. PICK first, second :
        /\ first = [k \in 1 .. Len(mine) |->
                      Share(Mod(p), Encoded(p, launch.input[p][mine[k]]), ZRaw(Mod(p), mask[k]))[1]]
        /\ second = [k \in 1 .. Len(mine) |->
                       Share(Mod(p), Encoded(p, launch.input[p][mine[k]]), ZRaw(Mod(p), mask[k]))[2]]
  OBVIOUS
<1>4. Call(p, first) /\ kept' = [kept EXCEPT ![p] = second]
  BY <1>2, <1>3
<1>5. Len(sent[p]) = 0 /\ (\A w \in Wires(Circ(p)) : wires[p][w] = Unset)
      /\ place[p] = <<1, 1>> /\ queue[p] = <<>>
  BY <1>0 DEF Where
<1>6. Len(sent'[p]) = 1 /\ sent'[p][1] = first /\ kept'[p] = second
  <2>1. Len(sent'[p]) = 0 + 1 /\ sent'[p][0 + 1] = first
    BY <1>4, <1>5, SentWords
  <2> QED BY <1>0, <1>4, <2>1 DEF Shaped
<1>7. Where(p)'
  BY <1>0, <1>5, <1>6 DEF Where
<1>8. Written(p)'
  BY <1>0, <1>5 DEF Written
<1>9. Lasting(p)
  BY <1>0, <1>5 DEF Lasting
<1>10. SpokenInputs(p)'
  <2>1. ASSUME NEW k \in 1 .. Len(mine)
        PROVE  /\ first[k] \in Ring(p) /\ second[k] \in Ring(p)
               /\ ZAdd(Mod(p), first[k], second[k]) = Encoded(p, launch.input[p][mine[k]])
    <3>1. mask[k] \in Word
      BY ProtocolAssumption
    <3> QED BY <1>0, <1>1, <1>3, <3>1, DrawnHalves
  <2> QED BY <1>0, <1>1, <1>6, <2>1, RingLasts DEF SpokenInputs
<1>11. SpokenRounds(p)'
  <2>1. ASSUME NEW x \in Places(Circ(p)), x[2] \in Interactive(Circ(p), x[1])
        PROVE  ~(MessageOf(Circ(p), x[1]) <= 1)
    <3>1. x[1] \in Talking(Circ(p))
      BY <1>0, <2>1, PlaceFacts
    <3>2. MessageOf(Circ(p), x[1]) \in Nat /\ MessageOf(Circ(p), x[1]) >= 2
      BY <3>1, Messages
    <3> QED BY <3>2
  <2> QED BY <1>0, <1>6, <2>1 DEF SpokenRounds
<1>12. SpokenOutputs(p)'
  <2>1. Len(Circ(p).rounds) \in Nat
    BY <1>0, LaunchFacts DEF IsCircuit
  <2>2. /\ MessageOf(Circ(p), Len(Circ(p).rounds)) \in Nat
        /\ MessageOf(Circ(p), Len(Circ(p).rounds)) >= 1
    BY <2>1, Messages
  <2>3. ~(1 >= MessageOf(Circ(p), Len(Circ(p).rounds)) + 1)
    BY <2>2
  <2> QED BY <1>0, <1>6, <2>3 DEF SpokenOutputs
<1> QED BY <1>7, <1>8, <1>9, <1>10, <1>11, <1>12 DEF Spoken

(* Word 2n - 1 and word 2n of an opening belong to gate n of the queue.    *)
LEMMA OpeningWords ==
  ASSUME NEW p \in Party, Len(queue[p]) \in Nat, NEW n \in 1 .. Len(queue[p]), NEW h \in {1, 2}
  PROVE  Openings(p)[2 * n - 2 + h] = HalfOf(p, queue[p][n], h)
<1> DEFINE j == 2 * n - 2 + h
<1>1. j \in 1 .. 2 * Len(queue[p]) /\ (j + 1) \div 2 = n /\ 2 - (j % 2) = h
  <2>1. CASE h = 1
    BY <2>1
  <2>2. CASE h = 2
    BY <2>2
  <2> QED BY <2>1, <2>2
<1> HIDE DEF j
<1>2. Openings(p)[j] = HalfOf(p, queue[p][n], h)
  BY <1>1 DEF Openings, HalfOf, Operand
<1> QED BY <1>2 DEF j

LEMMA OpenKept ==
  ASSUME ProtocolInv, Grows, NEW p \in Party, Where(p), Spoken(p), Written(p), OpenRound(p)
  PROVE  Where(p)' /\ Spoken(p)' /\ Written(p)' /\ Lasting(p)
<1>0. /\ Shaped /\ launch \in Launches /\ TypeOK
      /\ UNCHANGED <<launch, place, queue, kept, wires>>
      /\ RoundIsOver(p) /\ queue[p] # <<>> /\ QueueFault(p) = "none"
      /\ Call(p, Openings(p)) /\ pc'[p] = "opening" /\ Circ(p)' = Circ(p)
      /\ queue[p] \in Seq(Wires(Circ(p))) /\ Len(queue[p]) \in Nat
  BY InvTypeOK DEF ProtocolInv, Shaped, Mine, Matching, OpenRound, Goto, computation, Circ
<1>g. /\ \A v : Gate(p, v)' = Gate(p, v) /\ Triple(p, v)' = Triple(p, v)
      /\ \A v, k : Operand(p, v, k)' = Operand(p, v, k)
      /\ \A v : CanRead(p, v)' = CanRead(p, v) /\ ShareOf(p, v)' = ShareOf(p, v)
      /\ Mod(p)' = Mod(p)
  BY <1>0, RingLasts DEF Circ, Gate, Triple, Operand, CanRead, WireFault, ShareOf
<1>1. PICK r, n : r = place[p][1] /\ n = Len(sent[p])
  OBVIOUS
<1>2. /\ r \in Nat \ {0} /\ r <= Len(Circ(p).rounds) /\ Len(Circ(p).rounds) \in Nat
      /\ place[p][2] = Len(Circ(p).rounds[r]) + 1 /\ pc[p] = "layer" /\ InQueue(p)
      /\ r \in Talking(Circ(p)) /\ MessageOf(Circ(p), r) = n + 1
      /\ n = MessageOf(Circ(p), r - 1)
  BY <1>0, <1>1, RoundFacts
<1>3. n \in Nat /\ n >= 1
  <2>1. r - 1 \in Nat
    BY <1>2
  <2> QED BY <1>2, <2>1, Messages
<1>4. Len(sent'[p]) = n + 1 /\ sent'[p][n + 1] = Openings(p)
  BY <1>0, <1>1, SentWords
<1>5. Lasting(p) /\ wires'[p] = wires[p]
  BY <1>0 DEF Lasting
<1>6. Written(p)'
  BY <1>5, WrittenLasts
<1>7. Where(p)'
  <2>1. InQueue(p)'
    BY <1>0, <1>2 DEF InQueue
  <2>2. \A x \in Places(Circ(p)) :
          wires[p][At(Circ(p), x)] # Unset /\ Gate(p, At(Circ(p), x)).kind # "input"
            => ReadyBefore(Circ(p), x, place[p])
    BY <1>2 DEF Where
  <2>3. Len(Circ(p).rounds[r]) + 1 <= Len(Circ(p).rounds[r]) + 1 /\ r <= Len(Circ(p).rounds) + 1
        /\ ~(r > Len(Circ(p).rounds))
    <3>1. Len(Circ(p).rounds[r]) \in Nat
      BY <1>0, <1>1, RoundFacts
    <3> QED BY <1>2, <3>1
  <2> QED BY <1>0, <1>g, <1>1, <1>2, <1>4, <2>1, <2>2, <2>3 DEF Where
<1>8. SpokenInputs(p)'
  BY <1>1, <1>3, <1>5, SpokenGrows
<1>9. SpokenOutputs(p)'
  <2>1. /\ MessageOf(Circ(p), r) <= MessageOf(Circ(p), Len(Circ(p).rounds))
        /\ MessageOf(Circ(p), Len(Circ(p).rounds)) \in Nat
    BY <1>2, Messages
  <2>2. ~(n + 1 >= MessageOf(Circ(p), Len(Circ(p).rounds)) + 1)
    BY <1>2, <1>3, <2>1
  <2> QED BY <1>0, <1>4, <2>2 DEF SpokenOutputs
<1>10. SpokenRounds(p)'
  <2>1. ASSUME NEW x \in Places(Circ(p)), x[2] \in Interactive(Circ(p), x[1]),
               MessageOf(Circ(p), x[1]) <= n + 1
        PROVE  Opens(p, x)'
    <3>1. /\ x[1] \in Talking(Circ(p)) /\ x[1] \in Nat /\ x[2] \in Nat
          /\ x[2] <= Len(Circ(p).rounds[x[1]]) /\ Len(Circ(p).rounds[x[1]]) \in Nat
      BY <1>0, <2>1, PlaceFacts
    <3>2. MessageOf(Circ(p), x[1]) \in Nat
      BY <3>1, Messages
    <3>3. CASE MessageOf(Circ(p), x[1]) <= n
      BY <1>1, <1>5, <2>1, <3>3, SpokenGrows
    <3>4. CASE MessageOf(Circ(p), x[1]) = n + 1
      <4>1. x[1] = r
        BY <1>2, <3>1, <3>4, Messages
      <4>2. PICK here, k : here = Interactive(Circ(p), r) /\ k = Count(here, x[2])
        OBVIOUS
      <4>3. x[2] \in here /\ x[2] < place[p][2]
        BY <1>2, <2>1, <3>1, <4>1, <4>2
      <4>4. PICK w : w = At(Circ(p), x)
        OBVIOUS
      <4>5. k \in 1 .. Len(queue[p]) /\ queue[p][k] = w
        <5>1. Holds(queue[p], here, place[p][2], Circ(p).rounds[r])
          BY <1>1, <1>2, <4>2 DEF InQueue
        <5>2. queue[p][k] = Circ(p).rounds[r][x[2]] /\ Len(queue[p]) = Count(here, place[p][2] - 1)
          BY <4>2, <4>3, <5>1 DEF Holds
        <5>3. here \subseteq Nat \ {0}
          BY <4>2 DEF Interactive
        <5>4. /\ 0 \in Nat /\ x[2] \in Nat /\ 0 < x[2] /\ place[p][2] - 1 \in Nat
              /\ x[2] <= place[p][2] - 1
          BY <1>2, <3>1, <4>1, <4>3, <5>3
        <5>5. Count(here, 0) < k /\ k \in Nat /\ Count(here, 0) = 0
              /\ k <= Count(here, place[p][2] - 1)
          BY <4>2, <4>3, <5>4, CountMember, CountGrows, Counting
        <5> QED BY <1>0, <4>1, <4>4, <5>2, <5>5 DEF At
      <4>6. GateFault(p, w) = "none" /\ w \in Wires(Circ(p))
        BY <1>0, <4>5, FaultTypes, Elements
      <4>7. Gate(p, w).kind = "mul" /\ First(ReadFaults(p, w)) = "none"
        BY <4>6 DEF GateFault
      <4>8. CanRead(p, Operand(p, w, 1)) /\ CanRead(p, Operand(p, w, 2))
        BY <1>0, <4>6, <4>7, NoReadFault
      <4>9. \A h \in {1, 2} : Openings(p)[WordOf(Circ(p), x, h)] = HalfOf(p, w, h)
        BY <1>0, <4>1, <4>2, <4>5, OpeningWords DEF WordOf
      <4>10. sent'[p][MessageOf(Circ(p), x[1])] = Openings(p)
        BY <1>4, <3>4
      <4>11. \A h : HalfOf(p, w, h)' = HalfOf(p, w, h)
        BY <1>g DEF HalfOf
      <4> QED BY <1>0, <1>g, <4>4, <4>7, <4>8, <4>9, <4>10, <4>11 DEF Opens
    <3> QED BY <1>3, <2>1, <3>2, <3>3, <3>4
  <2> QED BY <1>0, <1>4, <2>1 DEF SpokenRounds
<1> QED BY <1>5, <1>6, <1>7, <1>8, <1>9, <1>10 DEF Spoken

LEMMA NoRevealFault ==
  ASSUME launch \in Launches, TypeOK, NEW p \in Party, RevealFault(p) = "none"
  PROVE  \A k \in 1 .. Len(Circ(p).outputs) : CanRead(p, Source(p, k))
<1> DEFINE n == Len(Circ(p).outputs)
           f == [k \in 1 .. n |-> WireFault(p, Source(p, k))]
<1>1. n \in Nat /\ \A k \in 1 .. n : Source(p, k) \in Wires(Circ(p))
  <2>1. /\ n \in Nat
        /\ \A k \in 1 .. n : /\ Circ(p).outputs[k] \in Wires(Circ(p))
                             /\ Gate(p, Circ(p).outputs[k]).kind = "output"
    BY LaunchFacts, Elements
  <2>2. ASSUME NEW k \in 1 .. n PROVE Source(p, k) \in Wires(Circ(p))
    BY <2>1, OperandFacts DEF Source
  <2> QED BY <2>1, <2>2
<1>2. f \in [1 .. n -> Faults]
  BY <1>1, WireFacts
<1>3. First(f) = "none"
  BY DEF RevealFault
<1> HIDE DEF n
<1>4. \A k \in 1 .. n : f[k] = "none"
  BY <1>1, <1>2, <1>3, FirstFault
<1> QED BY <1>4 DEF n, CanRead

LEMMA RevealKept ==
  ASSUME ProtocolInv, Grows, NEW p \in Party, Where(p), Spoken(p), Written(p), RevealOutputs(p)
  PROVE  Where(p)' /\ Spoken(p)' /\ Written(p)' /\ Lasting(p)
<1> DEFINE payload == [k \in 1 .. Len(Circ(p).outputs) |-> ShareOf(p, Source(p, k))]
<1>0. /\ Shaped /\ launch \in Launches /\ TypeOK
      /\ UNCHANGED <<launch, place, queue, kept, wires>>
      /\ AllRoundsDone(p) /\ RevealFault(p) = "none"
      /\ Call(p, payload) /\ pc'[p] = "revealing" /\ Circ(p)' = Circ(p)
  BY InvTypeOK DEF ProtocolInv, Shaped, RevealOutputs, Goto, computation, Circ
<1>g. /\ \A k : Source(p, k)' = Source(p, k)
      /\ \A v : CanRead(p, v)' = CanRead(p, v) /\ ShareOf(p, v)' = ShareOf(p, v)
  <2>1. \A v : Encoded(p, v)' = Encoded(p, v)
    BY <1>0, RingLasts
  <2>2. \A v : WireFault(p, v)' = WireFault(p, v) /\ ShareOf(p, v)' = ShareOf(p, v)
    BY <1>0, <2>1 DEF WireFault, ShareOf
  <2> QED BY <1>0, <2>2 DEF Circ, Gate, Source, CanRead
<1>1. PICK n : n = Len(sent[p])
  OBVIOUS
<1>2. n = MessageOf(Circ(p), Len(Circ(p).rounds)) /\ n \in Nat /\ n >= 1
  <2>1. Len(Circ(p).rounds) \in Nat
    BY <1>0, LaunchFacts DEF IsCircuit
  <2>2. /\ place[p][1] > Len(Circ(p).rounds) /\ place[p][1] <= Len(Circ(p).rounds) + 1
        /\ n = MessageOf(Circ(p), place[p][1] - 1)
    BY <1>0, <1>1 DEF AllRoundsDone, Where
  <2>3. place[p][1] \in Nat
    BY DEF ProtocolInv, Mine
  <2>4. place[p][1] - 1 = Len(Circ(p).rounds)
    BY <2>1, <2>2, <2>3
  <2>5. n = MessageOf(Circ(p), Len(Circ(p).rounds))
    BY <2>2, <2>4
  <2> QED BY <2>1, <2>5, Messages
<1>3. Len(sent'[p]) = n + 1 /\ sent'[p][n + 1] = payload
  BY <1>0, <1>1, SentWords
<1>4. Lasting(p) /\ wires'[p] = wires[p]
  BY <1>0 DEF Lasting
<1>5. Written(p)'
  BY <1>4, WrittenLasts
<1>6. Where(p)'
  BY <1>0, <1>2, <1>3 DEF Where
<1>7. SpokenInputs(p)'
  BY <1>1, <1>2, <1>4, SpokenGrows
<1>8. SpokenRounds(p)'
  <2>1. ASSUME NEW x \in Places(Circ(p)), x[2] \in Interactive(Circ(p), x[1])
        PROVE  Opens(p, x)'
    <3>1. x[1] \in Nat /\ Len(Circ(p).rounds) \in Nat /\ x[1] <= Len(Circ(p).rounds)
      BY <1>0, PlaceFacts
    <3>2. MessageOf(Circ(p), x[1]) <= n
      BY <1>2, <3>1, Messages
    <3> QED BY <1>1, <1>4, <2>1, <3>2, SpokenGrows
  <2> QED BY <1>0, <2>1 DEF SpokenRounds
<1>9. SpokenOutputs(p)'
  <2>1. \A k \in 1 .. Len(Circ(p).outputs) :
          CanRead(p, Source(p, k)) /\ payload[k] = ShareOf(p, Source(p, k))
    BY <1>0, NoRevealFault
  <2>2. Len(payload) = Len(Circ(p).outputs)
    <3>1. Len(Circ(p).outputs) \in Nat
      BY <1>0, LaunchFacts
    <3> QED BY <3>1
  <2> HIDE DEF payload
  <2> QED BY <1>0, <1>g, <1>2, <1>3, <2>1, <2>2 DEF SpokenOutputs
<1> QED BY <1>4, <1>5, <1>6, <1>7, <1>8, <1>9 DEF Spoken

-----------------------------------------------------------------------------
(* The three returns.                                                      *)
LEMMA OutputsKept ==
  ASSUME ProtocolInv, Grows, NEW p \in Party, Where(p), Spoken(p), Written(p), ReceiveOutputs(p)
  PROVE  Where(p)' /\ Spoken(p)' /\ Written(p)' /\ Lasting(p)
<1>1. /\ UNCHANGED <<launch, kept, wires, sent>> /\ Circ(p)' = Circ(p)
      /\ pc[p] = "revealing" /\ pc'[p] \in {"done", "failed"}
  BY DEF ProtocolInv, Shaped, ReceiveOutputs, Return, Goto, Fail, Circ
<1>2. Where(p)'
  BY <1>1 DEF Where
<1> QED BY <1>1, <1>2, SameKept DEF Silent

(* A message that comes back answers the last one that was sent.           *)
LEMMA AnswerFacts ==
  ASSUME ProtocolInv, NEW p \in Party, Return(p)
  PROVE  /\ sent' = sent /\ Peer(p) \in Party
         /\ Len(sent[p]) \in Nat \ {0} /\ Len(sent[Peer(p)]) \in Nat
         /\ Len(sent[p]) <= Len(sent[Peer(p)])
         /\ Incoming(p) = sent[Peer(p)][Len(sent[p])]
<1>1. /\ status[p] = "busy" /\ sent' = sent /\ Len(got[p]) < Len(sent[Peer(p)])
      /\ Peer(p) \in Party
  BY Peers DEF Return, HasMail
<1>2. Len(got[p]) \in Nat /\ Len(sent[p]) \in Nat /\ Len(sent[Peer(p)]) \in Nat
  BY <1>1 DEF ProtocolInv, ExchangeTypeOK
<1>3. Len(sent[p]) = Len(got[p]) + 1
  BY <1>1 DEF ProtocolInv, Answered
<1> QED BY <1>1, <1>2, <1>3 DEF Incoming

LEMMA InputsKept ==
  ASSUME ProtocolInv, Grows, NEW p \in Party, Where(p), Spoken(p), Written(p), ReceiveInputs(p)
  PROVE  Where(p)' /\ Spoken(p)' /\ Written(p)' /\ Lasting(p)
<1> DEFINE mine   == InputsOf(Circ(p), p)
           theirs == InputsOf(Circ(p), Peer(p))
<1>0. /\ Shaped /\ launch \in Launches /\ Peer(p) \in Party /\ Peer(p) # p
      /\ UNCHANGED <<launch, place, queue, kept>>
      /\ pc[p] = "sharing" /\ Return(p) /\ Circ(p)' = Circ(p) /\ \A v : Gate(p, v)' = Gate(p, v)
  BY Peers DEF ProtocolInv, ReceiveInputs, Circ, Gate
<1>1. /\ Len(sent[p]) = 1 /\ place[p] = <<1, 1>> /\ queue[p] = <<>>
      /\ \A w \in Wires(Circ(p)) : wires[p][w] = Unset
  BY <1>0 DEF Where
<1>2. sent' = sent /\ Len(sent[Peer(p)]) >= 1 /\ Incoming(p) = sent[Peer(p)][1]
  BY <1>0, <1>1, AnswerFacts
<1>3. Lasting(p)
  BY <1>0, <1>1 DEF Lasting
<1>4. Spoken(p)'
  BY <1>2, <1>3, SpokenLasts
<1>5. CASE Len(Incoming(p)) = Len(theirs)
  <2>1. pc'[p] = "layer" /\ wires'[p] = Shared(p, theirs, Incoming(p))
    BY <1>0, <1>5 DEF Shaped, ReceiveInputs, Goto
  <2>2. ASSUME NEW w \in Wires(Circ(p)), wires'[p][w] # Unset
        PROVE  Gate(p, w).kind = "input" /\ Derived(p, w)'
    <3>1. ASSUME NEW q \in Party, NEW k \in 1 .. Len(InputsOf(Circ(p), q)), FromInput(p, w, q, k)'
          PROVE  Gate(p, w).kind = "input" /\ Derived(p, w)'
      <4>1. InputsOf(Circ(p), q)[k] = w
        BY <1>0, <3>1 DEF FromInput
      <4>2. Gate(p, w).kind = "input" /\ Gate(p, w).owner = q
        BY <1>0, <4>1, InputFacts
      <4> QED BY <1>0, <3>1, <4>2 DEF Derived
    <3>2. CASE \E k \in 1 .. Len(mine) : mine[k] = w
      <4>1. PICK k \in 1 .. Len(mine) :
              mine[k] = w /\ wires'[p][w] = ShareValue(kept[p][k])
        BY <2>1, <3>2 DEF Shared
      <4>2. FromInput(p, w, p, k)'
        BY <1>0, <1>1, <1>2, <4>1 DEF FromInput
      <4> QED BY <3>1, <4>2
    <3>3. CASE (~ \E k \in 1 .. Len(mine) : mine[k] = w) /\ \E k \in 1 .. Len(theirs) : theirs[k] = w
      <4>1. PICK k \in 1 .. Len(theirs) :
              theirs[k] = w /\ wires'[p][w] = ShareValue(ZRaw(Mod(p), Incoming(p)[k]))
        BY <2>1, <3>3 DEF Shared
      <4>2. FromInput(p, w, Peer(p), k)'
        BY <1>0, <1>2, <4>1, RingLasts DEF FromInput
      <4> QED BY <1>0, <3>1, <4>2
    <3>4. CASE (~ \E k \in 1 .. Len(mine) : mine[k] = w) /\ ~ \E k \in 1 .. Len(theirs) : theirs[k] = w
      <4>1. wires'[p][w] = wires[p][w]
        BY <2>1, <3>4 DEF Shared
      <4> QED BY <1>1, <2>2, <4>1
    <3> QED BY <3>2, <3>3, <3>4
  <2>3. Written(p)'
    BY <1>0, <2>2 DEF Written
  <2>4. Where(p)'
    <3>1. \A x \in Places(Circ(p)) :
            wires'[p][At(Circ(p), x)] # Unset /\ Gate(p, At(Circ(p), x)).kind # "input" => x[1] <= 0
      BY <1>0, <2>2, PlaceFacts
    <3>2. Len(Circ(p).rounds) \in Nat /\ MessageOf(Circ(p), 0) = 1
      BY <1>0, LaunchFacts, Messages DEF IsCircuit
    <3>3. place'[p] = <<0 + 1, 1>> /\ queue'[p] = <<>> /\ Len(sent'[p]) = MessageOf(Circ(p), 0)
      <4>1. 0 + 1 = 1
        OBVIOUS
      <4>2. place'[p] = place[p] /\ queue'[p] = queue[p] /\ sent'[p] = sent[p]
        BY <1>0, <1>2
      <4> QED BY <1>1, <3>2, <4>1, <4>2
    <3>4. 0 \in Nat /\ 0 <= Len(Circ(p).rounds)
      BY <3>2
    <3> QED BY <1>0, <2>1, <3>1, <3>3, <3>4, RoundWhere
  <2> QED BY <1>3, <1>4, <2>3, <2>4
<1>6. CASE Len(Incoming(p)) # Len(theirs)
  <2>1. pc'[p] = "failed" /\ wires' = wires
    BY <1>0, <1>6 DEF Shaped, ReceiveInputs, Fail
  <2>2. Where(p)'
    BY <2>1 DEF Where
  <2>3. Written(p)'
    BY <1>3, <2>1, WrittenLasts
  <2> QED BY <1>3, <1>4, <2>2, <2>3
<1> QED BY <1>5, <1>6

LEMMA CloseKept ==
  ASSUME ProtocolInv, Grows, NEW p \in Party, Where(p), Spoken(p), Written(p), CloseRound(p)
  PROVE  Where(p)' /\ Spoken(p)' /\ Written(p)' /\ Lasting(p)
<1>0. /\ Shaped /\ launch \in Launches /\ Peer(p) \in Party /\ DOMAIN wires = Party
      /\ UNCHANGED <<launch, kept>> /\ pc[p] = "opening" /\ Return(p)
      /\ Circ(p)' = Circ(p) /\ (\A v : Gate(p, v)' = Gate(p, v) /\ Triple(p, v)' = Triple(p, v))
      /\ Mod(p)' = Mod(p)
      /\ Len(queue[p]) \in Nat /\ place[p][1] \in Nat \ {0}
      /\ (\A k \in 1 .. Len(queue[p]) : Gate(p, queue[p][k]).kind = "mul")
  <2>1. Mine(p) /\ Shaped /\ launch \in Launches /\ Peer(p) \in Party
    BY Peers DEF ProtocolInv
  <2>2. UNCHANGED <<launch, kept>> /\ pc[p] = "opening" /\ Return(p)
    BY DEF CloseRound
  <2> QED BY <2>1, <2>2, RingLasts DEF Mine, Matching, Shaped, Circ, Gate, Triple
<1>1. PICK r, m : r = place[p][1] /\ m = Len(sent[p])
  OBVIOUS
<1>2. PICK here : here = Interactive(Circ(p), r)
  OBVIOUS
<1>3. /\ r \in Nat \ {0} /\ r <= Len(Circ(p).rounds) /\ m = MessageOf(Circ(p), r)
      /\ Holds(queue[p], here, place[p][2], Circ(p).rounds[r])
  BY <1>0, <1>1, <1>2 DEF Where, InQueue
<1>4. /\ sent' = sent /\ m \in Nat /\ m <= Len(sent[Peer(p)])
      /\ Incoming(p) = sent[Peer(p)][m] /\ Outgoing(p) = sent[p][m]
  BY <1>0, <1>1, AnswerFacts DEF Outgoing
(* A gate of the queue has a place in this round.                          *)
<1>5. ASSUME NEW n \in 1 .. Len(queue[p])
      PROVE  \E x \in Places(Circ(p)) :
               /\ At(Circ(p), x) = queue[p][n] /\ x[1] = r /\ x[2] \in here
               /\ Count(here, x[2]) = n
  <2>1. PICK i \in here : Count(here, i) = n /\ queue[p][n] = Circ(p).rounds[r][i]
    BY <1>3 DEF Holds
  <2>2. i \in 1 .. Len(Circ(p).rounds[r])
    BY <1>2, <2>1 DEF Interactive
  <2>3. WellScheduled(Circ(p)) /\ Circ(p).rounds \in Seq(Seq(Wires(Circ(p))))
    BY <1>0, LaunchFacts DEF IsCircuit
  <2>4. r \in 1 .. Len(Circ(p).rounds)
    BY <1>3, <2>3
  <2>5. Len(Circ(p).rounds[r]) <= Len(Circ(p).gates) /\ Len(Circ(p).rounds[r]) \in Nat
    BY <2>3, <2>4, Elements DEF WellScheduled
  <2>6. Len(Circ(p).gates) \in Nat
    BY <1>0, LaunchFacts DEF IsCircuit
  <2>7. i \in Wires(Circ(p))
    BY <2>2, <2>5, <2>6 DEF Wires
  <2>8. <<r, i>> \in Places(Circ(p))
    BY <2>2, <2>4, <2>5, <2>7 DEF Places
  <2>9. At(Circ(p), <<r, i>>) = queue[p][n]
    BY <2>1 DEF At
  <2> QED BY <2>1, <2>8, <2>9
(* It has not been evaluated.                                              *)
<1>6. ASSUME NEW n \in 1 .. Len(queue[p]) PROVE wires[p][queue[p][n]] = Unset
  <2>1. PICK x \in Places(Circ(p)) : At(Circ(p), x) = queue[p][n] /\ x[1] = r
    BY <1>5
  <2>2. IsInteractive(Gate(p, queue[p][n])) /\ Gate(p, queue[p][n]).kind # "input"
    BY <1>0 DEF IsInteractive
  <2>3. ~ReadyBefore(Circ(p), x, place[p])
    BY <1>1, <1>3, <2>1, <2>2 DEF ReadyBefore, Gate
  <2> QED BY <1>0, <2>1, <2>2, <2>3 DEF Where
<1>7. CASE Len(Incoming(p)) = Len(Outgoing(p))
  <2>1. /\ pc'[p] = "layer" /\ wires'[p] = Finished(p) /\ queue'[p] = <<>>
        /\ place'[p] = <<r + 1, 1>>
    BY <1>0, <1>1, <1>7 DEF Shaped, CloseRound, Goto, NextRound
  <2>2. ASSUME NEW w \in Wires(Circ(p)), ~ \E n \in 1 .. Len(queue[p]) : queue[p][n] = w
        PROVE  wires'[p][w] = wires[p][w]
    BY <2>1, <2>2 DEF Finished
  <2>3. Lasting(p)
    BY <1>0, <1>6, <2>2 DEF Lasting
  <2>4. Spoken(p)'
    BY <1>4, <2>3, SpokenLasts
  <2>5. ASSUME NEW w \in Wires(Circ(p)), \E n \in 1 .. Len(queue[p]) : queue[p][n] = w
        PROVE  Derived(p, w)'
    <3>1. PICK n \in 1 .. Len(queue[p]) :
            /\ queue[p][n] = w
            /\ wires'[p][w] = ShareValue(Product(Mod(p), p, Opened(p, 2 * n - 1), Opened(p, 2 * n), Triple(p, w)))
      BY <2>1, <2>5 DEF Finished
    <3>2. PICK x \in Places(Circ(p)) :
            At(Circ(p), x) = w /\ x[1] = r /\ x[2] \in here /\ Count(here, x[2]) = n
      BY <1>5, <3>1
    <3>3. WordOf(Circ(p), x, 1) = 2 * n - 1 /\ WordOf(Circ(p), x, 2) = 2 * n
      <4>1. WordOf(Circ(p), x, 1) = 2 * n - 2 + 1 /\ WordOf(Circ(p), x, 2) = 2 * n - 2 + 2
        BY <1>2, <3>2 DEF WordOf
      <4> QED BY <4>1
    <3>4. /\ Opened(p, 2 * n - 1) = Sum(p, m, WordOf(Circ(p), x, 1))
          /\ Opened(p, 2 * n) = Sum(p, m, WordOf(Circ(p), x, 2))
      BY <1>4, <3>3 DEF Opened, Sum
    <3>5. \A j : Sum(p, m, j)' = Sum(p, m, j)
      BY <1>0, <1>4 DEF Sum
    <3>6. m <= Len(sent'[p]) /\ m <= Len(sent'[Peer(p)])
      BY <1>1, <1>4
    <3>7. FromProduct(p, w, x)'
      BY <1>0, <1>2, <1>3, <3>1, <3>2, <3>4, <3>5, <3>6 DEF FromProduct
    <3>8. Gate(p, w).kind = "mul"
      BY <1>0, <3>1
    <3> QED BY <1>0, <3>7, <3>8 DEF Derived
  <2>6. ASSUME NEW w \in Wires(Circ(p)), wires'[p][w] # Unset PROVE Derived(p, w)'
    <3>1. CASE ~ \E n \in 1 .. Len(queue[p]) : queue[p][n] = w
      <4>1. wires[p][w] # Unset
        BY <2>2, <2>6, <3>1
      <4>2. Derived(p, w)
        BY <4>1 DEF Written
      <4> QED BY <2>3, <4>1, <4>2, DerivedLasts
    <3> QED BY <2>5, <3>1
  <2>7. Written(p)'
    BY <1>0, <2>6 DEF Written
  <2>8. ASSUME NEW x \in Places(Circ(p)), wires'[p][At(Circ(p), x)] # Unset,
               Gate(p, At(Circ(p), x)).kind # "input"
        PROVE  x[1] <= r
    <3>0. At(Circ(p), x) \in Wires(Circ(p)) /\ x[1] \in Nat
      BY <1>0, PlaceFacts
    <3>1. CASE \E n \in 1 .. Len(queue[p]) : queue[p][n] = At(Circ(p), x)
      <4>1. PICK y \in Places(Circ(p)) : At(Circ(p), y) = At(Circ(p), x) /\ y[1] = r
        BY <1>5, <3>1
      <4>2. y = x
        BY <1>0, <4>1, PlaceFacts
      <4> QED BY <1>3, <4>1, <4>2
    <3>2. CASE ~ \E n \in 1 .. Len(queue[p]) : queue[p][n] = At(Circ(p), x)
      <4>1. wires[p][At(Circ(p), x)] # Unset
        BY <2>2, <2>8, <3>0, <3>2
      <4>2. ReadyBefore(Circ(p), x, place[p])
        BY <1>0, <2>8, <4>1 DEF Where
      <4> QED BY <1>1, <1>3, <3>0, <4>2 DEF ReadyBefore
    <3> QED BY <3>1, <3>2
  <2>9. Where(p)'
    <3>1. Len(sent'[p]) = MessageOf(Circ(p), r) /\ r \in Nat
      BY <1>1, <1>3, <1>4
    <3> QED BY <1>0, <1>3, <2>1, <2>8, <3>1, RoundWhere
  <2> QED BY <2>3, <2>4, <2>7, <2>9
<1>8. CASE Len(Incoming(p)) # Len(Outgoing(p))
  <2>1. pc'[p] = "failed" /\ wires' = wires
    BY <1>0, <1>8 DEF Shaped, CloseRound, Fail
  <2>2. Where(p)'
    BY <2>1 DEF Where
  <2> QED BY <1>0, <1>4, <2>1, <2>2, SameKept DEF Silent
<1> QED BY <1>7, <1>8

-----------------------------------------------------------------------------
LEMMA InitShareInv == Init => ShareInv
<1> SUFFICES ASSUME Init, NEW p \in Party PROVE Where(p) /\ Spoken(p) /\ Written(p)
  BY DEF ShareInv
<1>1. /\ pc[p] = "share" /\ place[p] = <<1, 1>> /\ queue[p] = <<>> /\ sent[p] = <<>>
      /\ \A w \in Wires(Circ(p)) : wires[p][w] = Unset
  BY DEF Init, ExchangeInit
<1>2. Len(sent[p]) = 0
  BY <1>1
<1>3. Where(p)
  BY <1>1, <1>2 DEF Where
<1>4. Written(p)
  BY <1>1 DEF Written
<1>5. launch \in Launches
  BY DEF Init
<1>6. \A r \in Nat : MessageOf(Circ(p), r) \in Nat /\ MessageOf(Circ(p), r) >= 1
  BY Messages
<1>7. ~(Len(sent[p]) >= 1) /\ \A r \in Nat : ~(MessageOf(Circ(p), r) <= Len(sent[p]))
                           /\ ~(Len(sent[p]) >= MessageOf(Circ(p), r) + 1)
  BY <1>2, <1>6
<1>8. Len(Circ(p).rounds) \in Nat /\ \A x \in Places(Circ(p)) : x[1] \in Nat
  BY <1>5, LaunchFacts DEF IsCircuit, Places
<1> QED BY <1>3, <1>4, <1>7, <1>8 DEF Spoken, SpokenInputs, SpokenRounds, SpokenOutputs

LEMMA RunKept ==
  ASSUME ProtocolInv, ShareInv, NEW p \in Party, Run(p) \/ Kill(p)
  PROVE  ShareInv' /\ Lasting(p) /\ Lasting(Peer(p)) /\ launch' = launch
<1>0. Grows /\ Alone(Peer(p)) /\ Where(p) /\ Spoken(p) /\ Written(p)
  BY RunGrows, PeerAlone DEF ShareInv
<1>1. /\ Peer(p) \in Party /\ Where(Peer(p)) /\ Spoken(Peer(p)) /\ Written(Peer(p))
      /\ \A q \in Party : q = p \/ q = Peer(p)
  BY Peers DEF ShareInv, Peer, Party
<1>2. Where(Peer(p))' /\ Spoken(Peer(p))' /\ Written(Peer(p))' /\ Lasting(Peer(p))
  BY <1>0, <1>1, AloneKept
<1>3. Where(p)' /\ Spoken(p)' /\ Written(p)' /\ Lasting(p)
  <2>1. CASE \/ RefuseInputs(p) \/ RefuseRound(p) \/ RefuseReveal(p)
             \/ PeerLost(p) \/ Exit(p) \/ Kill(p) \/ \E w \in Wires(Circ(p)) : RefuseAdd(p, w)
    BY <1>0, <2>1, StopKept, SameKept
  <2>2. ASSUME NEW w \in Wires(Circ(p)), \/ PassGate(p, w) \/ EvalConst(p, w)
                                         \/ EvalAdd(p, w) \/ QueueGate(p, w)
        PROVE  Where(p)' /\ Spoken(p)' /\ Written(p)' /\ Lasting(p)
    BY <1>0, <2>2, PassKept, EvalKept
  <2>3. CASE SkipRound(p) \/ ShareInputs(p) \/ OpenRound(p) \/ RevealOutputs(p)
    BY <1>0, <2>3, SkipKept, ShareKept, OpenKept, RevealKept
  <2>4. CASE ReceiveInputs(p) \/ CloseRound(p) \/ ReceiveOutputs(p)
    BY <1>0, <2>4, InputsKept, CloseKept, OutputsKept
  <2> QED BY <2>1, <2>2, <2>3, <2>4 DEF Run, EvaluateGate
<1>4. launch' = launch
  BY <1>0 DEF Grows
<1> QED BY <1>1, <1>2, <1>3, <1>4 DEF ShareInv

LEMMA NextKept ==
  ASSUME ProtocolInv, ShareInv, [Next]_vars
  PROVE  /\ ShareInv'
         /\ \A p \in Party : \A w \in Wires(Circ(p)) :
              wires[p][w] # Unset => wires'[p][w] = wires[p][w]
<1>1. ASSUME NEW p \in Party, Run(p) \/ Kill(p)
      PROVE  ShareInv' /\ \A q \in Party : Lasting(q)
  <2>1. \A q \in Party : q = p \/ q = Peer(p)
    BY DEF Peer, Party
  <2> QED BY <1>1, <2>1, RunKept
<1>2. CASE UNCHANGED vars
  <2>1. UNCHANGED <<launch, pc, place, queue, kept, wires, sent>>
    BY <1>2 DEF vars, computation, exchangeVars
  <2>2. ASSUME NEW q \in Party PROVE Where(q)' /\ Spoken(q)' /\ Written(q)' /\ Lasting(q)
    <3>1. Grows /\ Alone(q)
      <4>1. \A o \in Party : Len(sent[o]) \in Nat
        BY DEF ProtocolInv, ExchangeTypeOK
      <4> QED BY <2>1, <4>1 DEF Grows, Alone
    <3> QED BY <3>1, AloneKept DEF ShareInv
  <2> QED BY <2>2 DEF ShareInv, Lasting
<1>3. ShareInv' /\ \A q \in Party : Lasting(q)
  <2>1. CASE UNCHANGED vars
    <3>1. ShareInv'
      BY <1>2, <2>1
    <3>2. UNCHANGED <<wires, kept>>
      BY <2>1 DEF vars, computation
    <3> QED BY <3>1, <3>2 DEF Lasting
  <2> QED BY <1>1, <2>1 DEF Next, Over
<1> QED BY <1>3 DEF Lasting

(* Two parties that run one netlist on halves of one dealer run hold, at   *)
(* every moment, shares of the value of each wire both have evaluated:     *)
(* whatever the circuit, the inputs, the masks, the interleaving, and      *)
(* whoever fails or is killed (protocol.rs:104-273).                       *)
THEOREM SharesAlwaysRecombine == Spec => []SharesRecombine
<1>1. ProtocolInv /\ ShareInv /\ [Next]_vars => ProtocolInv' /\ ShareInv'
  BY NextStepped, NextKept
<1> QED BY <1>1, InitProtocolInv, InitShareInv, InvSharesRecombine, PTL DEF Spec

(* And what such a party reveals is the value of each output wire.         *)
THEOREM AnswersAreRight == Spec => []OutputsCorrect
<1>1. ProtocolInv /\ ShareInv /\ AnswerInv /\ [Next]_vars
        => ProtocolInv' /\ ShareInv' /\ AnswerInv'
  BY NextStepped, NextKept, StepAnswerInv
<1>2. Spec => []ExchangeInv
  BY ProtocolUsesExchange, ExchangeInvariant, PTL
<1>3. Init => ProtocolInv /\ ShareInv /\ AnswerInv
  BY InitProtocolInv, InitShareInv, InitAnswerInv
<1> QED BY <1>1, <1>2, <1>3, InvOutputsCorrect, PTL DEF Spec

(* No step of any run changes the value of a wire that has one.            *)
THEOREM ValuesAreWrittenOnce == Spec => WrittenOnce
<1>1. ProtocolInv /\ ShareInv /\ [Next]_vars => ProtocolInv' /\ ShareInv'
  BY NextStepped, NextKept
<1>2. ProtocolInv /\ ShareInv /\ [Next]_vars
        => [\A p \in Party : \A w \in Wires(Circ(p)) :
              wires[p][w] # Unset => wires'[p][w] = wires[p][w]]_vars
  BY NextKept
<1> QED BY <1>1, <1>2, InitProtocolInv, InitShareInv, PTL DEF Spec, WrittenOnce

-----------------------------------------------------------------------------
(* What goes wrong, and what it does to the other party.  A failure is     *)
(* judged by how many messages a party had sent when it failed: a fault of *)
(* its own keeps it from sending the message of its round, and without     *)
(* that message the peer does not get past the round.                      *)

InStep  == {"share", "layer"}
Calling == {"sharing", "opening", "revealing"}

(* The link is where the program is.                                       *)
Standing(p) ==
  /\ pc[p] \in InStep => status[p] = "idle"
  /\ pc[p] \in Calling => status[p] = "busy"
  /\ pc[p] = "done" => status[p] \in {"idle", "closed"}
  /\ pc[p] = "failed" => status[p] \in {"idle", "broken", "closed"}
  /\ pc[p] = "crashed" => status[p] = "crashed"
  /\ error[p] # "none" <=> pc[p] = "failed"

(* The lengths of the messages, counted from the circuit.                  *)
Sized(p) ==
  LET c == Circ(p)
  IN  /\ Len(sent[p]) >= 1 => Len(sent[p][1]) = Len(InputsOf(c, p))
      /\ \A r \in Talking(c) : MessageOf(c, r) <= Len(sent[p]) =>
           Len(sent[p][MessageOf(c, r)]) = 2 * Cardinality(Interactive(c, r))
      /\ pc[p] = "opening" => place[p][1] \in Talking(c)

(* All there is to evaluate before the place has been evaluated, but for   *)
(* output wires, which carry nothing.                                      *)
Caught(p) ==
  pc[p] \in {"layer", "opening"} =>
    /\ \A w \in Wires(Circ(p)) : Gate(p, w).kind = "input" => wires[p][w] # Unset
    /\ \A x \in Places(Circ(p)) : ReadyBefore(Circ(p), x, place[p]) =>
         \/ wires[p][At(Circ(p), x)] # Unset
         \/ Gate(p, At(Circ(p), x)).kind = "output"

ReadsAnOutput(p) ==
  \E w \in Wires(Circ(p)) : \E v \in Operands(Gate(p, w)) : Gate(p, v).kind = "output"

(* A gate that is not implemented, in a round that was not opened.         *)
Unopened(p, x) ==
  /\ x[2] \in Interactive(Circ(p), x[1]) /\ Gate(p, At(Circ(p), x)).kind # "mul"
  /\ Len(sent[p]) < MessageOf(Circ(p), x[1])
  /\ MessageOf(Circ(p), x[1]) <= Len(sent[p]) + 1

(* Why a party failed of its own.                                          *)
OwnFaults == Faults \ {"none", "length", "io"}

Blamed(p) ==
  /\ error[p] = "unassigned" => ReadsAnOutput(p)
  /\ error[p] = "unsupported" => \E x \in Places(Circ(p)) : Unopened(p, x)
  /\ error[p] \in OwnFaults => Len(sent[p]) <= MessageOf(Circ(p), Len(Circ(p).rounds))

(* Why it failed of the other.                                             *)
Followed(p) ==
  /\ error[p] # "length"
  /\ error[p] = "io" =>
       \/ pc[Peer(p)] = "crashed"
       \/ pc[Peer(p)] = "failed" /\ error[Peer(p)] # "io"

Sound(p) == Standing(p) /\ Sized(p) /\ Caught(p) /\ Blamed(p)

FailInv ==
  /\ \A p \in Party : Sound(p)
  /\ SameCircuit => \A p \in Party : Followed(p)

-----------------------------------------------------------------------------
(* No step touches what is said of the other party.                        *)
Apart(q) == Alone(q) /\ error'[q] = error[q] /\ status'[q] = status[q]

LEMMA PeerApart ==
  ASSUME ProtocolInv, NEW p \in Party, Run(p) \/ Kill(p)
  PROVE  Apart(Peer(p))
<1>0. /\ Shaped /\ Peer(p) # p /\ Peer(p) \in Party /\ ExchangeTypeOK
  BY Peers DEF ProtocolInv
<1>1. Alone(Peer(p))
  BY PeerAlone
<1>2. status'[Peer(p)] = status[Peer(p)]
  <2>1. ExchangeStep(p) \/ UNCHANGED exchangeVars
    BY RunStepped DEF Stepped
  <2> QED BY <1>0, <2>1
          DEF ExchangeStep, Call, Return, Abort, Close, Crash, ExchangeTypeOK, exchangeVars
<1>3. error'[Peer(p)] = error[Peer(p)]
  <2> USE <1>0 DEF Shaped, Fail, Goto, computation
  <2>1. CASE EvaluateGate(p)
    BY <2>1 DEF EvaluateGate, PassGate, EvalConst, EvalAdd, RefuseAdd, QueueGate, Assign, Step
  <2>2. CASE \/ RefuseInputs(p) \/ SkipRound(p) \/ RefuseRound(p) \/ RefuseReveal(p)
             \/ PeerLost(p) \/ Exit(p) \/ Kill(p)
    BY <2>2 DEF RefuseInputs, SkipRound, RefuseRound, RefuseReveal, PeerLost, Exit, Kill
  <2>3. CASE ShareInputs(p) \/ OpenRound(p) \/ RevealOutputs(p)
    BY <2>3 DEF ShareInputs, OpenRound, RevealOutputs
  <2>4. CASE ReceiveInputs(p) \/ CloseRound(p) \/ ReceiveOutputs(p)
    BY <2>4 DEF ReceiveInputs, CloseRound, ReceiveOutputs
  <2> QED BY <2>1, <2>2, <2>3, <2>4 DEF Run
<1> QED BY <1>1, <1>2, <1>3 DEF Apart

LEMMA ApartSound ==
  ASSUME launch' = launch, NEW q \in Party, Apart(q), Sound(q)
  PROVE  Sound(q)'
<1>1. Circ(q)' = Circ(q) /\ \A v : Gate(q, v)' = Gate(q, v)
  BY DEF Circ, Gate
<1>2. Standing(q)'
  BY DEF Sound, Standing, Apart, Alone
<1>3. Sized(q)'
  BY <1>1 DEF Sound, Sized, Apart, Alone
<1>4. Caught(q)'
  BY <1>1 DEF Sound, Caught, Apart, Alone
<1>5. Blamed(q)'
  BY <1>1 DEF Sound, Blamed, Apart, Alone, ReadsAnOutput, Unopened
<1> QED BY <1>2, <1>3, <1>4, <1>5 DEF Sound

(* Where the program goes, and what its link does.                         *)
LEMMA RunStanding ==
  ASSUME ProtocolInv, NEW p \in Party, Standing(p), Run(p) \/ Kill(p)
  PROVE  Standing(p)'
<1>0. /\ Shaped /\ ExchangeTypeOK
  BY DEF ProtocolInv
<1> USE <1>0 DEF Shaped, ExchangeTypeOK, Standing, Fail, Goto, InStep, Calling
<1>1. CASE EvaluateGate(p)
  <2>1. PICK w \in Wires(Circ(p)) :
          \/ PassGate(p, w) \/ EvalConst(p, w) \/ EvalAdd(p, w)
          \/ RefuseAdd(p, w) \/ QueueGate(p, w)
    BY <1>1 DEF EvaluateGate
  <2>2. status' = status /\ pc[p] = "layer"
    BY <2>1 DEF PassGate, EvalConst, EvalAdd, RefuseAdd, QueueGate, Assign, Step, exchangeVars,
                Turn, InRound
  <2>3. CASE RefuseAdd(p, w)
    BY <2>2, <2>3 DEF RefuseAdd
  <2>4. CASE PassGate(p, w) \/ EvalConst(p, w) \/ EvalAdd(p, w) \/ QueueGate(p, w)
    BY <2>2, <2>4 DEF PassGate, EvalConst, EvalAdd, QueueGate, Assign
  <2> QED BY <2>1, <2>3, <2>4
<1>2. CASE RefuseInputs(p)
  BY <1>2 DEF RefuseInputs, exchangeVars
<1>3. CASE SkipRound(p)
  BY <1>3 DEF SkipRound, exchangeVars
<1>4. CASE RefuseRound(p)
  BY <1>4 DEF RefuseRound, exchangeVars, RoundIsOver, InRound
<1>5. CASE RefuseReveal(p)
  BY <1>5 DEF RefuseReveal, exchangeVars, AllRoundsDone
<1>6. CASE PeerLost(p)
  BY <1>6 DEF PeerLost, Abort
<1>7. CASE Exit(p)
  BY <1>7 DEF Exit, Close
<1>8. CASE Kill(p)
  BY <1>8 DEF Kill, Crash, Steps
<1>9. CASE ShareInputs(p)
  BY <1>9 DEF ShareInputs, Call
<1>10. CASE OpenRound(p)
  BY <1>10 DEF OpenRound, Call, RoundIsOver, InRound
<1>11. CASE RevealOutputs(p)
  BY <1>11 DEF RevealOutputs, Call, AllRoundsDone
<1>12. CASE ReceiveInputs(p)
  BY <1>12 DEF ReceiveInputs, Return
<1>13. CASE CloseRound(p)
  BY <1>13 DEF CloseRound, Return
<1>14. CASE ReceiveOutputs(p)
  BY <1>14 DEF ReceiveOutputs, Return
<1> QED BY <1>1, <1>2, <1>3, <1>4, <1>5, <1>6, <1>7, <1>8, <1>9, <1>10, <1>11, <1>12,
           <1>13, <1>14 DEF Run

(* The steps that send something.                                          *)
Sends(p) == ShareInputs(p) \/ OpenRound(p) \/ RevealOutputs(p)

LEMMA OnlySends ==
  ASSUME ProtocolInv, NEW p \in Party, Run(p) \/ Kill(p), ~Sends(p)
  PROVE  sent' = sent
<1>1. CASE EvaluateGate(p)
  BY <1>1 DEF EvaluateGate, PassGate, EvalConst, EvalAdd, RefuseAdd, QueueGate, Assign, Step,
              exchangeVars
<1>2. CASE \/ RefuseInputs(p) \/ SkipRound(p) \/ RefuseRound(p) \/ RefuseReveal(p)
           \/ PeerLost(p) \/ Exit(p) \/ Kill(p)
  BY <1>2 DEF RefuseInputs, SkipRound, RefuseRound, RefuseReveal, PeerLost, Exit, Kill,
              exchangeVars, Abort, Close, Crash
<1>3. CASE ReceiveInputs(p) \/ CloseRound(p) \/ ReceiveOutputs(p)
  BY <1>3 DEF ReceiveInputs, CloseRound, ReceiveOutputs, Return
<1> QED BY <1>1, <1>2, <1>3 DEF Run, Sends

(* All that is counted up to the end of a row.                             *)
LEMMA CountAll ==
  ASSUME NEW n \in Nat, NEW S \in SUBSET (1 .. n)
  PROVE  Count(S, n) = Cardinality(S)
<1>1. {i \in 1 .. n : i \in S} = S
  OBVIOUS
<1> QED BY <1>1 DEF Count

LEMMA SentSized ==
  ASSUME ProtocolInv, Grows, NEW p \in Party, Where(p), Sized(p), Sends(p)
  PROVE  Sized(p)'
<1>0. /\ Shaped /\ launch \in Launches /\ launch' = launch /\ Circ(p)' = Circ(p)
  BY DEF ProtocolInv, Grows, Circ
<1>1. PICK c, n : c = Circ(p) /\ n = Len(sent[p])
  OBVIOUS
<1>2. /\ n \in Nat /\ \A j \in 1 .. n : sent'[p][j] = sent[p][j]
  BY <1>1 DEF Grows
<1>3. \A r \in Talking(c) : /\ MessageOf(c, r) \in Nat /\ MessageOf(c, r) >= 2
                            /\ r \in Nat /\ r <= Len(c.rounds)
  <2>1. \A r \in Talking(c) : MessageOf(c, r) \in Nat /\ MessageOf(c, r) >= 2
    BY Messages
  <2> QED BY <2>1 DEF Talking
<1>4. ASSUME NEW r \in Talking(c), MessageOf(c, r) <= n
      PROVE  Len(sent'[p][MessageOf(c, r)]) = 2 * Cardinality(Interactive(c, r))
  BY <1>1, <1>2, <1>3, <1>4 DEF Sized
<1>5. CASE ShareInputs(p)
  <2> DEFINE mine == InputsOf(c, p)
  <2>1. n = 0 /\ pc'[p] = "sharing"
    BY <1>0, <1>1, <1>5 DEF Where, ShareInputs, Goto, Shaped
  <2>2. PICK mask \in [1 .. Len(mine) -> Masks] :
          LET halves == [k \in 1 .. Len(mine) |->
                           Share(Mod(p), Encoded(p, launch.input[p][mine[k]]), ZRaw(Mod(p), mask[k]))]
          IN  Call(p, [k \in 1 .. Len(mine) |-> halves[k][1]])
    BY <1>1, <1>5 DEF ShareInputs
  <2>3. PICK first :
          first = [k \in 1 .. Len(mine) |->
                     Share(Mod(p), Encoded(p, launch.input[p][mine[k]]), ZRaw(Mod(p), mask[k]))[1]]
    OBVIOUS
  <2>4. Call(p, first)
    BY <2>2, <2>3
  <2>5. Len(sent'[p]) = 1 /\ sent'[p][1] = first
    <3>1. Len(sent'[p]) = 0 + 1 /\ sent'[p][0 + 1] = first
      BY <1>1, <2>1, <2>4, SentWords
    <3> QED BY <3>1
  <2>6. Len(first) = Len(mine)
    <3>1. Len(mine) \in Nat
      BY <1>0, <1>1, InputFacts, Elements
    <3> HIDE DEF mine
    <3> QED BY <2>3, <3>1
  <2>7. \A r \in Talking(c) : ~(MessageOf(c, r) <= 1)
    BY <1>3
  <2> QED BY <1>0, <1>1, <2>1, <2>5, <2>6, <2>7 DEF Sized
<1>6. ASSUME n >= 1 PROVE Len(sent'[p][1]) = Len(InputsOf(c, p))
  BY <1>1, <1>2, <1>6 DEF Sized
<1>7. CASE OpenRound(p)
  <2>1. RoundIsOver(p) /\ queue[p] # <<>> /\ Call(p, Openings(p)) /\ UNCHANGED place
        /\ Len(queue[p]) \in Nat /\ queue[p] \in Seq(Wires(c))
    BY <1>1, <1>7 DEF OpenRound, ProtocolInv, Mine, Matching
  <2>2. PICK r, k, row : r = place[p][1] /\ k = place[p][2] /\ row = c.rounds[r]
    OBVIOUS
  <2>3. /\ r \in Nat /\ r <= Len(c.rounds) /\ Len(row) \in Nat /\ k = Len(row) + 1
        /\ InQueue(p) /\ r \in Talking(c) /\ MessageOf(c, r) = n + 1
    BY <1>1, <2>1, <2>2, RoundFacts
  <2>4. PICK here : here = Interactive(c, r)
    OBVIOUS
  <2>5. here \in SUBSET (1 .. Len(row)) /\ Len(queue[p]) = Count(here, k - 1)
    BY <1>1, <2>2, <2>3, <2>4 DEF Interactive, InQueue, Holds
  <2>6. Len(queue[p]) = Cardinality(here)
    BY <2>3, <2>5, CountAll
  <2>7. Len(Openings(p)) = 2 * Len(queue[p])
    BY <2>1 DEF Openings
  <2>8. Len(sent'[p]) = n + 1 /\ sent'[p][n + 1] = Openings(p)
    BY <1>1, <2>1, SentWords
  <2>9. ASSUME NEW s \in Talking(c), MessageOf(c, s) <= n + 1
        PROVE  Len(sent'[p][MessageOf(c, s)]) = 2 * Cardinality(Interactive(c, s))
    <3>1. CASE MessageOf(c, s) <= n
      BY <1>4, <3>1
    <3>2. CASE MessageOf(c, s) = n + 1
      <4>1. s = r
        BY <2>3, <3>2, Messages
      <4> QED BY <2>4, <2>6, <2>7, <2>8, <3>2, <4>1
    <3> QED BY <1>2, <1>3, <2>9, <3>1, <3>2
  <2>10. n >= 1
    BY <1>2, <1>3, <2>3
  <2>11. place'[p][1] \in Talking(c)
    BY <2>1, <2>2, <2>3
  <2> QED BY <1>0, <1>1, <1>6, <2>8, <2>9, <2>10, <2>11 DEF Sized
<1>8. CASE RevealOutputs(p)
  <2>1. PICK payload : Call(p, payload) /\ pc'[p] = "revealing"
    BY <1>0, <1>8 DEF RevealOutputs, Goto, Shaped
  <2>2. Len(sent'[p]) = n + 1
    BY <1>1, <2>1, SentWords
  <2>3. /\ AllRoundsDone(p) /\ place[p][1] \in Nat /\ Len(c.rounds) \in Nat
    BY <1>0, <1>1, <1>8, LaunchFacts DEF RevealOutputs, ProtocolInv, Mine, IsCircuit
  <2>4. place[p][1] > Len(c.rounds) /\ n = MessageOf(c, place[p][1] - 1)
    BY <1>1, <2>3 DEF AllRoundsDone, Where
  <2>5. place[p][1] - 1 \in Nat /\ Len(c.rounds) <= place[p][1] - 1
    BY <2>3, <2>4
  <2>6. n >= 1 /\ \A r \in Talking(c) : MessageOf(c, r) <= n
    <3>1. n >= 1
      BY <2>4, <2>5, Messages
    <3>2. ASSUME NEW r \in Talking(c) PROVE MessageOf(c, r) <= n
      <4>1. r \in Nat /\ r <= place[p][1] - 1
        BY <1>3, <2>3, <2>5
      <4> QED BY <2>4, <2>5, <4>1, Messages
    <3> QED BY <3>1, <3>2
  <2> QED BY <1>0, <1>1, <1>4, <1>6, <2>1, <2>2, <2>6 DEF Sized
<1> QED BY <1>5, <1>7, <1>8 DEF Sends

LEMMA RunSized ==
  ASSUME ProtocolInv, NEW p \in Party, Where(p), Sized(p), Run(p) \/ Kill(p)
  PROVE  Sized(p)'
<1>0. /\ Shaped /\ Grows
  BY RunGrows DEF ProtocolInv
<1>1. CASE Sends(p)
  BY <1>0, <1>1, SentSized
<1>2. CASE ~Sends(p)
  <2>1. sent' = sent /\ launch' = launch
    BY <1>0, <1>2, OnlySends DEF Grows
  <2>2. pc'[p] # "opening"
    <3> USE <1>0 DEF Shaped, Fail, Goto
    <3>1. CASE EvaluateGate(p)
      BY <3>1 DEF EvaluateGate, PassGate, EvalConst, EvalAdd, RefuseAdd, QueueGate, Assign, Turn, InRound
    <3>2. CASE \/ RefuseInputs(p) \/ SkipRound(p) \/ RefuseRound(p) \/ RefuseReveal(p)
               \/ PeerLost(p) \/ Exit(p) \/ Kill(p)
      BY <3>2 DEF RefuseInputs, SkipRound, RefuseRound, RefuseReveal, PeerLost, Exit, Kill,
                  RoundIsOver, InRound
    <3>3. CASE ReceiveInputs(p) \/ CloseRound(p) \/ ReceiveOutputs(p)
      BY <3>3 DEF ReceiveInputs, CloseRound, ReceiveOutputs
    <3> QED BY <1>2, <3>1, <3>2, <3>3 DEF Run, Sends
  <2> QED BY <2>1, <2>2 DEF Sized, Circ
<1> QED BY <1>1, <1>2

(* What a party has evaluated.                                             *)
LEMMA TurnCaught ==
  ASSUME ProtocolInv, NEW p \in Party, Where(p), Caught(p), NEW w \in Wires(Circ(p)), Turn(p, w),
         launch' = launch, Lasting(p), place'[p] = <<place[p][1], place[p][2] + 1>>,
         \/ wires'[p][w] # Unset
         \/ Gate(p, w).kind \in {"input", "output"}
         \/ IsInteractive(Gate(p, w))
  PROVE  Caught(p)'
<1> DEFINE c == Circ(p)
           r == place[p][1]
           k == place[p][2]
<1>0. /\ launch \in Launches /\ place[p] \in Places(c) /\ At(c, place[p]) = w /\ pc[p] = "layer"
      /\ Circ(p)' = c /\ \A v : Gate(p, v)' = Gate(p, v)
  BY TurnFacts DEF ProtocolInv, Circ, Gate
<1>1. r \in Nat \ {0} /\ k \in Nat \ {0} /\ place[p] = <<r, k>>
  BY <1>0, PlaceFacts
<1>2. place'[p][1] = r /\ place'[p][2] = k + 1
  OBVIOUS
<1>3. \A v \in Wires(c) : Gate(p, v).kind = "input" => wires[p][v] # Unset
  BY <1>0 DEF Caught
<1>4. \A v \in Wires(c) : wires[p][v] # Unset => wires'[p][v] # Unset
  BY DEF Lasting
<1>5. ASSUME NEW x \in Places(c), ReadyBefore(c, x, place'[p])
      PROVE  wires'[p][At(c, x)] # Unset \/ Gate(p, At(c, x)).kind = "output"
  <2>1. x[1] \in Nat /\ x[2] \in Nat /\ x = <<x[1], x[2]>> /\ At(c, x) \in Wires(c)
    BY <1>0, PlaceFacts
  <2>2. CASE ReadyBefore(c, x, place[p])
    BY <1>0, <1>4, <2>1, <2>2 DEF Caught
  <2>3. CASE x = place[p] /\ ~IsInteractive(Gate(p, At(c, x)))
    BY <1>0, <1>3, <1>4, <2>3
  <2>4. \/ ReadyBefore(c, x, place[p])
        \/ x[1] = r /\ x[2] = k /\ ~IsInteractive(Gate(p, At(c, x)))
    <3>1. x[2] < k + 1 => x[2] < k \/ x[2] = k
      BY <1>1, <2>1
    <3> QED BY <1>2, <1>5, <3>1 DEF ReadyBefore, Gate
  <2> QED BY <1>1, <2>1, <2>2, <2>3, <2>4
<1>6. \A v \in Wires(c) : Gate(p, v).kind = "input" => wires'[p][v] # Unset
  BY <1>3, <1>4
<1> QED BY <1>0, <1>5, <1>6 DEF Caught

LEMMA RoundCaught ==
  ASSUME ProtocolInv, NEW p \in Party, Caught(p), launch' = launch, Lasting(p),
         pc[p] \in {"layer", "opening"}, place'[p] = <<place[p][1] + 1, 1>>,
         \A x \in Places(Circ(p)) : x[1] = place[p][1] =>
           /\ x[2] < place[p][2]
           /\ IsInteractive(Gate(p, At(Circ(p), x))) => wires'[p][At(Circ(p), x)] # Unset
  PROVE  Caught(p)'
<1> DEFINE c == Circ(p)
           r == place[p][1]
<1>0. /\ launch \in Launches /\ Circ(p)' = c /\ (\A v : Gate(p, v)' = Gate(p, v)) /\ r \in Nat
  BY DEF ProtocolInv, Mine, Circ, Gate
<1>1. place'[p][1] = r + 1 /\ place'[p][2] = 1
  OBVIOUS
<1>2. \A v \in Wires(c) : wires[p][v] # Unset => wires'[p][v] # Unset
  BY DEF Lasting
<1>3. ASSUME NEW x \in Places(c), ReadyBefore(c, x, place'[p])
      PROVE  wires'[p][At(c, x)] # Unset \/ Gate(p, At(c, x)).kind = "output"
  <2>1. x[1] \in Nat \ {0} /\ x[2] \in Nat \ {0} /\ At(c, x) \in Wires(c)
    BY <1>0, PlaceFacts
  <2>2. x[1] < r \/ x[1] = r
    <3>1. x[1] < r + 1 \/ x[2] < 1
      BY <1>1, <1>3 DEF ReadyBefore
    <3> QED BY <1>0, <2>1, <3>1
  <2>3. CASE x[1] = r /\ IsInteractive(Gate(p, At(c, x)))
    BY <2>3
  <2>4. CASE x[1] < r \/ ~IsInteractive(Gate(p, At(c, x)))
    <3>1. ReadyBefore(c, x, place[p])
      BY <2>2, <2>4 DEF ReadyBefore, Gate
    <3> QED BY <1>2, <2>1, <3>1 DEF Caught
  <2> QED BY <2>2, <2>3, <2>4
<1>4. \A v \in Wires(c) : Gate(p, v).kind = "input" => wires'[p][v] # Unset
  BY <1>2 DEF Caught
<1> QED BY <1>0, <1>3, <1>4 DEF Caught

LEMMA EvalCaught ==
  ASSUME ProtocolInv, NEW p \in Party, Where(p), Caught(p), launch' = launch, Lasting(p),
         NEW w \in Wires(Circ(p)),
         PassGate(p, w) \/ QueueGate(p, w) \/ EvalConst(p, w) \/ EvalAdd(p, w)
  PROVE  Caught(p)'
<1>0. /\ Shaped /\ launch \in Launches /\ TypeOK /\ Turn(p, w)
      /\ wires[p] \in [Wires(Circ(p)) -> WireValue(p)]
  BY InvTypeOK DEF ProtocolInv, Mine, PassGate, QueueGate, EvalConst, EvalAdd
<1>1. place'[p] = <<place[p][1], place[p][2] + 1>>
  BY <1>0 DEF Shaped, PassGate, QueueGate, EvalConst, EvalAdd, Assign, Step
<1>2. CASE PassGate(p, w) \/ QueueGate(p, w)
  BY <1>0, <1>1, <1>2, TurnCaught DEF PassGate, QueueGate
<1>3. CASE EvalConst(p, w)
  <2>1. wires'[p][w] = ConstValue(Gate(p, w).literal)
    BY <1>0, <1>3 DEF Shaped, EvalConst, Assign
  <2>2. Gate(p, w).literal \in Literals
    BY <1>0, <1>3, LaunchFacts DEF EvalConst
  <2>3. wires'[p][w] # Unset
    BY <2>1, <2>2, UnsetAssumption
  <2> QED BY <1>0, <1>1, <2>3, TurnCaught
<1>4. CASE EvalAdd(p, w)
  <2>1. PICK u, v : u = ShareOf(p, Gate(p, w).args[1]) /\ v = ShareOf(p, Gate(p, w).args[2])
    OBVIOUS
  <2>2. wires'[p][w] = ShareValue(ZAdd(Mod(p), u, v))
    BY <1>0, <1>4, <2>1 DEF Shaped, EvalAdd, Assign
  <2>3. u \in Ring(p) /\ v \in Ring(p)
    <3>1. /\ Gate(p, w).kind = "add" /\ First(ReadFaults(p, w)) = "none"
      BY <1>4 DEF EvalAdd
    <3>2. Len(Gate(p, w).args) = 2
      BY <1>0, <3>1, OperandFacts
    <3> QED BY <1>0, <2>1, <3>1, <3>2, ReadFacts
  <2>4. ZAdd(Mod(p), u, v) \in Ring(p)
    BY <1>0, <2>3, RingInt, RingOperations
  <2>5. wires'[p][w] # Unset
    BY <1>0, <2>2, <2>4, RingInt, UnsetAssumption
  <2> QED BY <1>0, <1>1, <2>5, TurnCaught
<1> QED BY <1>2, <1>3, <1>4

(* The row of a place in the round that is over has been gone through.     *)
LEMMA RowOver ==
  ASSUME launch \in Launches, NEW p \in Party, NEW x \in Places(Circ(p)), x[1] = place[p][1],
         place[p][2] = Len(Circ(p).rounds[place[p][1]]) + 1
  PROVE  x[2] < place[p][2] /\ x[2] \in Nat \ {0}
BY PlaceFacts

LEMMA CallsCaught ==
  ASSUME ProtocolInv, NEW p \in Party, Where(p), Caught(p), launch' = launch, Lasting(p),
         SkipRound(p) \/ CloseRound(p) \/ ReceiveInputs(p)
  PROVE  Caught(p)'
<1>0. Shaped /\ launch \in Launches
  BY DEF ProtocolInv
<1>1. PICK r, c : r = place[p][1] /\ c = Circ(p)
  OBVIOUS
<1>2. CASE SkipRound(p)
  <2>1. RoundIsOver(p) /\ queue[p] = <<>> /\ place'[p] = <<r + 1, 1>>
    BY <1>0, <1>1, <1>2 DEF Shaped, SkipRound, NextRound
  <2>2. pc[p] = "layer" /\ place[p][2] = Len(c.rounds[r]) + 1 /\ r \notin Talking(c)
    BY <1>1, <2>1, RoundFacts
  <2>3. ASSUME NEW x \in Places(c), x[1] = r
        PROVE  x[2] < place[p][2] /\ ~IsInteractive(Gate(p, At(c, x)))
    BY <1>0, <1>1, <2>2, <2>3, RowOver, PlaceFacts
  <2> QED BY <1>0, <1>1, <2>1, <2>2, <2>3, RoundCaught
<1>3. CASE CloseRound(p) /\ Len(Incoming(p)) = Len(Outgoing(p))
  <2>1. /\ pc[p] = "opening" /\ place'[p] = <<r + 1, 1>> /\ wires'[p] = Finished(p)
    BY <1>0, <1>1, <1>3 DEF Shaped, CloseRound, NextRound
  <2>2. /\ r <= Len(c.rounds) /\ place[p][2] = Len(c.rounds[r]) + 1
        /\ Holds(queue[p], Interactive(c, r), place[p][2], c.rounds[r])
    BY <1>1, <2>1 DEF Where, InQueue
  <2>3. ASSUME NEW x \in Places(c), x[1] = r
        PROVE  /\ x[2] < place[p][2]
               /\ IsInteractive(Gate(p, At(c, x))) => wires'[p][At(c, x)] # Unset
    <3>1. /\ x[2] < place[p][2] /\ x[2] \in Nat \ {0} /\ At(c, x) \in Wires(c)
          /\ (x[2] \in Interactive(c, r) <=> IsInteractive(Gate(p, At(c, x))))
      BY <1>0, <1>1, <2>2, <2>3, RowOver, PlaceFacts
    <3>2. ASSUME IsInteractive(Gate(p, At(c, x))) PROVE wires'[p][At(c, x)] # Unset
      <4>1. PICK n : n = Count(Interactive(c, r), x[2])
        OBVIOUS
      <4>2. queue[p][n] = At(c, x) /\ Len(queue[p]) = Count(Interactive(c, r), place[p][2] - 1)
        BY <2>2, <2>3, <3>1, <3>2, <4>1 DEF Holds, At
      <4>3. n \in 1 .. Len(queue[p])
        <5>1. place[p][2] \in Nat
          BY DEF ProtocolInv, Mine
        <5>2. 0 \in Nat /\ place[p][2] - 1 \in Nat /\ x[2] <= place[p][2] - 1 /\ 0 < x[2]
          BY <3>1, <5>1
        <5>3. Count(Interactive(c, r), 0) < n /\ n \in Nat /\ Count(Interactive(c, r), 0) = 0
          BY <3>1, <3>2, <4>1, <5>2, CountMember, Counting
        <5>4. n <= Count(Interactive(c, r), place[p][2] - 1)
          BY <3>1, <4>1, <5>2, CountGrows
        <5>5. Len(queue[p]) \in Nat
          BY DEF ProtocolInv, Mine, Matching
        <5> QED BY <4>2, <5>3, <5>4, <5>5
      <4>4. PICK v \in Ring(p) : Finished(p)[At(c, x)] = ShareValue(v)
        BY <1>1, <1>3, <3>1, <4>2, <4>3, FinishedGates
      <4> QED BY <1>0, <2>1, <4>4, RingInt, UnsetAssumption
    <3> QED BY <3>1, <3>2
  <2> QED BY <1>0, <1>1, <2>1, <2>3, RoundCaught
<1>4. CASE CloseRound(p) /\ Len(Incoming(p)) # Len(Outgoing(p))
  <2>1. pc'[p] = "failed"
    BY <1>0, <1>4 DEF Shaped, CloseRound, Fail
  <2> QED BY <2>1 DEF Caught
<1>5. CASE ReceiveInputs(p) /\ Len(Incoming(p)) # Len(InputsOf(c, Peer(p)))
  <2>1. pc'[p] = "failed"
    BY <1>0, <1>1, <1>5 DEF Shaped, ReceiveInputs, Fail
  <2> QED BY <2>1 DEF Caught
<1>6. CASE ReceiveInputs(p) /\ Len(Incoming(p)) = Len(InputsOf(c, Peer(p)))
  <2>1. /\ place' = place /\ wires'[p] = Shared(p, InputsOf(c, Peer(p)), Incoming(p))
        /\ pc[p] = "sharing" /\ Circ(p)' = c /\ \A v : Gate(p, v)' = Gate(p, v)
    BY <1>0, <1>1, <1>6 DEF Shaped, ReceiveInputs, Circ, Gate
  <2>2. place[p] = <<1, 1>>
    BY <2>1 DEF Where
  <2>3. \A x \in Places(c) : ~ReadyBefore(c, x, place'[p])
    <3>1. \A x \in Places(c) : x[1] \in Nat \ {0} /\ x[2] \in Nat \ {0}
      BY <1>0, <1>1, PlaceFacts
    <3>2. place'[p][1] = 1 /\ place'[p][2] = 1
      BY <2>1, <2>2
    <3> QED BY <3>1, <3>2 DEF ReadyBefore
  <2>4. ASSUME NEW w \in Wires(c), Gate(p, w).kind = "input" PROVE wires'[p][w] # Unset
    <3>1. PICK q : q = Gate(p, w).owner
      OBVIOUS
    <3>2. q \in Party
      BY <1>0, <1>1, <2>4, <3>1, LaunchFacts DEF WellFormedGate, Gate
    <3>3. \E k \in 1 .. Len(InputsOf(c, q)) : InputsOf(c, q)[k] = w
      <4>1. IsCircuit(c)
        BY <1>0, <1>1, LaunchFacts
      <4>2. c.gates[w].kind = "input" /\ c.gates[w].owner = q
        BY <1>1, <2>4, <3>1 DEF Gate
      <4> QED BY <3>2, <4>1, <4>2 DEF IsCircuit
    <3>4. PICK v \in Ring(p) : Shared(p, InputsOf(c, Peer(p)), Incoming(p))[w] = ShareValue(v)
      BY <1>1, <1>6, <3>2, <3>3, SharedInputs
    <3> QED BY <1>0, <2>1, <3>4, RingInt, UnsetAssumption
  <2> QED BY <1>1, <2>1, <2>3, <2>4 DEF Caught
<1> QED BY <1>1, <1>2, <1>3, <1>4, <1>5, <1>6

LEMMA RunCaught ==
  ASSUME ProtocolInv, ShareInv, NEW p \in Party, Caught(p), Run(p) \/ Kill(p)
  PROVE  Caught(p)'
<1>0. Shaped /\ launch' = launch /\ Lasting(p) /\ Where(p)
  BY RunKept DEF ProtocolInv, ShareInv
<1>1. CASE \E w \in Wires(Circ(p)) :
             PassGate(p, w) \/ QueueGate(p, w) \/ EvalConst(p, w) \/ EvalAdd(p, w)
  BY <1>0, <1>1, EvalCaught
<1>2. CASE SkipRound(p) \/ CloseRound(p) \/ ReceiveInputs(p)
  BY <1>0, <1>2, CallsCaught
<1>3. CASE OpenRound(p)
  <2>1. UNCHANGED <<launch, place, wires>> /\ pc[p] = "layer"
    BY <1>3 DEF OpenRound, computation, RoundIsOver, InRound
  <2> QED BY <2>1 DEF Caught, Circ, Gate
<1>4. CASE \/ RefuseInputs(p) \/ RefuseRound(p) \/ RefuseReveal(p) \/ PeerLost(p) \/ Exit(p)
           \/ Kill(p) \/ ShareInputs(p) \/ RevealOutputs(p) \/ ReceiveOutputs(p)
           \/ \E w \in Wires(Circ(p)) : RefuseAdd(p, w)
  <2>1. pc'[p] \notin {"layer", "opening"}
    BY <1>0, <1>4 DEF Shaped, RefuseInputs, RefuseRound, RefuseReveal, PeerLost, Exit, Kill, ShareInputs,
                      RevealOutputs, ReceiveOutputs, RefuseAdd, Fail, Goto
  <2> QED BY <2>1 DEF Caught
<1> QED BY <1>1, <1>2, <1>3, <1>4 DEF Run, EvaluateGate

-----------------------------------------------------------------------------
(* Why a party fails.                                                      *)
LEMMA FirstIs ==
  ASSUME NEW n \in Nat, NEW f, DOMAIN f = 1 .. n, First(f) # "none"
  PROVE  \E k \in 1 .. n : f[k] = First(f)
<1> DEFINE bad == {k \in DOMAIN f : f[k] # "none"}
<1>1. First(f) = IF bad = {} THEN "none"
                 ELSE f[CHOOSE k \in bad : \A j \in bad : k <= j]
  BY DEF First
<1>2. bad # {} /\ bad \subseteq Nat /\ bad \subseteq 1 .. n
  BY <1>1
<1>3. \E k \in bad : \A j \in bad : k <= j
  BY <1>2, Least
<1>4. (CHOOSE k \in bad : \A j \in bad : k <= j) \in bad
  BY <1>3
<1> QED BY <1>1, <1>2, <1>4

LEMMA Unread ==
  ASSUME NEW p \in Party, NEW w
  PROVE  /\ WireFault(p, w) \in {"none", "unassigned", "encoding"}
         /\ WireFault(p, w) = "unassigned" => wires[p][w] = Unset
BY DEF WireFault

(* A gate whose turn it is, or that waits for the end of its round, reads  *)
(* nothing unassigned but output wires.                                    *)
LEMMA ReadsBlamed ==
  ASSUME ProtocolInv, NEW p \in Party, Caught(p), pc[p] \in {"layer", "opening"},
         NEW x \in Places(Circ(p)),
         x[1] < place[p][1] \/ (x[1] = place[p][1] /\ x[2] <= place[p][2]),
         NEW v \in Operands(Gate(p, At(Circ(p), x))), WireFault(p, v) = "unassigned"
  PROVE  ReadsAnOutput(p)
<1> DEFINE c == Circ(p)
           w == At(c, x)
<1>0. launch \in Launches /\ place[p][1] \in Nat /\ place[p][2] \in Nat
  BY DEF ProtocolInv, Mine
<1>1. w \in Wires(c) /\ x[1] \in Nat /\ x[2] \in Nat
  BY <1>0, PlaceFacts
<1>2. v \in Wires(c)
  BY <1>0, <1>1, OperandFacts DEF Operands
<1>3. WellScheduled(c)
  BY <1>0, LaunchFacts DEF IsCircuit
<1>4. PICK y \in Places(c) : At(c, y) = v
  BY <1>2, <1>3 DEF WellScheduled
<1>5. ReadyBefore(c, y, x)
  BY <1>3, <1>4 DEF WellScheduled, Gate
<1>6. y[1] \in Nat /\ y[2] \in Nat
  BY <1>0, PlaceFacts
<1>7. ReadyBefore(c, y, place[p])
  BY <1>0, <1>1, <1>5, <1>6 DEF ReadyBefore
<1>8. wires[p][v] = Unset
  BY Unread
<1>9. Gate(p, v).kind = "output"
  BY <1>4, <1>7, <1>8 DEF Caught
<1> QED BY <1>1, <1>9 DEF ReadsAnOutput

LEMMA ReadFaultBlamed ==
  ASSUME ProtocolInv, NEW p \in Party, Caught(p), pc[p] \in {"layer", "opening"},
         NEW x \in Places(Circ(p)),
         x[1] < place[p][1] \/ (x[1] = place[p][1] /\ x[2] <= place[p][2])
  PROVE  /\ First(ReadFaults(p, At(Circ(p), x))) \in {"none", "unassigned", "encoding"}
         /\ First(ReadFaults(p, At(Circ(p), x))) = "unassigned" => ReadsAnOutput(p)
<1> DEFINE w == At(Circ(p), x)
           n == Len(Gate(p, w).args)
           f == ReadFaults(p, w)
<1>1. launch \in Launches
  BY DEF ProtocolInv
<1>2. n \in Nat
  BY <1>1, PlaceFacts, OperandFacts
<1>3. DOMAIN f = 1 .. n /\ \A k \in 1 .. n : f[k] = WireFault(p, Gate(p, w).args[k])
  BY DEF ReadFaults
<1> HIDE DEF f
<1>4. CASE First(f) = "none"
  BY <1>4 DEF f
<1>5. CASE First(f) # "none"
  <2>1. PICK k \in 1 .. n : f[k] = First(f)
    BY <1>2, <1>3, <1>5, FirstIs
  <2>2. PICK v : v = Gate(p, w).args[k]
    OBVIOUS
  <2>3. First(f) = WireFault(p, v)
    BY <1>3, <2>1, <2>2
  <2>4. v \in Operands(Gate(p, w))
    BY <2>2 DEF Operands
  <2>5. WireFault(p, v) = "unassigned" => ReadsAnOutput(p)
    BY <2>4, ReadsBlamed
  <2> QED BY <2>3, <2>5, Unread DEF f
<1> QED BY <1>4, <1>5

(* What has been sent when a party fails in a round.                       *)
LEMMA SentInRound ==
  ASSUME ProtocolInv, NEW p \in Party, Where(p), pc[p] = "layer"
  PROVE  Len(sent[p]) <= MessageOf(Circ(p), Len(Circ(p).rounds))
<1>1. launch \in Launches /\ place[p][1] \in Nat \ {0}
  BY DEF ProtocolInv, Mine
<1>2. Len(Circ(p).rounds) \in Nat
  BY <1>1, LaunchFacts DEF IsCircuit
<1>3. place[p][1] <= Len(Circ(p).rounds) + 1 /\ Len(sent[p]) = MessageOf(Circ(p), place[p][1] - 1)
  BY DEF Where
<1>4. place[p][1] - 1 \in Nat /\ place[p][1] - 1 <= Len(Circ(p).rounds)
  BY <1>1, <1>2, <1>3
<1> QED BY <1>2, <1>3, <1>4, Messages

(* What a party refuses to go on for.                                      *)
Refusals == {"missing", "encoding", "unassigned", "unsupported"}

LEMMA InputsBlamed ==
  ASSUME ProtocolInv, NEW p \in Party, Where(p), RefuseInputs(p)
  PROVE  Blamed(p)' /\ error'[p] \in Refusals
<1> DEFINE mine == InputsOf(Circ(p), p)
           f == [k \in 1 .. Len(mine) |-> InputFault(p, launch.input[p][mine[k]])]
<1>0. /\ Shaped /\ launch \in Launches /\ UNCHANGED <<launch, sent>> /\ Circ(p)' = Circ(p)
      /\ error'[p] = OwnFault(p) /\ OwnFault(p) # "none" /\ pc[p] = "share"
  BY DEF ProtocolInv, Shaped, RefuseInputs, Fail, exchangeVars, Circ
<1>1. Len(mine) \in Nat
  BY <1>0, InputFacts, Elements
<1>2. OwnFault(p) = First(f) /\ DOMAIN f = 1 .. Len(mine)
  BY DEF OwnFault
<1>3. \A k \in 1 .. Len(mine) : f[k] \in {"none", "missing", "encoding"}
  BY DEF InputFault
<1> HIDE DEF f, mine
<1>4. OwnFault(p) \in {"missing", "encoding"}
  BY <1>0, <1>1, <1>2, <1>3, FirstIs
<1>5. Len(sent[p]) = 0
  BY <1>0 DEF Where
<1>6. Len(Circ(p).rounds) \in Nat
  BY <1>0, LaunchFacts DEF IsCircuit
<1>7. 0 <= MessageOf(Circ(p), Len(Circ(p).rounds))
  <2>1. MessageOf(Circ(p), Len(Circ(p).rounds)) \in Nat
    BY <1>6, Messages
  <2> QED BY <2>1
<1> QED BY <1>0, <1>4, <1>5, <1>7 DEF Blamed, Refusals

LEMMA AddBlamed ==
  ASSUME ProtocolInv, NEW p \in Party, Where(p), Caught(p), NEW w \in Wires(Circ(p)), RefuseAdd(p, w)
  PROVE  Blamed(p)' /\ error'[p] \in Refusals
<1>0. /\ Shaped /\ launch \in Launches /\ UNCHANGED <<launch, sent>>
      /\ Circ(p)' = Circ(p) /\ (\A v : Gate(p, v)' = Gate(p, v))
      /\ error'[p] = First(ReadFaults(p, w)) /\ First(ReadFaults(p, w)) # "none" /\ Turn(p, w)
  BY DEF ProtocolInv, Shaped, RefuseAdd, Fail, exchangeVars, Circ, Gate
<1>1. place[p] \in Places(Circ(p)) /\ At(Circ(p), place[p]) = w /\ pc[p] = "layer"
  BY <1>0, TurnFacts
<1>2. place[p][2] <= place[p][2]
  <2>1. place[p][2] \in Nat
    BY DEF ProtocolInv, Mine
  <2> QED BY <2>1
<1>3. /\ First(ReadFaults(p, w)) \in {"none", "unassigned", "encoding"}
      /\ First(ReadFaults(p, w)) = "unassigned" => ReadsAnOutput(p)
  BY <1>1, <1>2, ReadFaultBlamed
<1>4. Len(sent[p]) <= MessageOf(Circ(p), Len(Circ(p).rounds))
  BY <1>1, SentInRound
<1> QED BY <1>0, <1>3, <1>4 DEF Blamed, ReadsAnOutput, Refusals

LEMMA RoundBlamed ==
  ASSUME ProtocolInv, NEW p \in Party, Where(p), Caught(p), RefuseRound(p)
  PROVE  Blamed(p)' /\ error'[p] \in Refusals
<1> DEFINE n == Len(queue[p])
           f == [k \in 1 .. n |-> GateFault(p, queue[p][k])]
<1>0. /\ Shaped /\ launch \in Launches /\ UNCHANGED <<launch, sent>>
      /\ Circ(p)' = Circ(p) /\ (\A v : Gate(p, v)' = Gate(p, v))
      /\ error'[p] = QueueFault(p) /\ QueueFault(p) # "none" /\ RoundIsOver(p)
      /\ queue[p] \in Seq(Wires(Circ(p))) /\ n \in Nat
  BY DEF ProtocolInv, Shaped, RefuseRound, Fail, exchangeVars, Circ, Gate, Mine, Matching
<1>1. PICK c, r, here : c = Circ(p) /\ r = place[p][1] /\ here = Interactive(c, r)
  OBVIOUS
<1>2. /\ r \in Nat \ {0} /\ r <= Len(c.rounds) /\ Len(c.rounds) \in Nat
      /\ place[p][2] = Len(c.rounds[r]) + 1 /\ pc[p] = "layer" /\ Len(c.rounds[r]) \in Nat
      /\ Holds(queue[p], here, place[p][2], c.rounds[r])
      /\ MessageOf(c, r) = Len(sent[p]) + IF queue[p] = <<>> THEN 0 ELSE 1
  BY <1>0, <1>1, RoundFacts DEF InQueue
<1>3. PICK k \in 1 .. n : GateFault(p, queue[p][k]) = QueueFault(p)
  <2>1. QueueFault(p) = First(f) /\ DOMAIN f = 1 .. n
    BY DEF QueueFault
  <2> HIDE DEF f
  <2>2. PICK k \in 1 .. n : f[k] = QueueFault(p)
    BY <1>0, <2>1, FirstIs
  <2> QED BY <2>2 DEF f
<1>4. PICK i \in here : queue[p][k] = c.rounds[r][i]
  BY <1>2 DEF Holds
<1>5. PICK x : x = <<r, i>>
  OBVIOUS
<1>6. x \in Places(c) /\ At(c, x) = queue[p][k] /\ x[1] = r /\ x[2] = i
  <2>1. i \in 1 .. Len(c.rounds[r])
    BY <1>1, <1>4 DEF Interactive
  <2>2. WellScheduled(c) /\ Len(c.gates) \in Nat
    <3>1. IsCircuit(c)
      BY <1>0, <1>1, LaunchFacts
    <3>2. WellScheduled(c)
      BY <3>1 DEF IsCircuit
    <3>3. Len(c.gates) \in Nat
      BY <3>1 DEF IsCircuit
    <3> QED BY <3>2, <3>3
  <2>3. r \in 1 .. Len(c.rounds)
    BY <1>2
  <2>4. Len(c.rounds[r]) <= Len(c.gates)
    BY <2>2, <2>3 DEF WellScheduled
  <2>5. i \in Wires(c)
    BY <1>2, <2>1, <2>2, <2>4 DEF Wires
  <2>6. x \in (1 .. Len(c.rounds)) \X Wires(c) /\ x[2] <= Len(c.rounds[x[1]])
    BY <1>2, <1>5, <2>1, <2>3, <2>5
  <2> QED BY <1>4, <1>5, <2>6 DEF Places, At
<1>7. x[1] = place[p][1] /\ x[2] <= place[p][2]
  <2>1. i \in 1 .. Len(c.rounds[r])
    BY <1>1, <1>4 DEF Interactive
  <2> QED BY <1>1, <1>2, <1>6, <2>1
<1>8. /\ First(ReadFaults(p, queue[p][k])) \in {"none", "unassigned", "encoding"}
      /\ First(ReadFaults(p, queue[p][k])) = "unassigned" => ReadsAnOutput(p)
  BY <1>1, <1>2, <1>6, <1>7, ReadFaultBlamed
<1>9. QueueFault(p) = "unassigned" => ReadsAnOutput(p)
  BY <1>3, <1>8 DEF GateFault
<1>10. QueueFault(p) = "unsupported" => Unopened(p, x)
  <2>1. ASSUME QueueFault(p) = "unsupported" PROVE Gate(p, queue[p][k]).kind # "mul"
    BY <1>3, <1>8, <2>1 DEF GateFault
  <2>2. Len(sent[p]) \in Nat /\ queue[p] # <<>>
    BY <1>0 DEF ProtocolInv, ExchangeTypeOK
  <2>3. MessageOf(c, r) = Len(sent[p]) + 1
    BY <1>2, <2>2
  <2> QED BY <1>1, <1>4, <1>6, <2>1, <2>2, <2>3 DEF Unopened
<1>11. Len(sent[p]) <= MessageOf(Circ(p), Len(Circ(p).rounds))
  BY <1>2, SentInRound
<1>12. Unopened(p, x) => Unopened(p, x)'
  BY <1>0 DEF Unopened
<1>13. QueueFault(p) \in Refusals
  BY <1>0, <1>3, <1>8 DEF GateFault, Refusals
<1> QED BY <1>0, <1>1, <1>6, <1>9, <1>10, <1>11, <1>12, <1>13 DEF Blamed, ReadsAnOutput

LEMMA RevealBlamed ==
  ASSUME ProtocolInv, NEW p \in Party, Where(p), Caught(p), RefuseReveal(p)
  PROVE  Blamed(p)' /\ error'[p] \in Refusals
<1> DEFINE n == Len(Circ(p).outputs)
           f == [k \in 1 .. n |-> WireFault(p, Source(p, k))]
<1>0. /\ Shaped /\ launch \in Launches /\ UNCHANGED <<launch, sent>>
      /\ Circ(p)' = Circ(p) /\ (\A v : Gate(p, v)' = Gate(p, v))
      /\ error'[p] = RevealFault(p) /\ RevealFault(p) # "none" /\ AllRoundsDone(p)
      /\ n \in Nat /\ pc[p] = "layer"
  BY LaunchFacts DEF ProtocolInv, Shaped, RefuseReveal, Fail, exchangeVars, Circ, Gate, AllRoundsDone
<1>1. PICK k \in 1 .. n : WireFault(p, Source(p, k)) = RevealFault(p)
  <2>1. RevealFault(p) = First(f) /\ DOMAIN f = 1 .. n
    BY DEF RevealFault
  <2> HIDE DEF f
  <2>2. PICK k \in 1 .. n : f[k] = RevealFault(p)
    BY <1>0, <2>1, FirstIs
  <2> QED BY <2>2 DEF f
<1>2. PICK o : o = Circ(p).outputs[k]
  OBVIOUS
<1>3. o \in Wires(Circ(p)) /\ Gate(p, o).kind = "output"
  BY <1>0, <1>2, LaunchFacts, Elements
<1>4. Source(p, k) \in Operands(Gate(p, o))
  <2>1. Len(Gate(p, o).args) = 1
    BY <1>0, <1>3, OperandFacts
  <2> QED BY <1>2, <2>1 DEF Source, Operands
<1>5. PICK x \in Places(Circ(p)) : At(Circ(p), x) = o
  BY <1>0, <1>3, LaunchFacts DEF IsCircuit, WellScheduled
<1>6. x[1] < place[p][1]
  <2>1. x[1] \in Nat /\ x[1] <= Len(Circ(p).rounds) /\ Len(Circ(p).rounds) \in Nat
    BY <1>0, PlaceFacts
  <2>2. place[p][1] \in Nat /\ place[p][1] > Len(Circ(p).rounds)
    BY <1>0 DEF AllRoundsDone, ProtocolInv, Mine
  <2> QED BY <2>1, <2>2
<1>7. RevealFault(p) = "unassigned" => ReadsAnOutput(p)
  BY <1>0, <1>1, <1>4, <1>5, <1>6, ReadsBlamed
<1>8. RevealFault(p) # "unsupported"
  BY <1>1, Unread
<1>9. Len(sent[p]) <= MessageOf(Circ(p), Len(Circ(p).rounds))
  BY <1>0, SentInRound
<1>10. RevealFault(p) \in Refusals
  BY <1>0, <1>1, Unread DEF Refusals
<1> QED BY <1>0, <1>7, <1>8, <1>9, <1>10 DEF Blamed, ReadsAnOutput

(* The steps that refuse to go on.                                         *)
Refuses(p) ==
  \/ RefuseInputs(p) \/ RefuseRound(p) \/ RefuseReveal(p)
  \/ \E w \in Wires(Circ(p)) : RefuseAdd(p, w)

LEMMA RefusalBlamed ==
  ASSUME ProtocolInv, NEW p \in Party, Where(p), Caught(p), Refuses(p)
  PROVE  Blamed(p)' /\ error'[p] \in Refusals
BY InputsBlamed, AddBlamed, RoundBlamed, RevealBlamed DEF Refuses

(* Any other failure is of the exchange.                                   *)
LEMMA OtherFaults ==
  ASSUME ProtocolInv, NEW p \in Party, Run(p) \/ Kill(p), ~Refuses(p), error'[p] # error[p]
  PROVE  \/ error'[p] = "io" /\ PeerLost(p)
         \/ /\ error'[p] = "length"
            /\ \/ ReceiveInputs(p) /\ Len(Incoming(p)) # Len(InputsOf(Circ(p), Peer(p)))
               \/ CloseRound(p) /\ Len(Incoming(p)) # Len(Outgoing(p))
               \/ ReceiveOutputs(p) /\ Len(Incoming(p)) # Len(Outgoing(p))
<1>0. Shaped
  BY DEF ProtocolInv
<1> USE <1>0 DEF Shaped, Fail, Goto
<1>1. CASE EvaluateGate(p)
  BY <1>1 DEF EvaluateGate, PassGate, EvalConst, EvalAdd, QueueGate, Assign, Refuses
<1>2. CASE SkipRound(p) \/ Exit(p) \/ Kill(p) \/ ShareInputs(p) \/ OpenRound(p) \/ RevealOutputs(p)
  BY <1>2 DEF SkipRound, Exit, Kill, ShareInputs, OpenRound, RevealOutputs
<1>3. CASE PeerLost(p)
  BY <1>3 DEF PeerLost
<1>4. CASE ReceiveInputs(p)
  BY <1>4 DEF ReceiveInputs
<1>5. CASE CloseRound(p)
  BY <1>5 DEF CloseRound
<1>6. CASE ReceiveOutputs(p)
  BY <1>6 DEF ReceiveOutputs
<1> QED BY <1>1, <1>2, <1>3, <1>4, <1>5, <1>6 DEF Run, Refuses

(* One that has failed only ends.                                          *)
LEMMA FailedEnds ==
  ASSUME ProtocolInv, NEW p \in Party, Standing(p), error[p] # "none", Run(p) \/ Kill(p)
  PROVE  Exit(p) /\ UNCHANGED <<pc, error, sent>>
<1>1. pc[p] = "failed"
  BY DEF Standing
<1>2. Exit(p)
  BY <1>1 DEF Run, Kill, EvaluateGate, PassGate, EvalConst, EvalAdd, RefuseAdd, QueueGate, Turn,
              InRound, RoundIsOver, AllRoundsDone, RefuseInputs, SkipRound, RefuseRound,
              RefuseReveal, PeerLost, ShareInputs, OpenRound, RevealOutputs, ReceiveInputs,
              CloseRound, ReceiveOutputs, Steps
<1> QED BY <1>2 DEF Exit, Close

LEMMA RunBlamed ==
  ASSUME ProtocolInv, NEW p \in Party, Where(p), Standing(p), Caught(p), Blamed(p), Run(p) \/ Kill(p)
  PROVE  Blamed(p)'
<1>1. CASE error[p] # "none"
  <2>1. UNCHANGED <<error, sent, launch>>
    BY <1>1, FailedEnds, RunGrows DEF Grows
  <2> QED BY <2>1 DEF Blamed, Circ, Gate, ReadsAnOutput, Unopened
<1>2. CASE Refuses(p)
  BY <1>2, RefusalBlamed
<1>3. CASE error[p] = "none" /\ ~Refuses(p)
  <2>1. error'[p] \in {"none", "io", "length"}
    BY <1>3, OtherFaults
  <2> QED BY <2>1 DEF Blamed, OwnFaults
<1> QED BY <1>1, <1>2, <1>3

-----------------------------------------------------------------------------
(* What a failure does to the other party.                                 *)
LEMMA SameNets ==
  ASSUME SameCircuit, NEW p \in Party
  PROVE  Circ(Peer(p)) = Circ(p) /\ \A v : Gate(Peer(p), v) = Gate(p, v)
BY DEF SameCircuit, Circ, Gate, Peer, Party

(* The last message carries the outputs.                                   *)
Last(p) == MessageOf(Circ(p), Len(Circ(p).rounds)) + 1

LEMMA LastFacts ==
  ASSUME launch \in Launches, NEW p \in Party
  PROVE  /\ Last(p) \in Nat /\ Last(p) >= 2
         /\ \A r \in Talking(Circ(p)) : MessageOf(Circ(p), r) < Last(p)
<1>1. Len(Circ(p).rounds) \in Nat
  BY LaunchFacts DEF IsCircuit
<1>2. \A r \in Talking(Circ(p)) : r \in Nat /\ r <= Len(Circ(p).rounds)
  BY DEF Talking
<1>3. /\ MessageOf(Circ(p), Len(Circ(p).rounds)) \in Nat
      /\ MessageOf(Circ(p), Len(Circ(p).rounds)) >= 1
      /\ \A r \in Talking(Circ(p)) :
           /\ MessageOf(Circ(p), r) \in Nat
           /\ MessageOf(Circ(p), r) <= MessageOf(Circ(p), Len(Circ(p).rounds))
  BY <1>1, <1>2, Messages
<1> QED BY <1>3 DEF Last

(* A message that comes back has the length that is expected.              *)
LEMMA LengthsMatch ==
  ASSUME ProtocolInv, SameCircuit, NEW p \in Party,
         Where(p), Sized(p), Sized(Peer(p)), Spoken(Peer(p))
  PROVE  /\ ReceiveInputs(p) => Len(Incoming(p)) = Len(InputsOf(Circ(p), Peer(p)))
         /\ CloseRound(p) => Len(Incoming(p)) = Len(Outgoing(p))
         /\ ReceiveOutputs(p) => Len(Incoming(p)) = Len(Outgoing(p))
<1>0. launch \in Launches /\ Peer(p) \in Party /\ Circ(Peer(p)) = Circ(p)
  BY SameNets, Peers DEF ProtocolInv
<1>1. PICK q, c, n : q = Peer(p) /\ c = Circ(p) /\ n = Len(sent[p])
  OBVIOUS
<1>2. ASSUME Return(p)
      PROVE  /\ n \in Nat \ {0} /\ n <= Len(sent[q]) /\ Len(sent[q]) \in Nat
             /\ Incoming(p) = sent[q][n] /\ Outgoing(p) = sent[p][n]
  BY <1>1, <1>2, AnswerFacts DEF Outgoing
<1>3. ASSUME ReceiveInputs(p) PROVE Len(Incoming(p)) = Len(InputsOf(c, q))
  <2>1. n = 1 /\ Return(p)
    BY <1>1, <1>3 DEF Where, ReceiveInputs
  <2>2. 1 <= Len(sent[q]) /\ Incoming(p) = sent[q][1] /\ Len(sent[q]) \in Nat
    BY <1>2, <2>1
  <2>3. Len(sent[q]) >= 1
    BY <2>2
  <2> QED BY <1>0, <1>1, <2>2, <2>3 DEF Sized
<1>4. ASSUME CloseRound(p) PROVE Len(Incoming(p)) = Len(Outgoing(p))
  <2>1. Return(p) /\ pc[p] = "opening"
    BY <1>4 DEF CloseRound
  <2>2. PICK r : r = place[p][1]
    OBVIOUS
  <2>3. r \in Talking(c) /\ n = MessageOf(c, r)
    BY <1>1, <2>1, <2>2 DEF Where, Sized
  <2>4. n <= n
    BY <1>2, <2>1
  <2>5. Len(sent[p][n]) = 2 * Cardinality(Interactive(c, r))
    BY <1>1, <2>3, <2>4 DEF Sized
  <2>6. Len(sent[q][n]) = 2 * Cardinality(Interactive(c, r))
    BY <1>0, <1>1, <1>2, <2>1, <2>3 DEF Sized
  <2> QED BY <1>2, <2>1, <2>5, <2>6
<1>5. ASSUME ReceiveOutputs(p) PROVE Len(Incoming(p)) = Len(Outgoing(p))
  <2>1. Return(p) /\ pc[p] = "revealing"
    BY <1>5 DEF ReceiveOutputs
  <2>2. n = MessageOf(c, Len(c.rounds)) + 1
    BY <1>1, <2>1 DEF Where
  <2>3. Len(sent[q]) >= n
    BY <1>2, <2>1
  <2>4. Len(sent[q][n]) = Len(c.outputs)
    BY <1>0, <1>1, <2>2, <2>3 DEF Spoken, SpokenOutputs
  <2>5. Len(Outgoing(p)) = Len(c.outputs)
    BY <1>1, <2>1 DEF ProtocolInv, Mine, Matching
  <2> QED BY <1>2, <2>1, <2>4, <2>5
<1> QED BY <1>1, <1>3, <1>4, <1>5

(* A party that is done has the peer's last message.                       *)
LEMMA DoneFacts ==
  ASSUME ProtocolInv, ExchangeInv, AnswerInv, NEW p \in Party, Where(p), pc[p] = "done"
  PROVE  /\ Len(sent[p]) = Last(p) /\ Len(got[p]) = Last(p)
         /\ Last(p) <= Len(sent[Peer(p)])
<1>1. Len(sent[p]) = Last(p)
  BY DEF Where, Last
<1>2. Len(got[p]) = Last(p)
  BY <1>1 DEF AnswerInv, Concluded
<1>3. Len(got[p]) <= Len(sent[Peer(p)])
  BY DEF ExchangeInv, Fifo
<1> QED BY <1>1, <1>2, <1>3

(* A peer that is done has left all it had to say, and taken all there was.*)
LEMMA DoneIsThere ==
  ASSUME ProtocolInv, ExchangeInv, AnswerInv, ShareInv, FailInv, SameCircuit,
         NEW p \in Party, pc[p] \in Calling, pc[Peer(p)] = "done"
  PROVE  ~PeerIsGone(p)
<1> DEFINE q == Peer(p)
<1>0. /\ launch \in Launches /\ q \in Party /\ Peer(q) = p /\ Circ(q) = Circ(p)
      /\ Where(p) /\ Where(q) /\ Standing(p) /\ Standing(q) /\ Sized(p)
  BY SameNets, Peers DEF ProtocolInv, ShareInv, FailInv, Sound
<1>1. /\ Len(sent[p]) \in Nat /\ Len(sent[q]) \in Nat /\ Len(got[p]) \in Nat /\ Len(got[q]) \in Nat
  BY <1>0 DEF ExchangeInv, ExchangeTypeOK
<1>2. Last(q) = Last(p)
  BY <1>0 DEF Last
<1>3. Len(sent[q]) = Last(p) /\ Len(got[q]) = Last(p) /\ Last(p) <= Len(sent[p])
  BY <1>0, <1>2, DoneFacts
<1>4. Len(sent[p]) <= Last(p)
  <2>1. CASE pc[p] = "sharing"
    <3>1. Len(sent[p]) = 1
      BY <1>0, <2>1 DEF Where
    <3>2. Last(p) \in Nat /\ Last(p) >= 2
      BY <1>0, LastFacts
    <3> QED BY <3>1, <3>2
  <2>2. CASE pc[p] = "opening"
    <3>1. place[p][1] \in Talking(Circ(p)) /\ Len(sent[p]) = MessageOf(Circ(p), place[p][1])
      BY <1>0, <2>2 DEF Sized, Where
    <3>2. MessageOf(Circ(p), place[p][1]) < Last(p) /\ Last(p) \in Nat
      BY <1>0, <3>1, LastFacts
    <3> QED BY <1>1, <3>1, <3>2
  <2>3. CASE pc[p] = "revealing"
    BY <1>0, <1>1, <2>3 DEF Where, Last
  <2> QED BY <2>1, <2>2, <2>3 DEF Calling
<1>5. Len(sent[p]) = Len(sent[q])
  BY <1>1, <1>3, <1>4
<1>6. Len(got[p]) < Len(sent[p])
  <2>1. status[p] = "busy"
    BY <1>0 DEF Standing
  <2>2. Len(sent[p]) = Len(got[p]) + 1
    BY <2>1 DEF ProtocolInv, Answered
  <2> QED BY <1>1, <2>2
<1>7. HasMail(p) /\ ~HasMail(q)
  BY <1>0, <1>1, <1>3, <1>5, <1>6 DEF HasMail
<1>8. status[q] # "crashed"
  BY <1>0 DEF Standing
<1> QED BY <1>7, <1>8 DEF PeerIsGone

LEMMA OwnFollowed ==
  ASSUME ProtocolInv, ExchangeInv, AnswerInv, ShareInv, FailInv, SameCircuit,
         NEW p \in Party, Run(p) \/ Kill(p)
  PROVE  Followed(p)'
<1> DEFINE q == Peer(p)
<1>0. /\ q \in Party /\ Peer(q) = p /\ Apart(q) /\ Followed(p) /\ Followed(q)
      /\ Where(p) /\ Caught(p) /\ Standing(p) /\ Standing(q) /\ Sized(p) /\ Sized(q) /\ Spoken(q)
  BY Peers, PeerApart DEF ProtocolInv, ShareInv, AnswerInv, FailInv, Sound
<1>1. pc'[q] = pc[q] /\ error'[q] = error[q]
  BY <1>0 DEF Apart, Alone
<1>2. CASE error'[p] = error[p]
  BY <1>0, <1>1, <1>2 DEF Followed
<1>3. CASE Refuses(p)
  BY <1>0, <1>3, RefusalBlamed DEF Followed, Refusals
<1>4. CASE ~Refuses(p) /\ error'[p] # error[p]
  <2>1. error'[p] = "io" /\ PeerLost(p)
    BY <1>0, <1>4, OtherFaults, LengthsMatch
  <2>2. PeerIsGone(p) /\ pc[p] \in Calling
    BY <2>1 DEF PeerLost, Abort, Calling
  <2>3. status[q] \in {"closed", "crashed"}
    BY <2>2 DEF PeerIsGone
  <2>4. pc[q] # "done"
    BY <2>2, DoneIsThere
  <2>5. pc[q] \in {"failed", "crashed"}
    <3>1. pc[q] \in Steps \cup {"done", "failed", "crashed"}
      BY <1>0 DEF ProtocolInv, Mine
    <3> QED BY <1>0, <2>3, <2>4, <3>1 DEF Standing, InStep, Calling, Steps
  <2>6. pc[q] = "failed" => error[q] # "io"
    BY <1>0, <2>2 DEF Followed, Calling
  <2> QED BY <1>0, <1>1, <2>1, <2>5, <2>6 DEF Followed
<1> QED BY <1>2, <1>3, <1>4

LEMMA PeerFollowed ==
  ASSUME ProtocolInv, FailInv, SameCircuit, NEW p \in Party, Run(p) \/ Kill(p)
  PROVE  Followed(Peer(p))'
<1> DEFINE q == Peer(p)
<1>0. /\ q \in Party /\ Peer(q) = p /\ Apart(q) /\ Followed(q) /\ Standing(p)
  BY Peers, PeerApart DEF ProtocolInv, FailInv, Sound
<1>1. error'[q] = error[q]
  BY <1>0 DEF Apart
<1>2. CASE error[q] # "io"
  BY <1>0, <1>1, <1>2 DEF Followed
<1>3. CASE pc[p] = "crashed"
  BY <1>3 DEF Run, Kill, EvaluateGate, PassGate, EvalConst, EvalAdd, RefuseAdd, QueueGate, Turn,
              InRound, RoundIsOver, AllRoundsDone, RefuseInputs, SkipRound, RefuseRound,
              RefuseReveal, PeerLost, ShareInputs, OpenRound, RevealOutputs, ReceiveInputs,
              CloseRound, ReceiveOutputs, Steps, Exit
<1>4. CASE pc[p] = "failed" /\ error[p] # "io"
  <2>1. error[p] # "none"
    BY <1>0, <1>4 DEF Standing
  <2>2. UNCHANGED <<pc, error>>
    BY <1>0, <2>1, FailedEnds
  <2> QED BY <1>0, <1>4, <2>2 DEF Followed
<1> QED BY <1>0, <1>2, <1>3, <1>4 DEF Followed

-----------------------------------------------------------------------------
LEMMA StepFailInv ==
  ASSUME ProtocolInv, ExchangeInv, ShareInv, AnswerInv, FailInv, [Next]_vars
  PROVE  FailInv'
<1>1. CASE UNCHANGED vars
  BY <1>1 DEF vars, computation, exchangeVars, FailInv, Sound, Standing, Sized, Caught, Blamed,
              Followed, ReadsAnOutput, Unopened, SameCircuit, Circ, Gate
<1>2. ASSUME NEW p \in Party, Run(p) \/ Kill(p) PROVE FailInv'
  <2>0. /\ Sound(p) /\ Sound(Peer(p)) /\ Where(p) /\ Peer(p) \in Party /\ Apart(Peer(p))
        /\ launch' = launch /\ \A q \in Party : q \in {p, Peer(p)}
    BY <1>2, Peers, PeerApart, RunGrows DEF FailInv, ShareInv, Grows, Peer, Party
  <2>1. Standing(p)' /\ Sized(p)' /\ Caught(p)' /\ Blamed(p)'
    BY <1>2, <2>0, RunStanding, RunSized, RunCaught, RunBlamed DEF Sound
  <2>2. Sound(Peer(p))'
    BY <2>0, ApartSound
  <2>3. \A q \in Party : Sound(q)'
    BY <2>0, <2>1, <2>2 DEF Sound
  <2>4. SameCircuit' = SameCircuit
    BY <2>0 DEF SameCircuit
  <2>5. SameCircuit => Followed(p)' /\ Followed(Peer(p))'
    BY <1>2, OwnFollowed, PeerFollowed
  <2>6. SameCircuit => \A q \in Party : Followed(q)'
    BY <2>0, <2>5
  <2> QED BY <2>3, <2>4, <2>6 DEF FailInv
<1>3. CASE Over
  BY <1>1, <1>3 DEF Over
<1> QED BY <1>1, <1>2, <1>3 DEF Next

LEMMA InitFailInv == Init => FailInv
<1> SUFFICES ASSUME Init PROVE FailInv
  OBVIOUS
<1>1. ASSUME NEW p \in Party
      PROVE  /\ pc[p] = "share" /\ error[p] = "none" /\ sent[p] = <<>> /\ status[p] = "idle"
             /\ launch \in Launches
  BY <1>1 DEF Init, ExchangeInit
<1>2. ASSUME NEW p \in Party PROVE Sized(p)
  <2>1. Len(sent[p]) = 0
    BY <1>1, <1>2
  <2>2. \A r \in Talking(Circ(p)) : MessageOf(Circ(p), r) \in Nat /\ MessageOf(Circ(p), r) >= 2
    BY Messages
  <2> QED BY <1>1, <1>2, <2>1, <2>2 DEF Sized
<1>3. ASSUME NEW p \in Party PROVE Standing(p) /\ Caught(p) /\ Blamed(p) /\ Followed(p)
  BY <1>1, <1>3 DEF Standing, Caught, Blamed, Followed, OwnFaults, InStep, Calling
<1> QED BY <1>2, <1>3 DEF FailInv, Sound

LEMMA InvNoHalfAnswer ==
  ProtocolInv /\ ExchangeInv /\ ShareInv /\ AnswerInv /\ FailInv => NoHalfAnswer
<1> SUFFICES ASSUME ProtocolInv, ExchangeInv, ShareInv, AnswerInv, FailInv, SameCircuit,
                    NEW p \in Party, pc[p] = "done", pc[Peer(p)] = "failed"
             PROVE  FALSE
  BY DEF NoHalfAnswer
<1> DEFINE q == Peer(p)
<1>0. /\ launch \in Launches /\ q \in Party /\ Peer(q) = p /\ Circ(q) = Circ(p) /\ Where(p)
      /\ Standing(q) /\ Blamed(q) /\ Followed(q) /\ error[q] \in Faults
  BY SameNets, Peers DEF ProtocolInv, ShareInv, FailInv, Sound, Shaped, Mine
<1>1. error[q] \in OwnFaults
  BY <1>0 DEF Standing, Followed, OwnFaults
<1>2. Len(sent[q]) <= Last(p) - 1
  <2>1. MessageOf(Circ(p), Len(Circ(p).rounds)) \in Nat
    <3>1. Len(Circ(p).rounds) \in Nat
      BY <1>0, LaunchFacts DEF IsCircuit
    <3> QED BY <3>1, Messages
  <2> QED BY <1>0, <1>1, <2>1 DEF Blamed, Last
<1>3. Last(p) <= Len(sent[q]) /\ Last(p) \in Nat /\ Len(sent[q]) \in Nat
  BY <1>0, DoneFacts, LastFacts DEF ExchangeInv, ExchangeTypeOK
<1> QED BY <1>2, <1>3

LEMMA InvUnsupportedStopsBoth ==
  ProtocolInv /\ ShareInv /\ FailInv => UnsupportedStopsBoth
<1> SUFFICES ASSUME ProtocolInv, ShareInv, FailInv, SameCircuit,
                    NEW p \in Party, error[p] = "unsupported"
             PROVE  Len(sent[Peer(p)]) <= Len(sent[p]) /\ pc[Peer(p)] # "done"
  BY DEF UnsupportedStopsBoth
<1> DEFINE q == Peer(p)
<1>0. /\ launch \in Launches /\ q \in Party /\ Circ(q) = Circ(p)
      /\ \A v : Gate(q, v) = Gate(p, v)
      /\ Where(q) /\ Spoken(q) /\ Blamed(p) /\ Len(sent[p]) \in Nat /\ Len(sent[q]) \in Nat
  BY SameNets, Peers DEF ProtocolInv, ShareInv, FailInv, Sound, ExchangeTypeOK
<1>1. PICK x \in Places(Circ(p)) : Unopened(p, x)
  BY <1>0 DEF Blamed
<1>2. x[1] \in Talking(Circ(p))
  <2>1. x[1] \in 1 .. Len(Circ(p).rounds)
    BY <1>0, PlaceFacts
  <2> QED BY <1>1, <2>1 DEF Unopened, Talking
<1>3. PICK m : m = MessageOf(Circ(p), x[1])
  OBVIOUS
<1>4. m \in Nat /\ m < Last(q) /\ Last(q) \in Nat
  <2>1. m \in Nat
    BY <1>2, <1>3, Messages
  <2> QED BY <1>0, <1>2, <1>3, <2>1, LastFacts
<1>5. ~(m <= Len(sent[q]))
  <2>1. m <= Len(sent[q]) => Opens(q, x)
    BY <1>0, <1>1, <1>3 DEF Unopened, Spoken, SpokenRounds
  <2> QED BY <1>0, <1>1, <2>1 DEF Unopened, Opens
<1>6. m <= Len(sent[p]) + 1
  BY <1>1, <1>3 DEF Unopened
<1>7. pc[q] # "done"
  BY <1>0, <1>4, <1>5 DEF Where, Last
<1> QED BY <1>0, <1>4, <1>5, <1>6, <1>7

LEMMA FailInvariant == Spec => [](ProtocolInv /\ ExchangeInv /\ ShareInv /\ AnswerInv /\ FailInv)
<1>1. ProtocolInv /\ ExchangeInv /\ ShareInv /\ AnswerInv /\ FailInv /\ [Next]_vars
        => ProtocolInv' /\ ShareInv' /\ AnswerInv' /\ FailInv'
  BY NextStepped, NextKept, StepAnswerInv, StepFailInv
<1>2. Spec => []ExchangeInv
  BY ProtocolUsesExchange, ExchangeInvariant, PTL
<1>3. Init => ProtocolInv /\ ShareInv /\ AnswerInv /\ FailInv
  BY InitProtocolInv, InitShareInv, InitAnswerInv, InitFailInv
<1> QED BY <1>1, <1>2, <1>3, PTL DEF Spec

(* With one netlist, no party ever reports an answer while the other       *)
(* reports a failure, whoever is killed: whatever can go wrong of a        *)
(* party's own goes wrong before it sends its outputs, and no one is done  *)
(* without them (run, protocol.rs:108-117; reveal_outputs, 276-307).        *)
THEOREM NobodyAnswersAlone == Spec => []NoHalfAnswer
BY FailInvariant, InvNoHalfAnswer, PTL

(* With one netlist, a network error is never the first failure: the peer  *)
(* was killed or has failed of its own.  And no message ever has another   *)
(* length than the receiver expects, so the checks of protocol.rs:155-160, *)
(* 233-239 and 288-294 never fire.                                         *)
THEOREM EveryFailureHasACause == Spec => []FailuresHaveACause
<1>1. FailInv => FailuresHaveACause
  BY DEF FailInv, Followed, FailuresHaveACause
<1> QED BY <1>1, FailInvariant, PTL

(* Whatever netlists the parties loaded, a wire is read before it was      *)
(* assigned only if it is an output (evaluate_round, protocol.rs:180-217). *)
THEOREM ReadsComeAfterWrites == Spec => []ReadsFollowWrites
<1>1. FailInv => ReadsFollowWrites
  BY DEF FailInv, Sound, Blamed, ReadsAnOutput, ReadsFollowWrites
<1> QED BY <1>1, FailInvariant, PTL

(* When a party of a netlist has met a gate that is not implemented, its   *)
(* peer has not sent more than it has and does not succeed                 *)
(* (evaluate_interactive, protocol.rs:206-230).                            *)
THEOREM NobodyOpensUnsupported == Spec => []UnsupportedStopsBoth
BY FailInvariant, InvUnsupportedStopsBoth, PTL

-----------------------------------------------------------------------------
(* What a run costs.  The words of a message are counted by the interactive*)
(* gates that were opened; the messages by the rounds that have any.       *)

(* The gates that were opened by the first m messages.                     *)
Paid(c, m) == {x \in Places(c) : x[2] \in Interactive(c, x[1]) /\ MessageOf(c, x[1]) <= m}

(* The words of these messages, of a party with k inputs.                  *)
Words(c, k, m) ==
  IF m = 0 THEN 0
  ELSE k + 2 * Cardinality(Paid(c, m))
         + IF m > MessageOf(c, Len(c.rounds)) THEN Len(c.outputs) ELSE 0

Costed(p) ==
  LET n == Len(got[p])
  IN  /\ transcript[p].rounds = n
      /\ transcript[p].sent = Words(Circ(p), Len(InputsOf(Circ(p), p)), n)
      /\ SameCircuit =>
           transcript[p].received = Words(Circ(p), Len(InputsOf(Circ(p), Peer(p))), n)

CostInv == \A p \in Party : Costed(p)

LEMMA PaidFacts ==
  ASSUME launch \in Launches, NEW p \in Party
  PROVE  /\ \A m \in Nat : IsFiniteSet(Paid(Circ(p), m)) /\ Cardinality(Paid(Circ(p), m)) \in Nat
         /\ Cardinality(Paid(Circ(p), 1)) = 0
         /\ \A r \in Talking(Circ(p)) :
              /\ Cardinality(Interactive(Circ(p), r)) \in Nat
              /\ Cardinality(Paid(Circ(p), MessageOf(Circ(p), r)))
                   = Cardinality(Paid(Circ(p), MessageOf(Circ(p), r) - 1))
                       + Cardinality(Interactive(Circ(p), r))
         /\ Paid(Circ(p), Last(p)) = Paid(Circ(p), Last(p) - 1)
<1> DEFINE c == Circ(p)
<1>0. /\ Len(c.rounds) \in Nat /\ Len(c.gates) \in Nat
      /\ c.rounds \in Seq(Seq(Wires(c))) /\ WellScheduled(c)
  <2>1. IsCircuit(c)
    BY LaunchFacts
  <2> QED BY <2>1 DEF IsCircuit
<1>1. \A r \in Talking(c) : /\ MessageOf(c, r) \in Nat /\ MessageOf(c, r) >= 2
                            /\ MessageOf(c, r) < Last(p)
                            /\ r \in 1 .. Len(c.rounds)
  <2>1. \A r \in Talking(c) : r \in Nat /\ r \in 1 .. Len(c.rounds)
    BY <1>0 DEF Talking
  <2> QED BY <2>1, Messages, LastFacts
<1>2. ASSUME NEW m \in Nat
      PROVE  IsFiniteSet(Paid(c, m)) /\ Cardinality(Paid(c, m)) \in Nat
  <2>1. IsFiniteSet(1 .. Len(c.rounds)) /\ IsFiniteSet(Wires(c))
    <3>1. 1 \in Int /\ Len(c.rounds) \in Int /\ Len(c.gates) \in Int
      BY <1>0
    <3> QED BY <3>1, FS_Interval DEF Wires
  <2>2. IsFiniteSet((1 .. Len(c.rounds)) \X Wires(c))
    BY <2>1, FS_Product
  <2>3. Paid(c, m) \in SUBSET ((1 .. Len(c.rounds)) \X Wires(c))
    BY DEF Paid, Places
  <2> QED BY <2>2, <2>3, FS_Subset, FS_CardinalityType
<1>3. \A x \in Places(c) : x[2] \in Interactive(c, x[1]) => x[1] \in Talking(c)
  BY PlaceFacts
<1>4. Cardinality(Paid(c, 1)) = 0
  <2>1. Paid(c, 1) = {}
    BY <1>1, <1>3 DEF Paid
  <2> QED BY <2>1, FS_EmptySet
<1>5. Paid(c, Last(p)) = Paid(c, Last(p) - 1)
  <2>1. Last(p) \in Nat
    BY LastFacts
  <2>2. \A x \in Places(c) : x[2] \in Interactive(c, x[1]) =>
          (MessageOf(c, x[1]) <= Last(p) <=> MessageOf(c, x[1]) <= Last(p) - 1)
    BY <1>1, <1>3, <2>1
  <2> QED BY <2>2 DEF Paid
<1>6. ASSUME NEW r \in Talking(c)
      PROVE  /\ Cardinality(Interactive(c, r)) \in Nat
             /\ Cardinality(Paid(c, MessageOf(c, r)))
                  = Cardinality(Paid(c, MessageOf(c, r) - 1)) + Cardinality(Interactive(c, r))
  <2>1. PICK m, here, old, new : /\ m = MessageOf(c, r) /\ here = Interactive(c, r)
                                 /\ old = Paid(c, m - 1) /\ new = {r} \X here
    OBVIOUS
  <2>2. /\ m \in Nat /\ m - 1 \in Nat /\ r \in 1 .. Len(c.rounds)
        /\ \A s \in Talking(c) : MessageOf(c, s) \in Nat /\ (MessageOf(c, s) = m => s = r)
    <3>1. m \in Nat /\ m >= 2 /\ r \in 1 .. Len(c.rounds)
      BY <1>1, <2>1
    <3>2. \A s \in Talking(c) : MessageOf(c, s) \in Nat
      BY <1>1
    <3>3. \A s \in Talking(c) : MessageOf(c, s) = m => s = r
      BY <2>1, Messages
    <3> QED BY <3>1, <3>2, <3>3
  <2>3. Len(c.rounds[r]) \in Nat /\ Len(c.rounds[r]) <= Len(c.gates)
    BY <1>0, <2>2, Elements DEF WellScheduled
  <2>4. here \subseteq 1 .. Len(c.rounds[r]) /\ here \subseteq Wires(c)
    BY <1>0, <2>1, <2>3 DEF Interactive, Wires
  <2>5. IsFiniteSet(here) /\ Cardinality(here) \in Nat
    <3>1. IsFiniteSet(1 .. Len(c.rounds[r]))
      BY <2>3, FS_Interval
    <3> QED BY <2>4, <3>1, FS_Subset, FS_CardinalityType
  <2>6. IsFiniteSet(new) /\ Cardinality(new) = Cardinality(here)
    <3>1. IsFiniteSet({r}) /\ Cardinality({r}) = 1
      BY FS_Singleton
    <3> QED BY <2>1, <2>5, <3>1, FS_Product
  <2>7. IsFiniteSet(old) /\ Cardinality(old) \in Nat
    BY <1>2, <2>1, <2>2
  <2>8. Paid(c, m) = old \cup new
    <3>1. ASSUME NEW x \in Paid(c, m) PROVE x \in old \cup new
      <4>1. /\ x \in Places(c) /\ x[2] \in Interactive(c, x[1]) /\ x[1] \in Talking(c)
            /\ MessageOf(c, x[1]) <= m /\ x = <<x[1], x[2]>>
        BY <1>3, <3>1, PlaceFacts DEF Paid
      <4>2. CASE MessageOf(c, x[1]) = m
        BY <2>1, <2>2, <4>1, <4>2
      <4>3. CASE MessageOf(c, x[1]) <= m - 1
        BY <2>1, <4>1, <4>3 DEF Paid
      <4> QED BY <2>2, <4>1, <4>2, <4>3
    <3>2. ASSUME NEW x \in old PROVE x \in Paid(c, m)
      <4>1. /\ x \in Places(c) /\ x[2] \in Interactive(c, x[1]) /\ MessageOf(c, x[1]) <= m - 1
        BY <2>1, <3>2 DEF Paid
      <4>2. MessageOf(c, x[1]) \in Nat
        BY <1>1, <1>3, <4>1
      <4> QED BY <2>2, <4>1, <4>2 DEF Paid
    <3>3. ASSUME NEW x \in new PROVE x \in Paid(c, m)
      <4>1. x[1] = r /\ x[2] \in here /\ x \in (1 .. Len(c.rounds)) \X Wires(c)
        BY <2>1, <2>2, <2>4, <3>3
      <4>2. x \in Places(c)
        <5>1. x[2] <= Len(c.rounds[r])
          <6>1. PICK n, i : n = Len(c.rounds[r]) /\ i = x[2]
            OBVIOUS
          <6>2. here \subseteq 1 .. n
            BY <2>4, <6>1
          <6>3. i \in 1 .. n /\ n \in Nat
            BY <2>3, <4>1, <6>1, <6>2
          <6> QED BY <6>1, <6>3
        <5> QED BY <4>1, <5>1 DEF Places
      <4> QED BY <2>1, <2>2, <4>1, <4>2 DEF Paid
    <3> QED BY <3>1, <3>2, <3>3
  <2>9. old \cap new = {}
    <3>1. ASSUME NEW x \in old, x \in new PROVE FALSE
      <4>1. MessageOf(c, r) <= m - 1
        BY <2>1, <3>1 DEF Paid
      <4> QED BY <2>1, <2>2, <4>1
    <3> QED BY <3>1
  <2>10. Cardinality(Paid(c, m)) = Cardinality(old) + Cardinality(new)
    <3>1. Cardinality(old \cup new) = Cardinality(old) + Cardinality(new) - Cardinality(old \cap new)
      BY <2>6, <2>7, FS_Union
    <3>2. Cardinality(old \cap new) = 0
      BY <2>9, FS_EmptySet
    <3> QED BY <2>5, <2>6, <2>7, <2>8, <3>1, <3>2
  <2> QED BY <2>1, <2>5, <2>6, <2>10
<1> QED BY <1>2, <1>4, <1>5, <1>6

LEMMA WordFacts ==
  ASSUME launch \in Launches, NEW p \in Party, NEW k \in Nat
  PROVE  /\ Words(Circ(p), k, 0) = 0
         /\ Words(Circ(p), k, 1) = k
         /\ \A r \in Talking(Circ(p)) :
              Words(Circ(p), k, MessageOf(Circ(p), r))
                = Words(Circ(p), k, MessageOf(Circ(p), r) - 1) + 2 * Cardinality(Interactive(Circ(p), r))
         /\ Words(Circ(p), k, Last(p)) = Words(Circ(p), k, Last(p) - 1) + Len(Circ(p).outputs)
<1> DEFINE c == Circ(p)
<1>1. PICK z : z = MessageOf(c, Len(c.rounds))
  OBVIOUS
<1>2. /\ Last(p) = z + 1 /\ z \in Nat /\ z >= 1 /\ Len(c.outputs) \in Nat
  <2>1. Len(c.rounds) \in Nat /\ Len(c.outputs) \in Nat
    BY LaunchFacts DEF IsCircuit
  <2>2. z \in Nat /\ z >= 1
    BY <1>1, <2>1, Messages
  <2> QED BY <1>1, <2>1, <2>2 DEF Last
<1>3. \A m \in Nat \ {0} : Words(c, k, m) = k + 2 * Cardinality(Paid(c, m))
                                             + IF m > z THEN Len(c.outputs) ELSE 0
  BY <1>1 DEF Words
<1>4. Words(c, k, 0) = 0
  BY DEF Words
<1>5. /\ \A m \in Nat : Cardinality(Paid(c, m)) \in Nat
      /\ Cardinality(Paid(c, 1)) = 0
      /\ Paid(c, Last(p)) = Paid(c, Last(p) - 1)
  BY PaidFacts
<1>6. Words(c, k, 1) = k
  BY <1>2, <1>3, <1>5
<1>7. Words(c, k, Last(p)) = Words(c, k, Last(p) - 1) + Len(c.outputs)
  <2>1. Last(p) \in Nat \ {0} /\ Last(p) - 1 \in Nat \ {0} /\ Last(p) > z /\ ~(Last(p) - 1 > z)
    BY <1>2
  <2>2. Cardinality(Paid(c, Last(p) - 1)) \in Nat
    BY <1>5, <2>1
  <2>3. Words(c, k, Last(p)) = k + 2 * Cardinality(Paid(c, Last(p) - 1)) + Len(c.outputs)
    BY <1>3, <1>5, <2>1
  <2>4. Words(c, k, Last(p) - 1) = k + 2 * Cardinality(Paid(c, Last(p) - 1)) + 0
    BY <1>3, <2>1
  <2> QED BY <1>2, <2>2, <2>3, <2>4
<1>8. ASSUME NEW r \in Talking(c)
      PROVE  Words(c, k, MessageOf(c, r))
               = Words(c, k, MessageOf(c, r) - 1) + 2 * Cardinality(Interactive(c, r))
  <2>1. PICK m : m = MessageOf(c, r)
    OBVIOUS
  <2>2. m \in Nat \ {0} /\ m - 1 \in Nat \ {0} /\ ~(m > z) /\ ~(m - 1 > z)
    <3>1. m \in Nat /\ m >= 2 /\ m < Last(p)
      BY <2>1, Messages, LastFacts
    <3> QED BY <1>2, <3>1
  <2>3. /\ Cardinality(Interactive(c, r)) \in Nat /\ Cardinality(Paid(c, m - 1)) \in Nat
        /\ Cardinality(Paid(c, m)) = Cardinality(Paid(c, m - 1)) + Cardinality(Interactive(c, r))
    BY <2>1, <2>2, PaidFacts
  <2> QED BY <1>3, <2>1, <2>2, <2>3
<1> QED BY <1>4, <1>6, <1>7, <1>8

(* Only a call that returns is paid for.                                   *)
Receives(p) == ReceiveInputs(p) \/ CloseRound(p) \/ ReceiveOutputs(p)

LEMMA OnlyReceives ==
  ASSUME ProtocolInv, NEW p \in Party, Run(p) \/ Kill(p), ~Receives(p)
  PROVE  UNCHANGED <<transcript, got>>
<1>1. CASE EvaluateGate(p)
  BY <1>1 DEF EvaluateGate, PassGate, EvalConst, EvalAdd, RefuseAdd, QueueGate, Assign, Step,
              exchangeVars
<1>2. CASE \/ RefuseInputs(p) \/ SkipRound(p) \/ RefuseRound(p) \/ RefuseReveal(p)
           \/ PeerLost(p) \/ Exit(p) \/ Kill(p)
  BY <1>2 DEF RefuseInputs, SkipRound, RefuseRound, RefuseReveal, PeerLost, Exit, Kill,
              exchangeVars, Abort, Close, Crash
<1>3. CASE ShareInputs(p) \/ OpenRound(p) \/ RevealOutputs(p)
  BY <1>3 DEF ShareInputs, OpenRound, RevealOutputs, Call
<1> QED BY <1>1, <1>2, <1>3 DEF Run, Receives

LEMMA ReturnPaid ==
  ASSUME ProtocolInv, NEW p \in Party, Return(p), Account(p), Costed(p), launch' = launch,
         NEW m \in Nat, m = Len(sent[p]),
         NEW mine, NEW theirs, NEW c, NEW i, NEW j,
         c = Circ(p) /\ i = Len(InputsOf(c, p)) /\ j = Len(InputsOf(c, Peer(p))),
         Words(c, i, m) = Words(c, i, m - 1) + mine,
         Words(c, j, m) = Words(c, j, m - 1) + theirs,
         Len(Outgoing(p)) = mine,
         SameCircuit => Len(Incoming(p)) = theirs
  PROVE  /\ Costed(p)'
         /\ \A q \in Party : q # p => transcript'[q] = transcript[q] /\ got'[q] = got[q]
<1>0. /\ Shaped /\ ExchangeTypeOK /\ Circ(p)' = Circ(p) /\ SameCircuit' = SameCircuit
  BY DEF ProtocolInv, Circ, SameCircuit
<1>1. /\ Len(got'[p]) = Len(got[p]) + 1 /\ Len(got[p]) \in Nat
      /\ \A q \in Party : q # p => got'[q] = got[q]
  <2>1. got[p] \in Seq(Message) /\ got' = [got EXCEPT ![p] = Append(@, Incoming(p))]
        /\ DOMAIN got = Party
    BY <1>0 DEF ExchangeTypeOK, Return
  <2> QED BY <2>1
<1>2. m = Len(got[p]) + 1
  BY DEF ProtocolInv, Answered, Return
<1>3. Len(got'[p]) = m /\ Len(got[p]) = m - 1
  BY <1>1, <1>2
<1>4. /\ transcript'[p].rounds = transcript[p].rounds + 1
      /\ transcript'[p].sent = transcript[p].sent + mine
      /\ SameCircuit => transcript'[p].received = transcript[p].received + theirs
      /\ \A q \in Party : q # p => transcript'[q] = transcript[q]
  <2>1. DOMAIN transcript = Party
    BY <1>0 DEF Shaped
  <2> QED BY <2>1 DEF Account
<1>6. /\ transcript[p].rounds = m - 1 /\ transcript[p].sent = Words(c, i, m - 1)
      /\ SameCircuit => transcript[p].received = Words(c, j, m - 1)
  BY <1>3 DEF Costed
<1>8. /\ transcript'[p].rounds = m /\ transcript'[p].sent = Words(c, i, m)
      /\ SameCircuit => transcript'[p].received = Words(c, j, m)
  BY <1>4, <1>6
<1>9. Costed(p)'
  BY <1>0, <1>3, <1>8 DEF Costed
<1> QED BY <1>1, <1>4, <1>9

LEMMA ReceivesCosted ==
  ASSUME ProtocolInv, NEW p \in Party, Where(p), Sized(p), Receives(p), Costed(p), launch' = launch,
         SameCircuit => Sized(Peer(p)) /\ Spoken(Peer(p))
  PROVE  /\ Costed(p)'
         /\ \A q \in Party : q # p => transcript'[q] = transcript[q] /\ got'[q] = got[q]
<1>0. launch \in Launches /\ Peer(p) \in Party /\ Return(p) /\ Account(p)
  BY Peers DEF ProtocolInv, Receives, ReceiveInputs, CloseRound, ReceiveOutputs
<1>1. PICK c, m, i, j : /\ c = Circ(p) /\ m = Len(sent[p])
                        /\ i = Len(InputsOf(c, p)) /\ j = Len(InputsOf(c, Peer(p)))
  OBVIOUS
<1>2. m \in Nat /\ i \in Nat /\ j \in Nat /\ Outgoing(p) = sent[p][m]
  <2>1. i \in Nat /\ j \in Nat
    BY <1>0, <1>1, InputFacts, Elements
  <2> QED BY <1>0, <1>1, <2>1, AnswerFacts DEF Outgoing
<1>3. \A k \in Nat :
        /\ Words(c, k, 0) = 0 /\ Words(c, k, 1) = k
        /\ \A r \in Talking(c) : Words(c, k, MessageOf(c, r))
                                   = Words(c, k, MessageOf(c, r) - 1) + 2 * Cardinality(Interactive(c, r))
        /\ Words(c, k, Last(p)) = Words(c, k, Last(p) - 1) + Len(c.outputs)
  BY <1>0, <1>1, WordFacts
<1>4. CASE ReceiveInputs(p)
  <2>1. m = 1 /\ Len(Outgoing(p)) = i
    <3>1. m = 1
      BY <1>1, <1>4 DEF ReceiveInputs, Where
    <3>2. Len(sent[p]) >= 1
      BY <1>1, <3>1
    <3> QED BY <1>1, <1>2, <3>1, <3>2 DEF Sized
  <2>2. SameCircuit => Len(Incoming(p)) = j
    BY <1>1, <1>4, LengthsMatch
  <2>3. m - 1 = 0 /\ Words(c, i, m) = Words(c, i, m - 1) + i /\ Words(c, j, m) = Words(c, j, m - 1) + j
    BY <1>2, <1>3, <2>1
  <2>4. PICK mine, theirs : mine = i /\ theirs = j
    OBVIOUS
  <2>5. Words(c, i, m) = Words(c, i, m - 1) + mine /\ Words(c, j, m) = Words(c, j, m - 1) + theirs
    BY <2>3, <2>4
  <2>6. Len(Outgoing(p)) = mine /\ (SameCircuit => Len(Incoming(p)) = theirs)
    BY <2>1, <2>2, <2>4
  <2> QED BY <1>0, <1>1, <1>2, <2>5, <2>6, ReturnPaid
<1>5. CASE CloseRound(p)
  <2>1. PICK r : r = place[p][1]
    OBVIOUS
  <2>2. r \in Talking(c) /\ m = MessageOf(c, r)
    BY <1>1, <1>5, <2>1 DEF CloseRound, Where, Sized
  <2>3. PICK n : n = 2 * Cardinality(Interactive(c, r))
    OBVIOUS
  <2>4. Len(Outgoing(p)) = n
    <3>1. MessageOf(c, r) <= Len(sent[p])
      BY <1>1, <1>2, <2>2
    <3> QED BY <1>1, <1>2, <2>2, <2>3, <3>1 DEF Sized
  <2>5. SameCircuit => Len(Incoming(p)) = n
    BY <1>5, <2>4, LengthsMatch
  <2>6. Words(c, i, m) = Words(c, i, m - 1) + n /\ Words(c, j, m) = Words(c, j, m - 1) + n
    BY <1>2, <1>3, <2>2, <2>3
  <2> QED BY <1>0, <1>1, <1>2, <2>4, <2>5, <2>6, ReturnPaid
<1>6. CASE ReceiveOutputs(p)
  <2>1. PICK n : n = Len(c.outputs)
    OBVIOUS
  <2>2. m = Last(p) /\ Len(Outgoing(p)) = n
    BY <1>1, <1>6, <2>1 DEF ReceiveOutputs, Where, Last, ProtocolInv, Mine, Matching
  <2>3. SameCircuit => Len(Incoming(p)) = n
    BY <1>6, <2>2, LengthsMatch
  <2>4. Words(c, i, m) = Words(c, i, m - 1) + n /\ Words(c, j, m) = Words(c, j, m - 1) + n
    BY <1>2, <1>3, <2>1, <2>2
  <2> QED BY <1>0, <1>1, <1>2, <2>2, <2>3, <2>4, ReturnPaid
<1> QED BY <1>4, <1>5, <1>6 DEF Receives

LEMMA StepCostInv ==
  ASSUME ProtocolInv, ShareInv, FailInv, CostInv, [Next]_vars
  PROVE  CostInv'
<1>1. CASE UNCHANGED vars
  BY <1>1 DEF vars, exchangeVars, CostInv, Costed, SameCircuit, Circ
<1>2. ASSUME NEW p \in Party, Run(p) \/ Kill(p) PROVE CostInv'
  <2>1. /\ launch' = launch /\ (\A q \in Party : Circ(q)' = Circ(q)) /\ SameCircuit' = SameCircuit
        /\ Peer(p) \in Party
    BY <1>2, RunGrows, Peers DEF Grows, Circ, SameCircuit
  <2>2. \A q \in Party : Costed(q) /\ transcript'[q] = transcript[q] /\ got'[q] = got[q] => Costed(q)'
    BY <2>1 DEF Costed
  <2>3. CASE Receives(p)
    <3>1. Costed(p)' /\ \A q \in Party : q # p => transcript'[q] = transcript[q] /\ got'[q] = got[q]
      BY <2>1, <2>3, ReceivesCosted DEF ShareInv, FailInv, Sound, CostInv
    <3> QED BY <2>2, <3>1 DEF CostInv
  <2>4. CASE ~Receives(p)
    BY <1>2, <2>2, <2>4, OnlyReceives DEF CostInv
  <2> QED BY <2>3, <2>4
<1>3. CASE Over
  BY <1>1, <1>3 DEF Over
<1> QED BY <1>1, <1>2, <1>3 DEF Next

LEMMA InitCostInv == Init => CostInv
<1> SUFFICES ASSUME Init, NEW p \in Party PROVE Costed(p)
  BY DEF CostInv
<1>1. Len(got[p]) = 0 /\ transcript[p] = [rounds |-> 0, sent |-> 0, received |-> 0]
  BY DEF Init, ExchangeInit
<1> QED BY <1>1 DEF Costed, Words

(* A run that succeeds has opened every interactive gate, and each of them *)
(* is a product with a triple of its own.                                  *)
LEMMA PaidTriples ==
  ASSUME launch \in Launches, NEW p \in Party,
         \A x \in Places(Circ(p)) :
           x[2] \in Interactive(Circ(p), x[1]) => Gate(p, At(Circ(p), x)).kind = "mul"
  PROVE  Cardinality(Paid(Circ(p), Last(p))) = Circ(p).triples
<1>1. PICK c, S, n : c = Circ(p) /\ S = Paid(c, Last(p)) /\ n = c.triples
  OBVIOUS
<1>2. /\ n \in Nat /\ TriplesAreOwn(c) /\ WellScheduled(c)
      /\ \A w \in Wires(c) : WellFormedGate(c, w)
  <2>1. IsCircuit(c)
    BY <1>1, LaunchFacts
  <2> QED BY <1>1, <2>1 DEF IsCircuit
<1>3. IsFiniteSet(S)
  <2>1. Last(p) \in Nat
    BY LastFacts
  <2> QED BY <1>1, <2>1, PaidFacts
<1>4. \A x \in S : /\ x \in Places(c) /\ At(c, x) \in Wires(c)
                   /\ c.gates[At(c, x)].kind = "mul"
                   /\ \A y \in Places(c) : At(c, y) = At(c, x) => y = x
  BY <1>1, PlaceFacts DEF Paid, Gate
<1>5. \A x \in Places(c) : c.gates[At(c, x)].kind = "mul" => x \in S
  <2> TAKE x \in Places(c)
  <2> HAVE c.gates[At(c, x)].kind = "mul"
  <2>1. x[2] \in Interactive(c, x[1]) /\ x[1] \in Talking(c)
    BY <1>1, PlaceFacts DEF IsInteractive, Gate
  <2>2. MessageOf(c, x[1]) \in Nat /\ Last(p) \in Nat /\ MessageOf(c, x[1]) < Last(p)
    BY <1>1, <2>1, LastFacts, Messages
  <2> QED BY <1>1, <2>1, <2>2 DEF Paid
<1> DEFINE f == [x \in S |-> c.gates[At(c, x)].triple]
<1>6. f \in [S -> 1 .. n]
  <2>1. ASSUME NEW x \in S PROVE c.gates[At(c, x)].triple \in 1 .. n
    BY <1>1, <1>2, <1>4 DEF WellFormedGate
  <2> QED BY <2>1
<1>7. \A x, y \in S : f[x] = f[y] => x = y
  BY <1>2, <1>4 DEF TriplesAreOwn
<1>8. \A t \in 1 .. n : \E x \in S : f[x] = t
  <2> TAKE t \in 1 .. n
  <2>1. PICK w \in Wires(c) : c.gates[w].kind = "mul" /\ c.gates[w].triple = t
    BY <1>1, <1>2 DEF TriplesAreOwn
  <2>2. PICK x \in Places(c) : At(c, x) = w
    BY <1>2 DEF WellScheduled
  <2> QED BY <1>5, <2>1, <2>2
<1>9. ExistsBijection(S, 1 .. n)
  <2> HIDE DEF f
  <2>1. f \in Bijection(S, 1 .. n)
    BY <1>6, <1>7, <1>8 DEF Bijection, Injection, Surjection, IsInjective
  <2> QED BY <2>1 DEF ExistsBijection
<1>10. Cardinality(1 .. n) = Cardinality(S)
  BY <1>3, <1>9, FS_Bijection
<1>11. Cardinality(1 .. n) = n
  <2>1. 1 \in Int /\ n \in Int /\ (1 > n => n = 0)
    BY <1>2
  <2>2. Cardinality(1 .. n) = IF 1 > n THEN 0 ELSE n - 1 + 1
    BY <2>1, FS_Interval
  <2> QED BY <1>2, <2>1, <2>2
<1> QED BY <1>1, <1>10, <1>11

(* The rounds that talk are as many as the longest path has interactive    *)
(* gates.                                                                  *)
LEMMA RoundsAreDepth ==
  ASSUME launch \in Launches, NEW p \in Party
  PROVE  LET n == MessageOf(Circ(p), Len(Circ(p).rounds)) - 1
         IN  /\ \E w \in Wires(Circ(p)) : Depth(Circ(p).gates)[w] = n
             /\ \A w \in Wires(Circ(p)) : Depth(Circ(p).gates)[w] <= n
<1>1. PICK c, depth, talk, last :
        c = Circ(p) /\ depth = Depth(c.gates) /\ talk = Talking(c) /\ last = Len(c.rounds)
  OBVIOUS
<1>2. /\ last \in Nat /\ WellScheduled(c)
      /\ c.outputs # <<>> /\ c.outputs \in Seq(Wires(c))
  <2>1. IsCircuit(c)
    BY <1>1, LaunchFacts
  <2>2. last \in Nat
    BY <1>1, <2>1 DEF IsCircuit
  <2>3. c.outputs \in Seq(Wires(c))
    BY <1>1, LaunchFacts
  <2> QED BY <2>1, <2>2, <2>3 DEF IsCircuit
<1>3. /\ \A x \in Places(c) :
           depth[At(c, x)] = IF IsInteractive(c.gates[At(c, x)]) THEN x[1] ELSE x[1] - 1
      /\ \A r \in 1 .. last - 1 :
           \E k \in 1 .. Len(c.rounds[r]) : IsInteractive(c.gates[c.rounds[r][k]])
  <2>1. TightlyScheduled(c)
    BY <1>1, ProtocolAssumption DEF IsLaunch, Circ
  <2> QED BY <1>1, <2>1 DEF TightlyScheduled
<1>4. talk \subseteq 1 .. last /\ \A r \in 1 .. last - 1 : r \in talk
  <2>1. talk \subseteq 1 .. last
    BY <1>1 DEF Talking
  <2>2. ASSUME NEW r \in 1 .. last - 1 PROVE r \in talk
    <3>1. r \in 1 .. last
      BY <1>2
    <3> QED BY <1>1, <1>3, <3>1 DEF Talking, Interactive
  <2> QED BY <2>1, <2>2
<1>5. \A x \in Places(c) :
        /\ x[1] \in 1 .. last
        /\ At(c, x) \in Wires(c)
        /\ IsInteractive(c.gates[At(c, x)]) => x[1] \in talk
  BY <1>1, <1>2, PlaceFacts DEF Gate
<1>6. last >= 1 /\ \E x \in Places(c) : TRUE
  <2>1. c.outputs[1] \in Wires(c)
    BY <1>2, Elements
  <2>2. PICK x \in Places(c) : At(c, x) = c.outputs[1]
    BY <1>2, <2>1 DEF WellScheduled
  <2> QED BY <1>2, <1>5, <2>2
<1>12. c.rounds \in Seq(Seq(Wires(c))) /\ Len(c.gates) \in Nat
  <2>1. IsCircuit(c)
    BY <1>1, LaunchFacts
  <2> QED BY <2>1 DEF IsCircuit
<1>7. \A m \in Nat : Cardinality(1 .. m) = m
  <2> TAKE m \in Nat
  <2>1. 1 \in Int /\ m \in Int /\ (1 > m => m = 0)
    OBVIOUS
  <2>2. Cardinality(1 .. m) = IF 1 > m THEN 0 ELSE m - 1 + 1
    BY <2>1, FS_Interval
  <2> QED BY <2>1, <2>2
<1>8. PICK n : n = MessageOf(c, last) - 1
  OBVIOUS
<1>9. n = Cardinality(talk) /\ n \in Nat
  <2>1. Count(talk, last) = Cardinality(talk)
    BY <1>2, <1>4, CountAll
  <2>2. Count(talk, last) \in Nat
    BY <1>2, Counting
  <2> QED BY <1>1, <1>8, <2>1, <2>2 DEF MessageOf
<1>13. \A r \in talk : \E w \in Wires(c) : depth[w] = r
  <2> TAKE r \in talk
  <2>1. PICK i \in Interactive(c, r) : TRUE
    BY <1>1 DEF Talking
  <2>2. PICK x : x = <<r, i>>
    OBVIOUS
  <2>3. r \in 1 .. last /\ i \in 1 .. Len(c.rounds[r]) /\ x[1] = r /\ x[2] = i
    BY <1>4, <2>1, <2>2 DEF Interactive
  <2>4. Len(c.rounds[r]) <= Len(c.gates) /\ Len(c.rounds[r]) \in Nat /\ Len(c.gates) \in Nat
    BY <1>1, <1>2, <1>12, <2>3, Elements DEF WellScheduled
  <2>5. i \in Wires(c) /\ i <= Len(c.rounds[r])
    BY <2>3, <2>4 DEF Wires
  <2>6. x \in (1 .. last) \X Wires(c)
    BY <2>2, <2>3, <2>5
  <2>7. x \in Places(c)
    BY <1>1, <2>3, <2>5, <2>6 DEF Places
  <2>8. At(c, x) = c.rounds[r][i] /\ IsInteractive(c.gates[At(c, x)])
    BY <2>1, <2>3 DEF At, Interactive
  <2>9. depth[At(c, x)] = r
    BY <1>3, <2>3, <2>7, <2>8
  <2> QED BY <1>5, <2>7, <2>9
<1>10. CASE last \in talk
  <2>1. talk = 1 .. last
    <3>1. \A r \in 1 .. last : r = last \/ r \in 1 .. last - 1
      BY <1>2
    <3> QED BY <1>4, <1>10, <3>1
  <2>2. n = last
    BY <1>2, <1>7, <1>9, <2>1
  <2>3. \E w \in Wires(c) : depth[w] = n
    <3>1. last \in talk
      BY <1>10
    <3> QED BY <1>13, <2>2, <3>1
  <2>4. \A w \in Wires(c) : depth[w] <= n
    <3> TAKE w \in Wires(c)
    <3>1. PICK x \in Places(c) : At(c, x) = w
      BY <1>2 DEF WellScheduled
    <3>2. x[1] \in 1 .. last /\ (depth[w] = x[1] \/ depth[w] = x[1] - 1)
      BY <1>3, <1>5, <3>1
    <3> QED BY <1>2, <2>2, <3>2
  <2> QED BY <1>1, <1>8, <2>3, <2>4
<1>11. CASE last \notin talk
  <2>1. talk = 1 .. last - 1 /\ last - 1 \in Nat
    <3>1. \A r \in 1 .. last : r = last \/ r \in 1 .. last - 1
      BY <1>2
    <3>2. talk \subseteq 1 .. last - 1
      BY <1>4, <1>11, <3>1
    <3>3. 1 .. last - 1 \subseteq talk
      BY <1>4
    <3>4. talk = 1 .. last - 1
      BY <3>2, <3>3, Zenon
    <3> QED BY <1>2, <1>6, <3>4
  <2>2. n = last - 1
    BY <1>7, <1>9, <2>1
  <2>3. \E w \in Wires(c) : depth[w] = n
    <3>1. CASE last - 1 = 0
      <4>1. PICK x \in Places(c) : x[1] \in 1 .. last /\ At(c, x) \in Wires(c)
        BY <1>5, <1>6
      <4>2. x[1] = 1 /\ x[1] \notin talk
        BY <1>2, <1>11, <3>1, <4>1
      <4>3. depth[At(c, x)] = x[1] - 1
        BY <1>3, <1>5, <4>2
      <4> QED BY <2>2, <3>1, <4>1, <4>2, <4>3
    <3>2. CASE last - 1 # 0
      <4>1. last - 1 \in talk
        BY <1>2, <2>1, <3>2
      <4> QED BY <1>13, <2>2, <4>1
    <3> QED BY <3>1, <3>2
  <2>4. \A w \in Wires(c) : depth[w] <= n
    <3> TAKE w \in Wires(c)
    <3>1. PICK x \in Places(c) : At(c, x) = w
      BY <1>2 DEF WellScheduled
    <3>2. CASE IsInteractive(c.gates[w])
      <4>1. depth[w] = x[1] /\ x[1] \in 1 .. last - 1
        BY <1>3, <1>5, <2>1, <3>1, <3>2
      <4> QED BY <1>2, <2>2, <4>1
    <3>3. CASE ~IsInteractive(c.gates[w])
      <4>1. depth[w] = x[1] - 1 /\ x[1] \in 1 .. last
        BY <1>3, <1>5, <3>1, <3>3
      <4> QED BY <1>2, <2>2, <4>1
    <3> QED BY <3>2, <3>3
  <2> QED BY <1>1, <1>8, <2>3, <2>4
<1> QED BY <1>10, <1>11

LEMMA InvRunCost ==
  ProtocolInv /\ ExchangeInv /\ ShareInv /\ AnswerInv /\ CostInv => RunCost
<1> SUFFICES ASSUME ProtocolInv, ExchangeInv, ShareInv, AnswerInv, CostInv,
                    NEW p \in Party, pc[p] = "done", SameCircuit
             PROVE  LET c     == Circ(p)
                        depth == Depth(c.gates)
                        words == 2 * c.triples + Len(c.outputs)
                    IN  /\ \E w \in Wires(c) : depth[w] = transcript[p].rounds - 2
                        /\ \A w \in Wires(c) : depth[w] <= transcript[p].rounds - 2
                        /\ transcript[p].sent = words + Len(InputsOf(c, p))
                        /\ transcript[p].received = words + Len(InputsOf(c, Peer(p)))
  BY DEF RunCost
<1>1. PICK c, z, t, o, i, j : /\ c = Circ(p) /\ z = MessageOf(c, Len(c.rounds))
                              /\ t = c.triples /\ o = Len(c.outputs)
                              /\ i = Len(InputsOf(c, p)) /\ j = Len(InputsOf(c, Peer(p)))
  OBVIOUS
<1>2. /\ launch \in Launches /\ Where(p) /\ Spoken(p) /\ Costed(p)
      /\ Peer(p) \in Party /\ Len(sent[p]) = Last(p) /\ Len(got[p]) = Last(p)
  BY DoneFacts, Peers DEF ProtocolInv, ShareInv, CostInv
<1>3. Last(p) = z + 1 /\ z \in Nat /\ t \in Nat /\ o \in Nat /\ i \in Nat /\ j \in Nat
  <2>1. Len(c.rounds) \in Nat /\ t \in Nat /\ o \in Nat
    <3>1. IsCircuit(c)
      BY <1>1, <1>2, LaunchFacts
    <3> QED BY <1>1, <3>1 DEF IsCircuit
  <2>2. i \in Nat /\ j \in Nat
    BY <1>1, <1>2, InputFacts, Elements
  <2>3. z \in Nat
    BY <1>1, <2>1, Messages
  <2> QED BY <1>1, <2>1, <2>2, <2>3 DEF Last
<1>4. \A x \in Places(c) : x[2] \in Interactive(c, x[1]) => Gate(p, At(c, x)).kind = "mul"
  <2> TAKE x \in Places(c)
  <2> HAVE x[2] \in Interactive(c, x[1])
  <2>1. x[1] \in Talking(c)
    BY <1>1, <1>2, PlaceFacts
  <2>2. MessageOf(c, x[1]) \in Nat /\ MessageOf(c, x[1]) < Last(p) /\ Last(p) \in Nat
    BY <1>1, <1>2, <2>1, LastFacts, Messages
  <2>3. MessageOf(c, x[1]) <= Len(sent[p])
    BY <1>2, <2>2
  <2> QED BY <1>1, <1>2, <2>3 DEF Spoken, SpokenRounds, Opens
<1>5. Cardinality(Paid(c, Last(p))) = t
  BY <1>1, <1>2, <1>4, PaidTriples
<1>6. Words(c, i, Last(p)) = i + 2 * t + o /\ Words(c, j, Last(p)) = j + 2 * t + o
  BY <1>1, <1>3, <1>5 DEF Words
<1>7. /\ transcript[p].rounds = z + 1
      /\ transcript[p].sent = 2 * t + o + i
      /\ transcript[p].received = 2 * t + o + j
  <2>1. /\ transcript[p].rounds = Last(p) /\ transcript[p].sent = Words(c, i, Last(p))
        /\ transcript[p].received = Words(c, j, Last(p))
    BY <1>1, <1>2 DEF Costed
  <2> QED BY <1>3, <1>6, <2>1
<1>8. /\ \E w \in Wires(c) : Depth(c.gates)[w] = z - 1
      /\ \A w \in Wires(c) : Depth(c.gates)[w] <= z - 1
  BY <1>1, <1>2, RoundsAreDepth
<1>9. z - 1 = transcript[p].rounds - 2
  BY <1>3, <1>7
<1> QED BY <1>1, <1>7, <1>8, <1>9

(* With one netlist, a run that succeeds has cost one message for the      *)
(* inputs, one for the outputs and one for every layer of multiplications, *)
(* however many multiplications there are, and two words for each of them  *)
(* (protocol.rs:9-12; Transcript, net.rs:91-93).                           *)
THEOREM CostIsDepth == Spec => []RunCost
<1>1. ProtocolInv /\ ShareInv /\ FailInv /\ CostInv /\ [Next]_vars => CostInv'
  BY StepCostInv
<1> QED BY <1>1, FailInvariant, InitCostInv, InvRunCost, PTL DEF Spec
=============================================================================
