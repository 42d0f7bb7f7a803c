# A verification of Secure-Satellite-Collision-Avoidance

Two satellite operators evaluate a fixed-point arithmetic circuit on inputs
neither shows to the other. A dealer prepares correlated randomness; two party
processes then compute on additive shares over one TCP connection. The crate
`src/` holds this program; the crate `libfss/` is a library of function secret
sharing for the gates that the protocol does not implement yet.

The modules here model both: the online phase as two interleaved processes over
a link, the link down to its threads and buffers, the netlist reader, settings,
the offline phase and start-up, the numbers, and of libfss the key stream, the
key trees and the two-party gadgets (interval gate, Beaver tuples, Boolean
products, conditional evaluation, convolution matrices). TLC checks each on small
instances; TLAPS proves much of it for all values of the constants.

## 1. Inventory

### The program

| Component | State | Operations | Interacts with | What makes it correct |
|---|---|---|---|---|
| Online protocol, `protocol.rs` (`Party`) | wires, the place in the schedule, shares kept, openings in flight | share inputs, evaluate a round, open it, reveal outputs; every error | the peer through `Channel`; circuit, triples, inputs at start | shares recombine at any moment; outputs right; both parties agree, fail together and end |
| Channel, `net.rs` | a socket, a helper thread per call, cost counters | `connect`, `exchange` | the peer's channel through the kernels' buffers | rounds answered in order, no misaligned frame, no deadlock |
| Circuit, `circuit/mod.rs` | gates, inputs, outputs, rounds | `schedule`, accessors, `digest` | read by dealer and parties | every gate behind what it reads, no wasted message |
| Netlist reader, `circuit/parser.rs` | the lists it builds, names | one turn per line | yields a circuit or an error | what is accepted is a circuit; names are unique |
| Dealer, `preprocessing.rs` | one file per party | `deal`, `save`, `load`, `check` | the parties, through files only | halves that meet belong together |
| Numbers, `ring.rs` | - | ring operations, `share`, `encode`, `decode` | everything | wrapping at the word and at the ring agree; nothing wraps silently |
| Configuration, `config.rs` | the settings, read once per process | `init`, `load`, `validate` | `.env` and the environment; read by everything | widths the ring can be built with; the same file and another environment do not go unnoticed |
| Inputs, `inputs.rs` | values by wire name | `parse`, `get` | read by a party with input wires | the first fault is the error, the last value counts |
| Cost accounting, command line | counters; - | reporting, dispatch | - | the counters are those of the messages sent |

Hard behaviours: two processes and two more threads that interleave; rounds one
party pays a message for and the other must too; errors that only one party can
see (a literal is encoded at party 0 only); kills at any moment, of the dealer
between its two files too; files and settings read at different times by
processes nothing synchronizes; buffers smaller than a batch; bounded retries.

### libfss

| Component | State | Operations | What makes it correct |
|---|---|---|---|
| `prg.rs` | a buffered stream per thread; seeds | `set_key`, `fill_bytes`, `refill`, `refill8`, `skip_block`, `next_bytes`, `next_bits`; expand, convert | every byte once, none of another key |
| `dpf.rs`, `dcf.rs`, `idpf.rs` | correction words; the walk of an evaluation | `gen`, `eval` | the outputs add up to the function; off the secret path everything cancels |
| `ic.rs` | a comparison key and a correction | `gen`, `eval` for bits and for ring elements | seven comparisons modulo 2^32 add up to containment |
| `ring.rs`, `binary.rs` | - | the group operations | reduction; `negate` of 0 |
| `beavertuple.rs` | a tuple with the differences last opened | `genBeaver`, `beaver_mul0/1`, `mul_open`, `mul_compute` | the shares of each product add up, however a tuple is reused |
| `mbeaver.rs` | material per set of bits, blocks of it | `gen`, `split`, `extendfrom`, `product` | one opening gives shares of the conjunction; other material is refused |
| `qmatrix.rs`, `lib.rs` | a square of bits or ring elements | `f_conv_matrix`, `convertFromQMatrix`, `split`; bit conversions | row and query select one column; a byte is wide enough |
| `condEval.rs` | two ciphers, two pads, an order, a share of the mask | `gen`, `eval`, `eval1` | the pair of keys opened gives the answer if the bits differ and cancels if not |

`PROJECT.json` lists the components with their status, and under `hazards` what
is hard to test, line by line, with the properties that cover it.

## 2. The modules

    Parties                      the two parties and "the peer of p"
      RingArith                  ring arithmetic for any width, shares, products
        FixedRing                the same where one width is in use
      Circuit                    gates, the schedule, what a circuit is
      Exchange                   ABSTRACT: what a link promises
        Channel                  threads, frames, buffers; implements Exchange
      Protocol                   RingArith + Circuit + Exchange: the online phase
      Netlist                    the reader, building a Circuit
      Settings                   `.env`, environment and input files
        Provisioning             dealer, files, start of both parties, connect
      FixedPoint                 encode and decode on top of FixedRing
      KeyTree                    libfss keys: point, comparison, incremental
      Interval                   libfss interval gate on the promise of KeyTree
        CondEval                 libfss conditional evaluation around Interval
      BeaverTuple                libfss tuples on FixedRing
      Binary                     powers of two, digits
        MBeaver                  libfss conjunctions of shared bits
        BitStrings               libfss conversions of bits and numbers
          QMatrix                libfss convolution matrices, + FixedRing
    PrgStream                    the key stream of libfss
    MCProtocol, MCChannel, MCNetlist, MCProvisioning, MCFixedPoint, MCKeyTree,
    MCGadgets                    instances (MCGadgets: the five gadgets and the key
                                 stream side by side)
    RingTheorems                 theorems about RingArith
      ProtocolProofs             Exchange and Protocol
      FixedPointProofs
      LibfssProofs               PrgStream and the five gadgets (MCGadgets)
    ChannelProofs, NetlistProofs, ProvisioningProofs, KeyTreeProofs
                                 each about the module it is named after

**RingArith, FixedRing.** Operations wrap at the word and are masked to the ring.
The width is a setting of each process, so the operations take the modulus, and
Protocol passes each party's own; what is about one process, or a ring that is
fixed as that of libfss is, uses FixedRing.

**Protocol.** A behaviour starts with a *launch*: what each process has loaded
when the link comes up (netlist, inputs, half of a dealer run). The two may
differ in everything, and the assumption `ProtocolAssumption` says only what
loading has checked. So each party has a format of its own (`Format`: the modulus
that stands for N_BIT and the scale for L_BIT), the one its half of the dealer's
material was made for: it masks every word in its own ring, and what a literal or
an input encodes as, or whether it does, is a matter of its format (`Encoded`).
Nothing on the link carries the format. Each action is one step of one party between two moments
at which the other party can act: `ShareInputs` runs `share_inputs` up to the
exchange, `ReceiveInputs` what follows its return; `EvaluateGate` is one turn of
the loop of `evaluate_round`; `OpenRound` and `CloseRound` are
`evaluate_interactive` before and after its exchange; `RevealOutputs` and
`ReceiveOutputs` the same of `reveal_outputs`. `Refuse...` are the error
returns, in the order in which the code meets them (`First` finds the first
fault of a batch), `PeerLost` an exchange that fails, `Exit` the end of the
process, `Kill` a kill at any step. A wire carries nothing, a share, or a
public literal, as `Option<Value>` does. The clear value of each wire
(`launch.clear`) is known to nobody; properties compare against it.

**Exchange and Channel.** `Exchange` is the contract: a call sends one message
and returns the peer's of the same round, or fails because the peer is gone.
`Channel` has the two threads of a call, the header, cells on the wire and
bounded buffers, the end of a stream, and resets when a socket is closed with
unread data. A killed peer may take along what was under way. `Implements` is
the refinement: `between` maps to `idle`; everything from the spawn of the helper
to its join is one call that is under way.

**Netlist.** `LineFault` is the chain of tests of one line in their order;
`SkipLine`, `RefuseLine` and `AddGate` are the three things a line can do, and
`ScheduleGate` a turn of the loop of `schedule`. `Circuit` says what a schedule
should be without that loop: `Depth` is the length of the longest chain of
interactive gates behind a gate, and `TightlyScheduled` puts a gate into the round
of its depth. `ScheduleIsTight` compares the two; the protocol starts from
circuits for which it holds.

**Settings.** A file is a sequence of lines that are blank, broken or an entry;
which texts are numbers is a constant. `ConfigFault` is `Config::load`: a broken
line first, then the settings in the order they are looked up, each from the
environment and then from the file, then `validate`. `InputFault` and
`InputValues` are `Inputs::parse`. The sum in `validate` stops the process when it
overflows in a build that checks (`Checked`), and wraps around in one that does not.

**Provisioning.** Processes that meet in files. Each reads `.env` once (`Deal`,
`Start`), under an environment of its own, then the netlist at the path that
says (`DealerReads`, `LoadCircuit`); `Edit` may change either file in between.
`OpenFile` and `FillFile` are the two steps of `fs::write`. `LoadMaterial` and
`LoadInputs` follow `Party::new`; `Bind`, `Accept`, `Dial`, `Retry` follow
`Channel::connect`. A digest stands for the netlist it was computed from: two
different netlists with one digest are out of the model.

**FixedPoint.** Real inputs are multiples of 1/Fraction of the resolution, so
that a real between two grid points exists on either side of the middle.

**KeyTree.** Three kinds of key in one module because they are one tree with
different words. `DealLevel` is a turn of `gen` with `gen_cor_word`,
`EvalLevel` a turn of `eval` of one party. Seeds are sets of bits and the
generator is an arbitrary function. The control bits of an expansion are always
TRUE (`Tau`): `expand_dir` masks the first key byte with 0xFC before it reads the
two bits off that byte. A build with overflow checks (`Checked`) stops at
`RingElm::negate` of 0.

**Interval.** One module for `ICKey` and `ICCKey`, which differ in the group. The
comparison inside is used by its promise, which `OutputsRecombine` checks.

`Contains` says what the answer should be, the interval that goes around included.

**CondEval.** The dealer's bits, both keys of `Interval` and the four ciphers,
each under a pad of the peer. The letters that carry pointer and pad are the
caller's; `SendLetter` follows the test of the file. A party may take the pointer
from the peer's letter (`eval1`) or its own (what the test passes to `eval`); a
cipher opened with a pad that is not its own gives any answer.

**BeaverTuple.** Two parties use one tuple for several products, and each picks
per product one of the two ways to open and close. The tuple remembers the
differences (`delta_a`, `delta_b`); `CloseStored` adds the peer's half to what is
remembered, `CloseSummed` replaces it.

**Binary.** `1 << n` is the recursive function `Pow2` and not `2^n`, of which the
prover knows nothing; `Digit` is the bit a shift and a mask read.

**MBeaver.** A location is a number whose binary digits name a set of bits, as in
the code; the complement of a location is a difference from 2^n - 1. `bits` and
`entry` are the caller's choice, and may not agree.

**QMatrix.** `ColumnOf` follows the loop of `f_conv_matrix` through the byte of
`bits_to_u8_BE`; what `RowsSelect` asks of the matrix is said without it. Bytes
have two bits in the run, so that a query of three meets the end of the byte.

**PrgStream.** `NextBytes` is `next_bytes`, and `next_bits` with another word: they
draw whole words, one more than fit into the length, and cut the answer from
them. A byte is known by its key and place, so that a byte of the wrong
key or place shows.

A key is also the first value of the counter, so keys that differ by little have
streams that overlap; the model, like the code, takes them for unrelated.

Definitions that are marked *Slip* stand next to the one they alter. No module
uses them; each is a plausible error in the code, and the property it is paired
with in `PROJECT.json` fails when it takes the place of the original.

## 3. The runs

| Run | Configuration | Distinct states | Shows |
|---|---|---|---|
| protocol_answers | MCProtocol | 210,811 | `SharesRecombine` at every moment, `OutputsCorrect`, `RunCost`, `WrittenOnce` for parties that fit together; `OutputsAgree` and the link's `Fifo`, `Lockstep` for parties that loaded different things, too, in formats of their own |
| protocol_faults | MCProtocolFaults | 6,134 | `NoHalfAnswer`, `FailuresHaveACause`, `ReadsFollowWrites`, `UnsupportedStopsBoth`; liveness: `BothEnd`, `BothSucceed` |
| channel | MCChannel | 671,217 | `Aligned`, `Implements` Exchange; liveness: `CallsEnd` |
| netlist | MCNetlist | 308,459 | `AcceptedIsCircuit`, with `NamesAreWires`; `ScheduleIsTight` |
| provisioning | MCProvisioning | 756,274 | `OneDealIsSafe`, `HalvesFit`, `WidthsAreUsable`; liveness: `LinkEnds` |
| fixed_point | MCFixedPoint | 10,082 | `RoundTrip`, `RefusedIfWrapped`, `Homomorphic` |
| key_tree | MCKeyTree | 811,008 | `PathsDiverge`, `SumsFollow`, `OutputsRecombine` |
| gadgets | MCGadgets | 1,012,448 | `ProductsRecombine`, `ConjunctionsRecombine`, `RowsSelect`, `AnswerIsContainment`, `ConditionalAnswer`, `Delivered` |

Four more runs state what a comment or a test says of the program and are
violated by what the code does; section 6 lists them.

### Bounds, and why they are enough

* *protocol_answers*: all circuits of two gates over two inputs, in a format of 2
  bits and one of 3 with a fractional bit, in a 4-bit word, two values per input, a
  dealer draw in each format, two masks; one larger circuit
  with three layers, products of constants and local gates between. Two gates are
  what it takes for a gate to wait for, to share a round with, or to read the
  result of another. That no larger circuit brings anything new for the shares is
  proved (section 5). Besides, all pairs of five netlists, chosen so that batches
  agree in length for some pairs and differ for others, at each of the three kinds
  of round, with halves of one dealer run, of two of one format, and of two that
  differ in the fraction or in the width.
* *protocol_faults*: one launch for each fault and place where it can bite (before
  the first message, in a local gate, in a batch, at the end), for either party,
  and a literal that encodes in one format and not in the other;
  both parties may be killed at every step.
* *channel*: header values modulo 4, a buffer of 2 cells, payloads of 0 to 3
  cells: shorter than, as long as and longer than the buffer with its header. Two
  calls are needed for one party to be a call ahead; there are three.
* *netlist*: nine lines make a file with two inputs, five gates in a chain and two
  outputs; every error needs at most two lines before it.
* *provisioning*: two dealer runs and one edit, the least at which halves of
  different runs and different netlists can meet; the other ways to differ are
  between the environments of the processes. Four `.env` files: two formats, the
  second by a setting given twice; widths whose sum is N_BIT only if it wraps (a
  `usize` has 256 values here); a broken line. The build checks for overflow in the
  passing run and does not in `provisioning_release`. A netlist may be missing at a path.
* *fixed_point*: ring of 16 in a word of 64, all inputs from below the lowest to
  above the highest bound, four per resolution step.
* *key_tree*: depth 3 has a level above and one below the place a path is left;
  three generators with collisions and fixed points, all pairs of root seeds.
* *gadgets*: a ring of 8 has every combination of wraps of the masked bounds, and
  is run with every mask, pair of bounds and masked value, in groups of order 2
  and 8. Two products per tuple make a party a product ahead and a tuple stale.
  Up to three bits conjoined: three have a set that is neither an atom nor
  everything; two and three of them have material that does not fit. Matrices of
  one to three bits, the last beyond the byte. A behaviour is that of one gadget;
  they share no state.
  For the key stream: blocks of two words of 2 bytes, 4 blocks in a wide refill, pieces
  that end inside, at and behind a boundary, both refills, answers of a length
  that is a multiple of a word and of one that is not, up to four calls under each
  of two keys.

Symmetry is not used: the parties have different roles, and the wires, values
and keys are ordered.

Deadlock is checked in all runs except `channel_long`, whose point is that the
calls get stuck; where a system has come to its end, an action says so (`Over`,
`Rest`, `Returned`, `Done`), so any other state without a successor is an error.
`Rest` of Provisioning includes a party 0 that waits for a peer that gave up.

## 4. Fairness

`Protocol!FairSpec` has weak fairness of each party's `Run`, not of `Kill`: a
process that is not blocked is scheduled, and what the peer wrote, or the end of
its stream, is delivered. TCP and the scheduler give that between machines that
are up. A machine that vanishes without closing its connection is not covered:
reads have no timeout (`net.rs:80`), and the party would wait.

`Channel!FairSpec` is fair to the caller and to both threads of a call, and to
neither kill. `Provisioning!FairSpec` is fair to a process that has been started;
nobody has to start one. Party 0 may wait in `accept` for ever, and `LinkEnds` says
for whom: a party 1 that was never started or has failed, never one that dialled.

## 5. What is proved

All proofs are checked by TLAPS for every value of the constants, from the
assumptions named in the modules (`RingAssumption` and the like).

* **RingTheorems.** `HalvesRecombine`: the two halves of `Ring::share` add up.
  `ProductRecombines`: whatever the dealer draws in a ring of whatever width, Beaver's formula with both
  halves of one triple and the opened differences gives shares of the product.
  The argument works with congruence (`Same`): `Wrap` shows that reducing at the
  word first changes nothing because the modulus divides the word size, the ring
  operations respect congruence, and two ring elements that are congruent are
  equal. The identity itself is one line of integer arithmetic (`BeaverIdentity`).
* **ProtocolProofs**, five parts from the link up to the cost of a run.

  *The link.* `ExchangeInvariant`: `ExchangeInv`, which is the types,
  `Answered` and `Fifo`, is inductive. `Fifo` alone is not: that a return takes the
  next message in order needs `Answered`, which ties the number of messages to
  whether a call is under way. `ExchangeLockstep` follows: a party that is a round
  ahead waits for the answer of the round it is in.

  *Types and use of the link.* `ProtocolTypeOK`, by the invariant `ProtocolInv`.
  Types alone are not inductive: a party that returns from an exchange indexes the
  answer and its own batch by gate, so the invariant has the parts `Shaped` (every
  variable has a value for each party), `Mine` (the types of one party's values)
  and `Matching` (as many shares kept as inputs owned; the batch sent has two words
  for each queued gate, all of them products, or one per output). One lemma for
  each kind of step; `NextStepped` puts them together.
  `ProtocolUsesExchange`: every step of the protocol is a step of `Exchange` or
  leaves its variables alone, so `ProtocolFifo` and `ProtocolLockstep` follow from
  the theorems about the link.

  *Answers.* `AnswersAgree`: two parties of one format that both report
  outputs report the same ones, whatever else each of them loaded. (Of two formats
  each reads the same words in its own, and both may succeed with different
  numbers; TLC finds that when the hypothesis is left out.) The invariant `Concluded` says that
  a party that is done has had an answer to its last message, of the same length,
  and reported the word-by-word sum of the two. Only `ReceiveOutputs` establishes
  it and no later step touches what it speaks of. With `Fifo` both parties have then
  sent equally many messages and each has added the last message of the other to
  its own, in one ring, and addition in it commutes.

  `SharesAlwaysRecombine`, `AnswersAreRight`, `ValuesAreWrittenOnce`: for every
  circuit, number of wires, format, mask and dealer draw, in every interleaving and
  whoever fails. `SharesRecombine` compares the wires of two parties that may be a
  round apart, and is not inductive: a product of one party is right only if the
  other has opened the same gate in the same words of the same message. The
  invariant `ShareInv` does not compare the parties at all. It says of each alone
  where it is (`Where`: evaluated is what lies before its place, the queue lists the
  interactive gates of the round so far), what it has sent (`Spoken`: halves of its
  inputs first, then differences of the shares it still holds, at the end its shares
  of the outputs) and what each wire was computed from (`Written`, with `Derived`).
  The number of a message (`MessageOf`) and of a word in it (`WordOf`) are counted
  from the circuit, so that two parties with one circuit mean the same gate by the
  same word. Nothing that was sent or assigned is taken back (`Grows`, `Lasting`),
  which is `WrittenOnce` and is why the peer's step disturbs nothing. One lemma per
  kind of step (`ShareKept`, `InputsKept`, `EvalKept`, `PassKept`, `SkipKept`,
  `OpenKept`, `CloseKept`, `RevealKept`, `OutputsKept`, `StopKept`).
  `InvSharesRecombine` then goes through the wires: the first wire that did not
  recombine would have been computed from wires that do, by `HalvesRecombine`,
  `ProductRecombines` or `SumsRecombine`.

  *Failures.* `NobodyAnswersAlone`, `EveryFailureHasACause`, `ReadsComeAfterWrites`,
  `NobodyOpensUnsupported`, by `FailInv` on top of `ShareInv`. A party that fails
  tells its peer nothing, so what the peer may conclude has to be read off the number
  of messages each has sent: `Sized` gives the length of every message from the
  circuit, `Caught` says that a party past a place has passed the test made there,
  `Blamed` that a fault of its own has its reason in its circuit and comes before the
  last message, and `Followed` that, with one circuit, a failure of the link has a
  peer that was killed or failed of its own, and no length is ever wrong. That a party reports outputs
  alone is excluded because its last message was answered by the peer's last.

  *Cost.* `CostIsDepth`, by `CostInv`: the counters of a party equal the messages and
  words that the circuit prescribes up to its place (`Costed`); at the end the
  number of rounds with a message is the number of layers of products, by
  `TightlyScheduled`.
* **ChannelProofs.** `ChannelIsTyped`, `StreamStaysAligned` and `ChannelIsExchange`:
  threads, frames and buffers implement `Exchange`. The invariant `ChannelInv` adds
  `Counted` (how many messages were handed to the helper, written and read, and how
  far these can be apart), `Threads` (which states of caller and helper occur
  together, and what is left behind by a killed or a reset one), `Settled` (what the
  end of the stream implies) and `Flows`. `Flows` is the heart: whatever has been
  read of the current frame, followed by what is in the buffer of the kernel and by
  what the writer still holds, is exactly the frames that are not read yet, up to
  what a kill or reset has lost. Then a header is read where a header was
  written. The last two theorems have the hypothesis `PayloadsFit`, that the length
  of every payload fits into the header; without it they are false, as the run
  `channel_long` shows. `ChannelIsExchange` goes by steps: one that ends a call is
  the return or the failure of the call, one that starts it is the send, every other
  one a stutter.
* **NetlistProofs.** `ReaderKeepsType`, `AcceptedIsAlwaysCircuit`,
  `ScheduleIsAlwaysTight`, for files of any length. `ReadInv` speaks of the lists while
  they are built: every gate fits what stands before it (`GatesFit`), the triples
  are handed to the products in order (`TriplesServe`), names are unique and name
  wires that exist (`NamesFit`), inputs and outputs are the gates of their kind
  (`ListsFit`). `ScheduleInv` speaks of the loop of `schedule`: each gate that was
  placed is listed in its round and nothing else is (`Listed`), within a round in
  the order of the netlist (`Rising`); it is behind all it waits for, and right behind
  some of it (`Ordered`); and every round but the last has a message (`Paid`).
  Two recursive functions, the filtering of a list and the depth of a gate, are
  reasoned about without induction theorems: one shows that a function that
  satisfies the recursion exists, by the least number at which it would not
  (`FilterKeeps`, `DepthIs`), and then that the defined one does.
* **ProvisioningProofs.** `HalvesAlwaysFit`, `OneDealIsAlwaysSafe`: the invariant
  `ProvisioningInv` follows a bundle from the dealer's memory to the file to the
  party that loaded it. Every whole bundle is one of a run that has been
  (`HeldFits`), two bundles of one run were made from the same settings and netlist
  (`RunsAgree`), and while a run is in progress what it has written is of what it
  still works from (`RunInProgress`); a party past its check works with what the
  check compared (`Checked`). `WidthsAreAlwaysUsable` (`SetupsInv`) follows the
  settings from `validate` to their use: the sum is the width or, in a build that
  does not check, the width and the range of a `usize`, in which case the fraction is
  wider than the word. `WidthsAlwaysAddUp` has the hypothesis `Checked`; without it
  it is false, as `provisioning_release` shows. `ProvisioningTypeOK` adds the bounds.
* **FixedPointProofs.** `AlwaysRoundTrip`, `AlwaysRefusedIfWrapped`,
  `AlwaysHomomorphic`: a ring element that is congruent to a number in range reads
  back as that number (`ReadsBack`), from which all three follow.
* **KeyTreeProofs.** `KeysAreTyped`, `PathsAlwaysDiverge`, `SumsAlwaysFollow`,
  `KeysRecombine`, for every generator, depth, modulus and pair of root seeds. `KeyInv`
  records how a key came about: each level of the dealer's walk (`DealInv`) and of an
  evaluation (`RunInv`) is related to the one above it by the step of the code,
  `Dealt` and `Went`. The theorems then follow by going down the levels to the
  least at which they would fail. `Fork` is the step: two nodes that are equal
  stay equal under a correction word; two that the word was made for become equal
  on the side that is lost, and keep different control bits on the side that is
  kept. For the sums, `KeptLevel`, `LostLevel` and `LeafLevel` say what a level adds
  to the outputs of both parties on the path, where it is left and at the end. Arithmetic modulo `Modulus` is done by
  `Multiples`: two numbers are congruent if they differ by one of these.
* **LibfssProofs**, seven parts.

  *Tuples.* `ProductsAlwaysRecombine` and `TupleKeepsType`, by `TupleInv`: the halves
  are of one tuple (`HalvesBelong`), a party has at most one product open
  (`OneAtATime`), what it sent are the differences of what it was given
  (`OpenedRight`), what the tuple remembers while a product is open is what was sent
  for it (`StoredRight`), and a closed share is the formula for the summed
  differences (`ClosedRight`). Without `StoredRight` a close that adds to the stored
  differences proves nothing. `SharesMultiply` is the identity under it, for either
  server.

  *Interval.* `AnswerIsAlwaysContainment` and `IntervalKeepsType`: `SevenComparisons`
  says over plain integers that the comparisons, with every wrap spelled out, add up
  to containment; it is linear and left to the solver whole. `IntervalInv` says which
  of them are in the keys and the answers, and `AnswersAddUp` that the two answers
  differ from that sum by a multiple of the order.

  *Conditional evaluation.* `ConditionalAlwaysAnswers` and `ConditionalKeepsType`, on
  top of the interval gate. `CondInv` says that the gate is asked about the lower
  half of the ring (`LowerHalf`), that the mask of the gate is shared between the
  parties and the question is the value under that mask (`MaskShared`,
  `AskedMasked`), that a letter carries the sender's pointer and pad
  (`LettersRight`), and that a result is what the cipher opened by pointer and pad
  contains (`ResultsRight`).

  *Key stream.* `StreamAlwaysDelivered`: whatever was asked for in whatever pieces,
  the bytes delivered are those due, of the key that was set last. `Reached` says how
  far the buffer reaches into the stream and which place the next byte has;
  `StreamInv` says that there is such a place and that answers in progress continue
  from it (`Answering`). The place is a witness each step has to move: a refill
  of either width keeps it, drawing advances it, a new key sets it back to 0.

  *Conjunctions.* `ConjunctionsAlwaysRecombine` and `BlockKeepsType`, by `BlockInv`:
  the halves add up to the products of some bits (`MaterialDealt`), what a party opens
  are its shares under its own masks (`MaskedRight`), and its result is `product` of
  what both opened (`SharesRight`). Two things have to be known of the algorithm. The
  extension of the opened bits at a location is the conjunction of the bits it names
  (`ExtendedIs`). And the pairs of a location with all opened bits set and its
  complement with all masks set, `Terms`, are odd in number exactly if every opened
  bit differs from its mask (`TermsParity`): with a bit more (`TermsStep`) the terms
  are those of before where the mask of the new bit is set, and those of before
  shifted where the opened bit is. Each party counts with its half of the masks, and
  together they count the symmetric difference (`OddDifference`).

  *Matrices.* `RowsAlwaysSelect` and `MatrixKeepsType`. Numbers are told apart by their
  digits (`DigitsTell`); counting from the last row or column inverts every digit
  (`DigitsTurn`); a byte has the digits of the string it was read from
  (`ToByteReads`). So the column marked in a row has the digits of the row flipped by
  the query (`ColumnSelected`). `MatrixRight` carries that from the square through
  conversion and both splits, with `HalvesRecombine` for the ring. `RowsAlwaysSelect` has
  the hypothesis `BytesFit`: shifts are checked or no string is longer than a byte.
  Without it two bits of a query may fall on one place and the theorem is false.

  *Side by side.* `GadgetsKeepType`: the types of the composition that the run checks,
  from the invariants of the five.

Together the theorems span the layers: threads and buffers implement `Exchange`
(`ChannelIsExchange`), the protocol uses `Exchange` as it may be used
(`ProtocolUsesExchange`), what the reader accepts is a circuit with the schedule the
protocol assumes (`AcceptedIsAlwaysCircuit`, `ScheduleIsAlwaysTight`), and the
outputs are right (`AnswersAreRight`) at a cost of one round per layer
(`CostIsDepth`).

## 6. Where the code and what is said of it differ

* `net.rs:74` cuts the length of a payload to 32 bits; the module comment promises
  that a round never deadlocks *no matter how large the batch* (`channel_long`).
* `ring.rs:148-149` gives the exact range of `encode`; rounding before the test
  moves both bounds by half a step, so that a little below the lower one is accepted
  and a little below the upper one refused (`fixed_point_range`). The test itself is right
  about wrapping: `RefusedIfWrapped` holds.
* `libfss/src/ring.rs:125` overflows for 0 where a build checks arithmetic, so that
  dealing or evaluating a key panics for about one word in 2^32
  (`key_tree_checked`).
* `config.rs:107` adds two widths that nothing bounds. Where overflow is not checked,
  which is cargo's default for a release build, N_BIT=64, I_BIT=65, L_BIT=2^64-1
  passes the test that *I_BIT + L_BIT must equal N_BIT* (line 109), and the shifts by
  `l_bit` are taken modulo 128 (`provisioning_release`).

Some smaller ones have no run. `parser.rs:7` says an unmarked input belongs to
party 0, lines 18-20 of the same comment that such inputs alternate, and the reader
alternates, marked inputs counted. `libfss/src/prg.rs:248` asserts that a refill
finds the end of one block, which after `refill8` is not so (`PrgStream` stops there
with `failed = "refill"`); it takes a request for more than 64 bytes through the
public interface, and nothing in the crate asks for more than 16.
`IDPFKey::gen_from_str` (`libfss/src/idpf.rs:170`) passes one value less than there
are bits, against the assertion in `gen`. The test of `condEval.rs` passes each
party its own pointer; that opens the cipher the peer's pad is for only when orders
and bits agree, and otherwise the key is not decrypted: `ConditionalAnswer` is
about letters that are used whole, and about the test's use where it is right.
`OutputsRecombine` says nothing of a point or comparison key evaluated at a short
index that ends on the path: the word of the leaf is then applied to nodes of another
level (`dpf.rs:125`), and the code does not say what that should give. `bits_to_u8_BE`
drops bits of a string longer than a byte where overflow is not checked; `RowsSelect`
is run in a build that checks.

Two parties may link with halves of two dealer runs made for different formats:
`Preprocessing::check` compares a half with the party's own settings, and a word is 8
bytes in every format. Both may then succeed and report different numbers.

## 7. What is only model-checked, and what is not modelled

Every invariant and both action properties the passing runs check are proved, some
under a hypothesis that is named in the theorem (`PayloadsFit`, `BytesFit`, `Checked`). Only
model-checked is liveness (`BothEnd`, `BothSucceed`, `CallsEnd`, `LinkEnds`): the
prover does not reach fairness.

Induction over data is done in the proofs by the least counterexample (a set of
numbers that is not empty has a least one), since the theorems of the library that
take an operator cannot be used.

Not modelled:

* collisions of the digest, the precision of f64, the bytes of messages and files
  beyond whole and torn, AES: a model of each would be of a library;
* how a line is split at spaces, quotes and comments, argument parsing, the `info`
  command, printing, clocks and memory figures: no state depends on them;
* the string wrappers of libfss (`string_to_bits`, `bits_to_string`,
  `gen_from_str`), and the conversions of bits other than those the matrices use;
* a connection that is lost without an end of stream, and failing socket options;
* that shares are uniformly distributed and hide the values: a statement about
  probabilities, not about behaviours.

The two crates meet nowhere: no file of `src/` uses libfss, and the gates that
would are refused by the protocol (`UnsupportedStopsBoth`). So the gadgets are not
composed with Protocol.

## 8. Plan

Models: all components with state of their own are done; the parts that remain are
those of section 7.

Proofs: the safety properties are done. What is left is liveness, whose
arguments would each take a variant (messages and words still to be moved,
attempts still to be made) and a prover that knows fairness.
