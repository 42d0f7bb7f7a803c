------------------------------ MODULE KeyTree ------------------------------
(***************************************************************************)
(* The keys of libfss: point functions (dpf.rs), comparisons with a        *)
(* secret bound (dcf.rs) and point functions on every prefix (idpf.rs).    *)
(* All three walk a binary tree of seeds.  The dealer walks down the       *)
(* secret path once, for both parties, and publishes a correction word per *)
(* level; each party then walks down a path of its own choice, corrected.  *)
(*                                                                         *)
(* A seed is a set of bits, so that xor is symmetric difference.  The      *)
(* pseudo-random generator is any function on seeds: nothing here depends  *)
(* on what it is, only on both parties and the dealer using the same one.  *)
(***************************************************************************)
EXTENDS Parties, Sequences

CONSTANTS
  Modulus,    \* of the output group: 2^32 (RingElm) or 2 (BinElm)
  SeedBits,   \* the bits of a seed
  Prgs,       \* the generators considered
  Depth,      \* the length of the secret path
  Kinds,      \* the kinds of key considered
  Values,     \* the output values considered
  Checked     \* whether the build checks arithmetic for overflow (RingElm)

Seed  == SUBSET SeedBits
Group == 0 .. Modulus - 1

ASSUME KeyTreeAssumption ==
  /\ Modulus \in Nat \ {0}
  /\ Depth \in Nat \ {0}
  /\ Kinds \subseteq {"dpf", "dcf", "idpf"}
  /\ Values \subseteq Group
  /\ Checked \in BOOLEAN
  /\ Prgs \subseteq [child : [BOOLEAN -> [Seed -> Seed]], veed : [BOOLEAN -> [Seed -> Seed]],
                     word : [Seed -> Group], next : [Seed -> Seed]]

VARIABLES
  kind, prg, alpha, values,  \* the key that is dealt; these never change
  path,     \* the dealer's local variables after each level
  words,    \* the correction words
  last,     \* the word at the leaf (dpf, dcf)
  dealing,  \* "on", "done" or "panicked"
  idx,      \* where the parties evaluate; empty until they do
  run,      \* the local variables of each evaluation after each level
  panicked  \* the evaluations that panicked

key  == <<kind, prg, alpha, values>>
deal == <<path, words, last, dealing>>
vars == <<key, deal, idx, run, panicked>>

Node == [seed : Seed, t : BOOLEAN]

-----------------------------------------------------------------------------
(* The group.                                                              *)
Plus(x, y)  == (x + y) % Modulus

Minus(x, y) == (x - y) % Modulus

(* Slip: the negation of 0 is not reduced.                                 *)
NegatedUnreduced(x) == Modulus - x

Negated(x) == (-x) % Modulus
Signed(negative, x) == IF negative THEN Negated(x) ELSE x

(* RingElm's `negate` computes u32::MAX - value + 1, which overflows for 0.*)
Panics(negated) == Checked /\ 0 \in negated

XorSeed(s, t) == (s \ t) \cup (t \ s)
Xor(a, b)     == a # b

(* The control bits of an expansion are read off key bits that have just   *)
(* been cleared.                                                           *)
Tau(seed, side) == TRUE

Child(seed, side) == prg.child[side][seed]
Word(seed)        == prg.word[seed]
Veed(seed, side)  == Word(prg.veed[side][seed])

(* One level down: expand, go to one side, apply the correction.           *)
Down(node, side, cw) ==
  [seed |-> IF node.t THEN XorSeed(Child(node.seed, side), cw.seed)
            ELSE Child(node.seed, side),
   t    |-> IF node.t THEN Xor(Tau(node.seed, side), cw.bits[side])
            ELSE Tau(node.seed, side)]

(* The incremental keys go on from a seed that conversion has renewed.     *)
Renewed(node) == IF kind = "idpf" THEN [node EXCEPT !.seed = prg.next[@]] ELSE node

-----------------------------------------------------------------------------
(* The dealer.                                                             *)

(* Slip: the bits of the two sides are swapped.                            *)
CorrectionOfOtherSide(node, keep) ==
  [seed |-> XorSeed(Child(node[0].seed, ~keep), Child(node[1].seed, ~keep)),
   bits |-> [side \in BOOLEAN |->
              Xor(Xor(Tau(node[0].seed, side), Tau(node[1].seed, side)), side # keep)]]

(* Makes the two parties agree on the side that is lost, and differ in     *)
(* their control bit on the side that is kept.                             *)
Correction(node, keep) ==
  [seed |-> XorSeed(Child(node[0].seed, ~keep), Child(node[1].seed, ~keep)),
   bits |-> [side \in BOOLEAN |->
              Xor(Xor(Tau(node[0].seed, side), Tau(node[1].seed, side)), side = keep)]]

(* What, added by the party whose control bit is set, makes the two        *)
(* conversions differ by the value.                                        *)
Gap(node, value) == Plus(Minus(value, Word(node[0].seed)), Word(node[1].seed))

(* What the sides that are lost contribute to a comparison, to be undone.  *)
LostGap(node, v, keep) ==
  Minus(Plus(Minus(0, v), Veed(node[1].seed, ~keep)), Veed(node[0].seed, ~keep))

(* Slip: the value is counted where the path turns left.                   *)
CompareWordLeft(node, v, keep, value) ==
  Plus(Signed(node[1].t, LostGap(node, v, keep)),
       IF ~keep THEN Signed(node[1].t, value) ELSE 0)

CompareWord(node, v, keep, value) ==
  Plus(Signed(node[1].t, LostGap(node, v, keep)),
       IF keep THEN Signed(node[1].t, value) ELSE 0)

CompareSum(node, v, keep, word) ==
  Plus(Plus(Minus(v, Veed(node[1].seed, keep)), Veed(node[0].seed, keep)),
       Signed(node[1].t, word))

(* gen_cor_word, and behind the last level the word at the leaf.           *)
DealLevel ==
  LET level == Len(words) + 1
      keep  == alpha[level]
      node  == path[level].node
      v     == path[level].v
      cw    == Correction(node, keep)
      below == [p \in Party |-> Down(node[p], keep, cw)]
      value == values[level]
      word  == CASE kind = "dpf" -> 0
                 [] kind = "dcf" -> CompareWord(node, v, keep, value)
                 [] kind = "idpf" -> Signed(below[1].t, Gap(below, value))
      sum   == IF kind = "dcf" THEN CompareSum(node, v, keep, word) ELSE 0
      leaf  == Gap(below, IF kind = "dcf" THEN Negated(sum) ELSE value)
      atEnd == level = Depth /\ kind # "idpf"
      negated == {x \in {leaf} : below[1].t /\ (atEnd \/ kind = "idpf")}
                   \cup {x \in {LostGap(node, v, keep)} : node[1].t /\ kind = "dcf"}
  IN  /\ dealing = "on"
      /\ IF Panics(negated)
         THEN /\ dealing' = "panicked"
              /\ UNCHANGED <<path, words, last>>
         ELSE /\ words' = Append(words, [seed |-> cw.seed, bits |-> cw.bits, word |-> word])
              /\ path' = Append(path, [node |-> [p \in Party |-> Renewed(below[p])], v |-> sum])
              /\ last' = IF atEnd THEN Signed(below[1].t, leaf) ELSE last
              /\ dealing' = IF level = Depth THEN "done" ELSE dealing
      /\ UNCHANGED <<key, idx, run, panicked>>

(* Both keys are out; the parties are asked for the same index, which may  *)
(* be shorter than the path.                                               *)
Ask ==
  /\ dealing = "done"
  /\ idx = <<>>
  /\ \E n \in 1 .. Depth : idx' \in [1 .. n -> BOOLEAN]
  /\ UNCHANGED <<key, deal, run, panicked>>

-----------------------------------------------------------------------------
(* A party evaluates its key, level by level.                              *)

(* Slip: the correction is applied whatever the control bit is.            *)
PartAlways(t, converted, word) == Plus(converted, word)

(* What a level or the leaf adds to the output of a party, before its sign.*)
Part(t, converted, word) == Plus(converted, IF t THEN word ELSE 0)

AtLeaf(level) == level = Len(idx)

EvalLevel(p) ==
  LET level == Len(run[p])
      cw    == words[level]
      node  == run[p][level].node
      out   == run[p][level].out
      below == Down(node, idx[level], cw)
      here  == Part(node.t, Veed(node.seed, idx[level]), cw.word)
      leaf  == Part(below.t, Word(below.seed), IF kind = "idpf" THEN cw.word ELSE last)
      parts == {x \in {here} : kind = "dcf"}
                 \cup {x \in {leaf} : kind = "idpf" \/ AtLeaf(level)}
      sum   == IF kind = "dcf" THEN Plus(out, Signed(p = 1, here)) ELSE 0
  IN  /\ level <= Len(idx)
      /\ p \notin panicked
      /\ IF p = 1 /\ Panics(parts)
         THEN /\ panicked' = panicked \cup {p}
              /\ UNCHANGED run
         ELSE /\ run' = [run EXCEPT ![p] = Append(@,
                   [node |-> Renewed(below),
                    out  |-> IF kind = "idpf" \/ AtLeaf(level)
                             THEN Plus(sum, Signed(p = 1, leaf)) ELSE sum])]
              /\ UNCHANGED panicked
      /\ UNCHANGED <<key, deal, idx>>

-----------------------------------------------------------------------------
Root(p, seed) == [seed |-> seed, t |-> p = 1]

Init ==
  /\ kind \in Kinds /\ prg \in Prgs
  /\ alpha \in [1 .. Depth -> BOOLEAN]
  /\ values \in [1 .. Depth -> Values]
  /\ kind # "idpf" => \A i, j \in 1 .. Depth : values[i] = values[j]
  /\ \E seed \in [Party -> Seed] :
       /\ path = <<[node |-> [p \in Party |-> Root(p, seed[p])], v |-> 0]>>
       /\ run = [p \in Party |-> <<[node |-> Root(p, seed[p]), out |-> 0]>>]
  /\ words = <<>> /\ last = 0 /\ dealing = "on"
  /\ idx = <<>> /\ panicked = {}

Done(p) == idx # <<>> /\ Len(run[p]) = Len(idx) + 1

Rest ==
  /\ dealing = "panicked" \/ \A p \in Party : Done(p) \/ p \in panicked
  /\ UNCHANGED vars

Next == DealLevel \/ Ask \/ (\E p \in Party : EvalLevel(p)) \/ Rest

Spec == Init /\ [][Next]_vars

-----------------------------------------------------------------------------
TypeOK ==
  /\ path \in Seq([node : [Party -> Node], v : Group])
  /\ words \in Seq([seed : Seed, bits : [BOOLEAN -> BOOLEAN], word : Group])
  /\ last \in Group
  /\ dealing \in {"on", "done", "panicked"}
  /\ idx \in Seq(BOOLEAN)
  /\ run \in [Party -> Seq([node : Node, out : Group])]
  /\ panicked \subseteq Party

(* Both have gone i levels down; the first i bits of the index are those   *)
(* of the secret path; or they come before it.                             *)
Reached(i) == \A p \in Party : i < Len(run[p])

OnPath(i) == \A k \in 1 .. i : idx[k] = alpha[k]

Before(i) ==
  \E k \in 1 .. i : ~idx[k] /\ alpha[k] /\ \A j \in 1 .. k - 1 : idx[j] = alpha[j]

Node2(i) == [p \in Party |-> run[p][i + 1].node]
Sum(i)   == Plus(run[0][i + 1].out, run[1][i + 1].out)

(* On the secret path the two parties are where the dealer has been, with  *)
(* different control bits; once off it, they are in the same state, so     *)
(* that all they add from there cancels (gen_cor_word and eval of dpf.rs,  *)
(* dcf.rs and idpf.rs, which compute it independently).                    *)
PathsDiverge ==
  \A i \in 1 .. Len(idx) : Reached(i) =>
    IF OnPath(i)
    THEN Node2(i) = path[i + 1].node /\ Node2(i)[0].t # Node2(i)[1].t
    ELSE Node2(i)[0] = Node2(i)[1]

(* On the way, the sum of a comparison is what the dealer keeps in v_alpha *)
(* while the index follows the path, and final as soon as it leaves it     *)
(* (dcf.rs:46-64, 146-160).                                                *)
SumsFollow ==
  kind = "dcf" =>
    \A i \in 1 .. Len(idx) - 1 : Reached(i) =>
      Sum(i) = IF OnPath(i) THEN path[i + 1].v
               ELSE IF Before(i) THEN values[1] ELSE 0

(* What both outputs add up to: the value at the secret point, the value   *)
(* below the secret bound, the value of this level on the secret prefix,   *)
(* and 0 elsewhere.  For an index shorter than the path this holds of the  *)
(* incremental keys, and of the others where the index leaves the path:    *)
(* the word at the leaf fits the end of the path only (dpf.rs:125-134,     *)
(* dcf.rs:162-174).                                                        *)
OutputsRecombine ==
  LET n == Len(idx)
  IN  (\A p \in Party : Done(p)) /\ (n = Depth \/ kind = "idpf" \/ ~OnPath(n)) =>
        Sum(n) = CASE kind = "dcf" -> IF Before(n) THEN values[1] ELSE 0
                   [] OTHER -> IF OnPath(n) THEN values[n] ELSE 0

(* `assert_eq!(evalResult, beta)` (dpf.rs:181) is reached for any seeds    *)
(* that were drawn: generating and evaluating keys returns.                *)
KeysReturn == dealing # "panicked" /\ panicked = {}
=============================================================================
