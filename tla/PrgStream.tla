----------------------------- MODULE PrgStream -----------------------------
(***************************************************************************)
(* The key stream all keys of libfss are expanded from (FixedKeyPrgStream  *)
(* in prg.rs).  It encrypts a counter block by block into a buffer and     *)
(* hands out the bytes in pieces of any length.  One stream per thread     *)
(* serves every expansion: setting a key must leave nothing behind of what *)
(* was drawn under the one before.                                         *)
(*                                                                         *)
(* A byte is known by the key and the place in the stream of that key it   *)
(* comes from.  Calls run to completion; the one thing that interrupts     *)
(* them is a failed debug assertion, in builds that check them.            *)
(***************************************************************************)
EXTENDS Integers, Sequences

CONSTANTS
  Block,     \* bytes of a block
  Wide,      \* blocks that are encrypted at a time for a long piece
  Long,      \* a piece of more blocks than this is a long one
  WordLen,   \* bytes of a word, of which next_bytes puts its answer together
  Pieces,    \* the lengths of the pieces that are asked for
  Lengths,   \* and of the answers
  MaxKeys, MaxCalls,  \* bounds
  Debugged    \* whether the build checks debug assertions

ASSUME PrgStreamAssumption ==
  /\ Block \in Nat \ {0} /\ Wide \in Nat \ {0} /\ Long \in Nat
  /\ WordLen \in Nat \ {0}
  /\ Pieces \subseteq Nat /\ Lengths \subseteq Nat
  /\ MaxKeys \in Nat /\ MaxCalls \in Nat
  /\ Debugged \in BOOLEAN

VARIABLES
  key,      \* which key is set; the stream starts with a key of its own
  ctr,      \* the block that is encrypted next
  buf,      \* what is buffered
  ptr,      \* how much of it has been handed out (buf_ptr)
  have,     \* where it ends
  calls,    \* how many calls there have been under this key
  wanted,   \* how much the call in progress has still to deliver
  piece,    \* the length it was asked for
  words,    \* the words that next_bytes has still to draw after this piece
  answer,   \* where in delivered the last answer begins, and how long it is
  delivered,  \* what has been handed out under this key
  skipped,  \* the blocks that were skipped under this key
  failed    \* the debug assertion that failed, if any

buffer == <<ctr, buf, ptr, have>>
caller == <<words, answer>>
streamVars == <<key, buffer, calls, wanted, piece, caller, delivered, skipped, failed>>

Byte(k, place) == <<k, place>>

StreamInit ==
  /\ key = 0 /\ ctr = 0 /\ buf = <<>>
  /\ ptr = Block /\ have = Block
  /\ calls = 0 /\ wanted = 0 /\ piece = 0
  /\ words = 0 /\ answer = [from |-> 0, len |-> 0]
  /\ delivered = <<>> /\ skipped = {}
  /\ failed = "none"

Idle == wanted = 0 /\ failed = "none"

(* Slip: what is left in the buffer is kept.                               *)
SetKeyOnly ==
  /\ Idle
  /\ key < MaxKeys
  /\ key' = key + 1
  /\ ctr' = 0
  /\ calls' = 0 /\ delivered' = <<>> /\ skipped' = {}
  /\ answer' = [from |-> 0, len |-> 0]
  /\ UNCHANGED <<buf, ptr, have, wanted, piece, words, failed>>

(* set_key: whatever is left in the buffer is dropped.                     *)
SetKey ==
  /\ Idle
  /\ key < MaxKeys
  /\ key' = key + 1
  /\ ctr' = 0
  /\ ptr' = Block /\ have' = Block
  /\ calls' = 0 /\ delivered' = <<>> /\ skipped' = {}
  /\ answer' = [from |-> 0, len |-> 0]
  /\ UNCHANGED <<buf, wanted, piece, words, failed>>

CanCall == Idle /\ calls < MaxCalls /\ calls' = calls + 1

(* skip_block, meant for a block boundary.                                 *)
SkipBlock ==
  /\ CanCall
  /\ IF Debugged /\ ptr # Block
     THEN failed' = "skip" /\ UNCHANGED <<ctr, skipped>>
     ELSE /\ ctr' = ctr + 1
          /\ skipped' = skipped \cup {ctr}
          /\ UNCHANGED failed
  /\ UNCHANGED <<key, buf, ptr, have, wanted, piece, caller, delivered>>

(* fill_bytes: a piece is asked for, and put together in turns.            *)
FillBytes ==
  /\ CanCall
  /\ wanted' \in Pieces
  /\ piece' = wanted'
  /\ UNCHANGED <<key, buffer, caller, delivered, skipped, failed>>

WordsFor(len) == len \div WordLen + 1

(* next_bytes: whole words, one more than fit into the length; the answer  *)
(* is their first bytes and the rest is dropped.  next_bits does the same, *)
(* with a word of 64 bits.                                                 *)
NextBytes ==
  /\ CanCall
  /\ \E len \in Lengths :
       /\ answer' = [from |-> Len(delivered), len |-> len]
       /\ LET drawn == WordsFor(len)
          IN  /\ words' = IF drawn = 0 THEN 0 ELSE drawn - 1
              /\ wanted' = IF drawn = 0 THEN 0 ELSE WordLen
  /\ piece' = WordLen
  /\ UNCHANGED <<key, buffer, delivered, skipped, failed>>

Refills(blocks) ==
  /\ buf' = [i \in 1 .. blocks * Block |-> Byte(key, ctr * Block + i - 1)]
  /\ ctr' = ctr + blocks
  /\ ptr' = 0
  /\ have' = blocks * Block

Refill8 ==
  /\ wanted > 0 /\ failed = "none"
  /\ ptr = have
  /\ piece > Long * Block
  /\ Refills(Wide)
  /\ UNCHANGED <<key, calls, wanted, piece, caller, delivered, skipped, failed>>

Refill ==
  /\ wanted > 0 /\ failed = "none"
  /\ ptr = have
  /\ piece <= Long * Block
  /\ IF Debugged /\ ptr # Block
     THEN failed' = "refill" /\ UNCHANGED buffer
     ELSE Refills(1) /\ UNCHANGED failed
  /\ UNCHANGED <<key, calls, wanted, piece, caller, delivered, skipped>>

(* How much a turn can take.                                               *)
Run == IF have - ptr < wanted THEN have - ptr ELSE wanted

(* The piece, or the word, goes on with what is left; then the next word.  *)
Goes(left) ==
  IF left = 0 /\ words > 0
  THEN wanted' = WordLen /\ words' = words - 1
  ELSE wanted' = left /\ UNCHANGED words

Copy ==
  /\ wanted > 0 /\ failed = "none"
  /\ ptr # have
  /\ delivered' = delivered \o SubSeq(buf, ptr + 1, ptr + Run)
  /\ ptr' = ptr + Run
  /\ Goes(wanted - Run)
  /\ UNCHANGED <<key, ctr, buf, have, calls, piece, answer, skipped, failed>>

Rest ==
  /\ failed # "none" \/ (Idle /\ key = MaxKeys /\ calls = MaxCalls)
  /\ UNCHANGED streamVars

StreamNext == SetKey \/ SkipBlock \/ FillBytes \/ NextBytes \/ Refill8 \/ Refill \/ Copy \/ Rest

StreamSpec == StreamInit /\ [][StreamNext]_streamVars

-----------------------------------------------------------------------------
(* The places of the stream up to n, but for the blocks that were skipped. *)
Due(n) == {place \in 0 .. n - 1 : place \div Block \notin skipped}

(* Whatever pieces are asked for, what is delivered is the stream of the   *)
(* key that is set, from its first byte, without the blocks that were      *)
(* skipped; nothing comes twice, and nothing of another key.  The place in *)
(* the buffer never passes its end, and the answer of next_bytes is all    *)
(* there when it is cut from the words drawn for it (otherwise the slices  *)
(* in prg.rs:223 and 366 would panic).                                     *)
Delivered ==
  /\ ptr <= have
  /\ \E n \in 0 .. ctr * Block :
       {delivered[i] : i \in 1 .. Len(delivered)} = {Byte(key, place) : place \in Due(n)}
  /\ \A i, j \in 1 .. Len(delivered) : i < j => delivered[i][2] < delivered[j][2]
  /\ Idle => answer.from + answer.len <= Len(delivered)
=============================================================================
