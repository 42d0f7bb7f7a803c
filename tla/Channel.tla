------------------------------ MODULE Channel ------------------------------
(***************************************************************************)
(* Channel::exchange as src/net.rs performs it, over a TCP connection that *)
(* is up.  A call spawns a helper thread that writes the frame - a header  *)
(* with the length, then the payload - while the calling thread reads the  *)
(* peer's frame and then joins the helper.                                 *)
(*                                                                         *)
(* Everything is counted in cells.  A cell stands for the four bytes of    *)
(* the header as well as for a piece of a payload, so that a misread       *)
(* header shows; HeaderMod stands for 2^32 and Capacity for what the two   *)
(* kernels buffer in one direction.                                        *)
(***************************************************************************)
EXTENDS Parties, Sequences

CONSTANTS
  Payloads,    \* the messages that are exchanged, sequences of cells
  HeaderMod,   \* one more than the largest length a header can hold
  Capacity,    \* cells that fit into the buffers of one direction
  MaxCalls,    \* bound on the calls of a party
  Killable     \* the parties that may be killed

Cell == 0 .. HeaderMod - 1

ASSUME ChannelAssumption ==
  /\ HeaderMod \in Nat \ {0}
  /\ Payloads \subseteq Seq(Cell)
  /\ Capacity \in Nat \ {0}
  /\ MaxCalls \in Nat
  /\ Killable \subseteq Party

VARIABLES
  phase,     \* where the calling thread of each party is
  helper,    \* the state of its helper thread
  unsent,    \* what the helper has still to write
  wire,      \* what each party has written and the peer has not read yet
  expected,  \* the length the peer's header announced
  buffer,    \* what has been read of the peer's payload
  sent, got  \* the payloads of the calls so far, and what they returned

vars == <<phase, helper, unsent, wire, expected, buffer, sent, got>>

Phases == {"between", "header", "body", "unwind", "broken", "closed", "crashed"}

TypeOK ==
  /\ phase \in [Party -> Phases]
  /\ helper \in [Party -> {"none", "writing", "ok", "failed"}]
  /\ unsent \in [Party -> Seq(Cell)]
  /\ wire \in [Party -> Seq(Cell)]
  /\ \A p \in Party : Len(wire[p]) <= Capacity
  /\ expected \in [Party -> Cell]
  /\ buffer \in [Party -> Seq(Cell)]
  /\ sent \in [Party -> Seq(Payloads)]
  /\ got \in [Party -> Seq(Seq(Cell))]

Init ==
  /\ phase = [p \in Party |-> "between"]
  /\ helper = [p \in Party |-> "none"]
  /\ unsent = [p \in Party |-> <<>>]
  /\ wire = [p \in Party |-> <<>>]
  /\ expected = [p \in Party |-> 0]
  /\ buffer = [p \in Party |-> <<>>]
  /\ sent = [p \in Party |-> <<>>]
  /\ got = [p \in Party |-> <<>>]

Gone(p) == phase[p] \in {"closed", "crashed"}

Reading(p) == phase[p] \in {"header", "body"}

(* `payload.len() as u32`, then the payload.                               *)
Frame(payload) == <<Len(payload) % HeaderMod>> \o payload

-----------------------------------------------------------------------------
(* The calling thread enters `exchange` and spawns the helper.             *)
Begin(p, payload) ==
  /\ phase[p] = "between"
  /\ Len(sent[p]) < MaxCalls
  /\ phase' = [phase EXCEPT ![p] = "header"]
  /\ helper' = [helper EXCEPT ![p] = "writing"]
  /\ unsent' = [unsent EXCEPT ![p] = Frame(payload)]
  /\ sent' = [sent EXCEPT ![p] = Append(@, payload)]
  /\ UNCHANGED <<wire, expected, buffer, got>>

(* Slip: a write is accepted beyond what the buffers hold.                 *)
WriteUnbounded(p) ==
  /\ helper[p] = "writing"
  /\ unsent[p] # <<>>
  /\ wire' = [wire EXCEPT ![p] = Append(@, Head(unsent[p]))]
  /\ unsent' = [unsent EXCEPT ![p] = Tail(@)]
  /\ UNCHANGED <<phase, helper, expected, buffer, sent, got>>

(* The helper.  A write is accepted while the buffers have room, even if   *)
(* the peer is gone and nobody will read it.                               *)
Write(p) ==
  /\ helper[p] = "writing"
  /\ unsent[p] # <<>>
  /\ Len(wire[p]) < Capacity
  /\ wire' = [wire EXCEPT ![p] = Append(@, Head(unsent[p]))]
  /\ unsent' = [unsent EXCEPT ![p] = Tail(@)]
  /\ UNCHANGED <<phase, helper, expected, buffer, sent, got>>

FinishWriting(p) ==
  /\ helper[p] = "writing"
  /\ unsent[p] = <<>>
  /\ helper' = [helper EXCEPT ![p] = "ok"]
  /\ UNCHANGED <<phase, unsent, wire, expected, buffer, sent, got>>

(* The system reports that the peer's end of the connection is gone.       *)
FailWriting(p) ==
  /\ helper[p] = "writing"
  /\ unsent[p] # <<>>
  /\ Gone(Peer(p))
  /\ helper' = [helper EXCEPT ![p] = "failed"]
  /\ unsent' = [unsent EXCEPT ![p] = <<>>]
  /\ UNCHANGED <<phase, wire, expected, buffer, sent, got>>

-----------------------------------------------------------------------------
(* The calling thread: read_exact of the header, then of the payload.      *)
Take(p) == wire' = [wire EXCEPT ![Peer(p)] = Tail(@)]

(* Slips: the buffer of the last call is kept; nothing is read before      *)
(* everything has been written.                                            *)
ReadHeaderOnly(p) ==
  /\ phase[p] = "header"
  /\ wire[Peer(p)] # <<>>
  /\ Take(p)
  /\ expected' = [expected EXCEPT ![p] = Head(wire[Peer(p)])]
  /\ phase' = [phase EXCEPT ![p] = "body"]
  /\ UNCHANGED <<helper, unsent, buffer, sent, got>>

ReadHeaderOnceWritten(p) ==
  /\ phase[p] = "header"
  /\ helper[p] # "writing"
  /\ wire[Peer(p)] # <<>>
  /\ Take(p)
  /\ expected' = [expected EXCEPT ![p] = Head(wire[Peer(p)])]
  /\ buffer' = [buffer EXCEPT ![p] = <<>>]
  /\ phase' = [phase EXCEPT ![p] = "body"]
  /\ UNCHANGED <<helper, unsent, sent, got>>

ReadHeader(p) ==
  /\ phase[p] = "header"
  /\ wire[Peer(p)] # <<>>
  /\ Take(p)
  /\ expected' = [expected EXCEPT ![p] = Head(wire[Peer(p)])]
  /\ buffer' = [buffer EXCEPT ![p] = <<>>]
  /\ phase' = [phase EXCEPT ![p] = "body"]
  /\ UNCHANGED <<helper, unsent, sent, got>>

WantsMore(p) ==
  \/ phase[p] = "header"
  \/ phase[p] = "body" /\ Len(buffer[p]) < expected[p]

ReadBody(p) ==
  /\ phase[p] = "body"
  /\ WantsMore(p)
  /\ wire[Peer(p)] # <<>>
  /\ Take(p)
  /\ buffer' = [buffer EXCEPT ![p] = Append(@, Head(wire[Peer(p)]))]
  /\ UNCHANGED <<phase, helper, unsent, expected, sent, got>>

(* Slip: a read ends as soon as the peer is gone.                          *)
CutAtOnce(p) == Gone(Peer(p))

(* A read ends early: the peer closed the connection and all it wrote has  *)
(* been read; it closed it with data of ours unread, which resets the      *)
(* connection; or it was killed, and what was under way may be lost.       *)
Cut(p) ==
  LET q == Peer(p)
  IN  \/ phase[q] = "closed" /\ (wire[q] = <<>> \/ wire[p] # <<>>)
      \/ phase[q] = "crashed"

(* The `?` of a read leaves the scope, which still waits for the helper.   *)
FailReading(p) ==
  /\ Reading(p)
  /\ WantsMore(p)
  /\ Cut(p)
  /\ phase' = [phase EXCEPT ![p] = "unwind"]
  /\ UNCHANGED <<helper, unsent, wire, expected, buffer, sent, got>>

Unwind(p) ==
  /\ phase[p] = "unwind"
  /\ helper[p] \in {"ok", "failed"}
  /\ phase' = [phase EXCEPT ![p] = "broken"]
  /\ helper' = [helper EXCEPT ![p] = "none"]
  /\ UNCHANGED <<unsent, wire, expected, buffer, sent, got>>

Join(p) ==
  /\ phase[p] = "body"
  /\ ~WantsMore(p)
  /\ helper[p] \in {"ok", "failed"}
  /\ helper' = [helper EXCEPT ![p] = "none"]
  /\ IF helper[p] = "ok"
     THEN /\ phase' = [phase EXCEPT ![p] = "between"]
          /\ got' = [got EXCEPT ![p] = Append(@, buffer[p])]
     ELSE /\ phase' = [phase EXCEPT ![p] = "broken"]
          /\ UNCHANGED got
  /\ UNCHANGED <<unsent, wire, expected, buffer, sent>>

-----------------------------------------------------------------------------
(* The caller is done with the link, or gave up on it.                     *)
Close(p) ==
  /\ phase[p] \in {"between", "broken"}
  /\ phase' = [phase EXCEPT ![p] = "closed"]
  /\ UNCHANGED <<helper, unsent, wire, expected, buffer, sent, got>>

Crash(p) ==
  /\ p \in Killable
  /\ ~Gone(p)
  /\ phase' = [phase EXCEPT ![p] = "crashed"]
  /\ helper' = [helper EXCEPT ![p] = "none"]
  /\ unsent' = [unsent EXCEPT ![p] = <<>>]
  /\ UNCHANGED <<wire, expected, buffer, sent, got>>

(* The three strands of a party: its caller, its two threads.              *)
Caller(p) == (\E payload \in Payloads : Begin(p, payload)) \/ Close(p)
Helper(p) == Write(p) \/ FinishWriting(p) \/ FailWriting(p)
Reader(p) == ReadHeader(p) \/ ReadBody(p) \/ FailReading(p) \/ Unwind(p) \/ Join(p)

Over == (\A p \in Party : Gone(p)) /\ UNCHANGED vars

Next ==
  \/ \E p \in Party : Caller(p) \/ Helper(p) \/ Reader(p) \/ Crash(p)
  \/ Over

Spec == Init /\ [][Next]_vars

(* Both threads are scheduled, the network delivers what was written, and  *)
(* a caller that is between two calls makes the next one or closes.        *)
FairSpec ==
  /\ Spec
  /\ \A p \in Party : WF_vars(Caller(p)) /\ WF_vars(Helper(p)) /\ WF_vars(Reader(p))

-----------------------------------------------------------------------------
(* While both ends are up, the stream from q to p is cut at frames: what p *)
(* has read of its current frame, what is on the wire and what q's helper  *)
(* still holds are together the frames of the messages p has not returned  *)
(* yet, which may be two: q can be a call ahead (net.rs:69-85).            *)
Read(p) == IF phase[p] = "body" THEN <<expected[p]>> \o buffer[p] ELSE <<>>

(* The frames of the messages after the first n, at most two.              *)
FramesAfter(n, messages) ==
  LET next(i) == Frame(messages[n + i])
  IN  IF Len(messages) = n THEN <<>>
      ELSE IF Len(messages) = n + 1 THEN next(1) ELSE next(1) \o next(2)

Aligned ==
  \A p \in Party :
    LET q == Peer(p)
    IN  /\ Len(sent[q]) - Len(got[p]) \in 0 .. 2
        /\ (phase[p] \in {"between", "header", "body"} /\ ~Gone(q) /\ helper[q] # "failed")
             => Read(p) \o wire[q] \o unsent[q] = FramesAfter(Len(got[p]), sent[q])

(* Channel implements Exchange: whatever the threads and the network do, a *)
(* call returns the peer's message of the same round or fails because the  *)
(* peer is gone.                                                           *)
StatusOf(stage) ==
  CASE stage = "between" -> "idle"
    [] stage \in {"header", "body", "unwind"} -> "busy"
    [] OTHER -> stage

Standing == [p \in Party |-> StatusOf(phase[p])]

Promise == INSTANCE Exchange WITH Message <- Payloads, status <- Standing

Implements == Promise!ExchangeSpec

(* "Writing happens on a helper thread so that a round never deadlocks, no *)
(* matter how large the batch of openings is" (net.rs:5-7): a call ends.   *)
CallsEnd ==
  \A p \in Party : phase[p] \in {"header", "body", "unwind"}
                     ~> phase[p] \notin {"header", "body", "unwind"}
=============================================================================
