------------------------------ MODULE Exchange ------------------------------
(***************************************************************************)
(* What Channel::exchange (src/net.rs) promises its caller: once the link  *)
(* is up, a call sends one message and returns the peer's message of the   *)
(* same round, or fails because the peer is gone.                          *)
(*                                                                         *)
(* The threads, the frame header and the bytes of the stream are the       *)
(* business of the module Channel, which is shown to implement this one.   *)
(***************************************************************************)
EXTENDS Parties, Sequences

CONSTANT Message

VARIABLES
  sent,    \* what each party has passed to its calls so far
  got,     \* what its calls have returned so far
  status   \* where each party stands: in a call ("busy") or between calls
           \* ("idle"), after a failed call ("broken"), after dropping the
           \* link ("closed"), or killed ("crashed")

exchangeVars == <<sent, got, status>>

Status == {"idle", "busy", "broken", "closed", "crashed"}

ExchangeTypeOK ==
  /\ sent \in [Party -> Seq(Message)]
  /\ got \in [Party -> Seq(Message)]
  /\ status \in [Party -> Status]

ExchangeInit ==
  /\ sent = [p \in Party |-> <<>>]
  /\ got = [p \in Party |-> <<>>]
  /\ status = [p \in Party |-> "idle"]

-----------------------------------------------------------------------------
(* Slip: the frame is written a second time.                               *)
CallResent(p, payload) ==
  /\ status[p] = "idle"
  /\ sent' = [sent EXCEPT ![p] = Append(Append(@, payload), payload)]
  /\ status' = [status EXCEPT ![p] = "busy"]
  /\ UNCHANGED got

(* `exchange(payload)` is called.                                          *)
Call(p, payload) ==
  /\ status[p] = "idle"
  /\ sent' = [sent EXCEPT ![p] = Append(@, payload)]
  /\ status' = [status EXCEPT ![p] = "busy"]
  /\ UNCHANGED got

HasMail(p) == Len(got[p]) < Len(sent[Peer(p)])

(* Slip: a later message of the peer replaces one that was not read yet.   *)
LatestIncoming(p) == sent[Peer(p)][Len(sent[Peer(p)])]

(* The next message of the peer, and the message this party sent last.     *)
Incoming(p) == sent[Peer(p)][Len(got[p]) + 1]
Outgoing(p) == sent[p][Len(sent[p])]

(* The call returns the peer's message.                                    *)
Return(p) ==
  /\ status[p] = "busy"
  /\ HasMail(p)
  /\ got' = [got EXCEPT ![p] = Append(@, Incoming(p))]
  /\ status' = [status EXCEPT ![p] = "idle"]
  /\ UNCHANGED sent

(* Slips: a peer that closed takes along what it wrote; one that closed is *)
(* not noticed.                                                            *)
PeerLeft(p) == status[Peer(p)] \in {"crashed", "closed"}
PeerCrashed(p) == status[Peer(p)] = "crashed"

(* The call fails: the stream ends before the peer's message does, or the  *)
(* peer is gone before it has taken ours.  A peer that closed in an orderly*)
(* way, having read all it was sent, still delivers everything it wrote.   *)
PeerIsGone(p) ==
  LET q == Peer(p)
  IN  \/ status[q] = "crashed"
      \/ status[q] = "closed" /\ (~HasMail(p) \/ HasMail(q))

Abort(p) ==
  /\ status[p] = "busy"
  /\ PeerIsGone(p)
  /\ status' = [status EXCEPT ![p] = "broken"]
  /\ UNCHANGED <<sent, got>>

(* The process ends and the socket with it.                                *)
Close(p) ==
  /\ status[p] \in {"idle", "broken"}
  /\ status' = [status EXCEPT ![p] = "closed"]
  /\ UNCHANGED <<sent, got>>

(* The process is killed, in a call or between two.                        *)
Crash(p) ==
  /\ status[p] \in {"idle", "busy", "broken"}
  /\ status' = [status EXCEPT ![p] = "crashed"]
  /\ UNCHANGED <<sent, got>>

ExchangeStep(p) ==
  \/ \E payload \in Message : Call(p, payload)
  \/ Return(p)
  \/ Abort(p)
  \/ Close(p)
  \/ Crash(p)

ExchangeNext == \E p \in Party : ExchangeStep(p)

ExchangeSpec == ExchangeInit /\ [][ExchangeNext]_exchangeVars

-----------------------------------------------------------------------------
(* A party that is between calls has had an answer to everything it sent;  *)
(* one that is in a call waits for the answer to its last message.         *)
Answered ==
  \A p \in Party :
    /\ status[p] = "idle" => Len(sent[p]) = Len(got[p])
    /\ status[p] \in {"busy", "broken"} => Len(sent[p]) = Len(got[p]) + 1
    /\ Len(got[p]) \in {Len(sent[p]) - 1, Len(sent[p])}

(* Round i of one party is answered by round i of the other: no message is *)
(* lost, repeated or taken for that of another round.                      *)
Fifo ==
  \A p \in Party :
    /\ Len(got[p]) <= Len(sent[Peer(p)])
    /\ \A i \in 1 .. Len(got[p]) : got[p][i] = sent[Peer(p)][i]

(* Neither party is ever more than one round ahead of the other.           *)
Lockstep ==
  Len(sent[0]) \in Len(sent[1]) - 1 .. Len(sent[1]) + 1
=============================================================================
