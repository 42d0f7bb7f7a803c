----------------------------- MODULE MCGadgets -----------------------------
(***************************************************************************)
(* The two-party gadgets of libfss and the key stream side by side: a      *)
(* behaviour is that of one of them.  The ring has three bits, bytes two,  *)
(* blocks material for up to three bits; the stream has blocks of two      *)
(* words of two bytes and up to four calls under each of two keys.         *)
(***************************************************************************)
EXTENDS BeaverTuple, MBeaver, QMatrix, CondEval, PrgStream

(* All five words of a draw differ in some tuples, and coincide in others. *)
MCDraws ==
  {<<1, 2, 3, 5, 7>>, <<4, 4, 4, 4, 4>>, <<0, 7, 0, 7, 1>>, <<6, 3, 2, 5, 0>>, <<7, 7, 7, 7, 7>>}

MCFactors == {<<0, 5>>, <<3, 6>>, <<7, 7>>, <<2, 4>>}

MCPads ==
  {[loc \in 1 .. Pow2[Dim] - 1 |-> (k * loc) % 5 \in {1, 2}] : k \in 0 .. 4}

MCMasks ==
  {[row |-> i, column |-> j, shift |-> k] : i \in {0, 3}, j \in {0, 5}, k \in {0, 1, 2}}

VARIABLE gadget

gadgetVars == <<gadget, tupleVars, mbeaverVars, matrixVars, condVars, streamVars>>

Unused == [p \in Party |-> <<>>]

(* The variables of a gadget that is not the one of the behaviour.         *)
NoTuple ==
  server = 0 /\ tuple = Unused /\ given = Unused /\ sent = Unused /\ product = Unused
NoBlock ==
  /\ bits = 0 /\ entry = 0 /\ share = Unused /\ value = Unused /\ masked = Unused
  /\ bit = [p \in Party |-> "none"]
NoMatrix ==
  width = 0 /\ query = <<>> /\ matrix = <<>> /\ form = "none" /\ part = Unused
NoInterval ==
  /\ order = 0 /\ r = 0 /\ low = 0 /\ high = 0 /\ x = 0 /\ opened = <<>>
  /\ word = Unused /\ out = Unused /\ step = "none"
NoCond ==
  /\ t = FALSE /\ pi = Unused /\ alpha = Unused /\ v = 0 /\ c = Unused
  /\ letter = Unused /\ source = Unused /\ result = Unused
NoStream == StreamInit

Init ==
  \/ /\ gadget = "tuple"
     /\ TupleInit /\ NoBlock /\ NoMatrix /\ NoInterval /\ NoCond /\ NoStream
  \/ /\ gadget = "block"
     /\ MBeaverInit /\ NoTuple /\ NoMatrix /\ NoInterval /\ NoCond /\ NoStream
  \/ /\ gadget = "matrix"
     /\ MatrixInit /\ NoTuple /\ NoBlock /\ NoInterval /\ NoCond /\ NoStream
  \/ /\ gadget = "interval"
     /\ IntervalInit /\ NoTuple /\ NoBlock /\ NoMatrix /\ NoCond /\ NoStream
  \/ /\ gadget = "conditional"
     /\ CondInit /\ NoTuple /\ NoBlock /\ NoMatrix /\ NoStream
  \/ /\ gadget = "stream"
     /\ StreamInit /\ NoTuple /\ NoBlock /\ NoMatrix /\ NoInterval /\ NoCond

OnlyCondVars == <<t, pi, alpha, v, c, letter, source, result>>

Next ==
  /\ UNCHANGED gadget
  /\ \/ /\ gadget = "tuple"
        /\ TupleNext /\ UNCHANGED <<mbeaverVars, matrixVars, condVars, streamVars>>
     \/ /\ gadget = "block"
        /\ MBeaverNext /\ UNCHANGED <<tupleVars, matrixVars, condVars, streamVars>>
     \/ /\ gadget = "matrix"
        /\ MatrixNext /\ UNCHANGED <<tupleVars, mbeaverVars, condVars, streamVars>>
     \/ /\ gadget = "interval"
        /\ IntervalNext
        /\ UNCHANGED <<tupleVars, mbeaverVars, matrixVars, OnlyCondVars, streamVars>>
     \/ /\ gadget = "conditional"
        /\ CondNext /\ UNCHANGED <<tupleVars, mbeaverVars, matrixVars, streamVars>>
     \/ /\ gadget = "stream"
        /\ StreamNext /\ UNCHANGED <<tupleVars, mbeaverVars, matrixVars, condVars>>

Spec == Init /\ [][Next]_gadgetVars

TypeOK ==
  /\ gadget = "tuple" => TupleTypeOK
  /\ gadget = "block" => MBeaverTypeOK
  /\ gadget = "matrix" => MatrixTypeOK
  /\ gadget = "interval" => IntervalTypeOK
  /\ gadget = "conditional" => CondTypeOK
=============================================================================
