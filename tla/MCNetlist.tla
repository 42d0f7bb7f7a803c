----------------------------- MODULE MCNetlist -----------------------------
(***************************************************************************)
(* Files for TLC: gates that depend on each other, among lines of every    *)
(* other kind, well-formed or not.                                         *)
(***************************************************************************)
EXTENDS Netlist

MCInputNames  == {"I1", "I2", "I3"}
MCOutputNames == {"O1", "O2"}
MCNumbers     == {"7", "0"}

(* Chains of products and sums, and what else is well-formed.              *)
Dependent ==
  {<<"I1">>, <<"I2">>, <<"I2", "P1">>, <<"G1", "*", "I1", "I2">>, <<"G2", "*", "G1", "I1">>,
   <<"G2", "+", "G1", "G1">>, <<"G3", "*", "I2", "I2">>, <<"G3", "<", "0", "G2">>,
   <<"G4", "+", "G3", "G2">>, <<"G4", ">>", "c", "G3", "I1">>, <<"G5", "*", "G4", "I1">>,
   <<"G5", "C", "7">>, <<"O1", "G5">>, <<"O2", "O1">>}

Malformed ==
  {<<"G1">>, <<"I2", "q1">>, <<"G2", "C", "x">>, <<"G2", "C", "7", "7">>,
   <<"G2", "+", "I1">>, <<"G1", ">>", "s", "I1", "I2">>, <<"G2", "<", "7", "G1">>,
   <<"G1", "%", "I1", "I2">>}

MCLines == Dependent \cup Malformed \cup {<<>>}
=============================================================================
