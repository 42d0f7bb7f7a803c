------------------------------ MODULE Parties ------------------------------
(***************************************************************************)
(* The two parties of the computation.  Every component names them by the  *)
(* numbers the code uses: party 0 listens and holds the public constants,  *)
(* party 1 dials.                                                          *)
(***************************************************************************)
EXTENDS Integers

Party == {0, 1}

Peer(p) == 1 - p
=============================================================================
