---------------------------- MODULE MCFixedPoint ----------------------------
(***************************************************************************)
(* A ring of 4 bits in a word of 6: every multiple of a quarter of the     *)
(* resolution up to a little beyond the range.                             *)
(***************************************************************************)
EXTENDS FixedPoint

MCReals == -(4 * 8 + 3) .. 4 * 8 + 3
=============================================================================
