----------------------------- MODULE MCChannel -----------------------------
(***************************************************************************)
(* Instances of Channel for TLC: payloads that are empty, fit into the     *)
(* buffers together with their header, or do not.                          *)
(***************************************************************************)
EXTENDS Channel

MCPayloads == {<<>>, <<0>>, <<2, 1, 1>>}

(* The length of the longer one does not fit into a header.                *)
LongPayloads == {<<1>>, <<1, 0, 1, 0>>}
=============================================================================
