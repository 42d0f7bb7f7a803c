----------------------------- MODULE MCKeyTree -----------------------------
(***************************************************************************)
(* Instances of KeyTree for TLC: two-bit seeds and generators made up from *)
(* arithmetic, with collisions and fixed points.                           *)
(***************************************************************************)
EXTENDS KeyTree

Number(s) == (IF 1 \in s THEN 1 ELSE 0) + (IF 2 \in s THEN 2 ELSE 0)
SeedOf(n) == CHOOSE s \in Seed : Number(s) = n % 4

Generator(k) ==
  [child |-> [b \in BOOLEAN |-> [s \in Seed |->
                SeedOf(IF b THEN k * Number(s) + 1 ELSE Number(s) * Number(s) + k)]],
   veed  |-> [b \in BOOLEAN |-> [s \in Seed |->
                SeedOf(IF b THEN Number(s) + k ELSE 3 * Number(s) + 2)]],
   word  |-> [s \in Seed |-> (3 * Number(s) + k * Number(s) * Number(s) + 1) % Modulus],
   next  |-> [s \in Seed |-> SeedOf(Number(s) + k)]]

MCPrgs == {Generator(k) : k \in 1 .. 3}
=============================================================================
