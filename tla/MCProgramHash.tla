---------------------------- MODULE MCProgramHash ---------------------------
(***************************************************************************)
(* Instances of ProgramHash for TLC.                                       *)
(***************************************************************************)
EXTENDS ProgramHash

\* A nonlinear permutation-like map of states of three lanes that mixes all of
\* them, as an explicit function.
Scramble(s) ==
  LET lane(g) == (3 * s[g] * s[g] + 5 * s[(g + 1) % 3] + 7 * s[(g + 2) % 3] + g + 1) % P
  IN  (0 :> lane(0)) @@ (1 :> lane(1)) @@ (2 :> lane(2))

OfLength(n) == [0 .. n - 1 -> 0 .. Base - 1]

\* Programs of every length over several rows, with zeros at their ends.
Patterned(n) == {[a \in 0 .. n - 1 |-> (a * k) % Base] : k \in 0 .. 2}
SomePrograms == UNION {Patterned(n) : n \in 4 .. 18} \cup OfLength(5)

=============================================================================
