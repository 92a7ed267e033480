---------------------------- MODULE MCComparison ----------------------------
(***************************************************************************)
(* Instances of ComparisonTables for TLC.                                  *)
(***************************************************************************)
EXTENDS ComparisonTables

\* Registers and RAM cells whose addresses differ in the low limb, in the high
\* one and in both; a register and a cell of RAM have the same address.
SomeCells == ({Register} \X {0, 1, 6}) \cup ({Ram} \X {1, 4})

=============================================================================
