-------------------------------- MODULE VmIsa -------------------------------
(***************************************************************************)
(* The VM as an implementation of the RV32I machine.                       *)
(***************************************************************************)
EXTENDS Vm

\* The cells of the RV32I machine are the registers the last step left.
Rv == INSTANCE IsaMachine WITH x <- [c \in 1 .. NumRegs - 1 |-> Registers[c]]

\* Every run of the VM computes what the RV32I machine computes: the same
\* path through the program and the same registers, whether or not the step
\* logs an operation, drops a write or panics.  It holds as long as x0 is 0
\* whenever an instruction is executed.
ImplementsIsa == Rv!Spec

\* crates/vm/src/lib.rs:686: "x0 must always read 0 in RISC-V".
X0AlwaysZero == Registers[0] = 0

=============================================================================
