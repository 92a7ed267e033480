------------------------------ MODULE Rv32iAlu ------------------------------
(***************************************************************************)
(* What the instructions of crates/vm/src/lib.rs compute, on words of XLEN *)
(* bits (32 in the code) with the raw upper immediate shifted left by      *)
(* UpperShift (12 in the code).  A word is a number below 2^XLEN, signed   *)
(* values are two's complement.                                            *)
(***************************************************************************)
EXTENDS Numbers

CONSTANTS XLEN, UpperShift

ASSUME AluAssumption == XLEN \in Nat \ {0} /\ UpperShift \in Nat

Size == 2 ^ XLEN

Bit(a, i)  == (a \div 2 ^ i) % 2
Signed(a)  == IF Bit(a, XLEN - 1) = 1 THEN a - Size ELSE a
Shamt(b)   == b % XLEN
Upper(b)   == (b * 2 ^ UpperShift) % Size
Truth(p)   == IF p THEN 1 ELSE 0

\* The word whose every bit is f of the bits of a and b.
Bitwise(f(_, _), a, b) ==
  Digits([i \in 0 .. XLEN - 1 |-> f(Bit(a, i), Bit(b, i))], 2, XLEN)[0]

BitXor(x, y) == (x + y) % 2
BitAnd(x, y) == x * y
BitOr(x, y)  == IF x + y > 0 THEN 1 ELSE 0

\* Wrapping sums and differences.
Arithmetic(op, a, b) == IF op = "Sub" THEN (a - b) % Size ELSE (a + b) % Size

Logical(op, a, b) ==
  CASE op \in {"Xor", "XorI"} -> Bitwise(BitXor, a, b)
    [] op \in {"And", "AndiI"} -> Bitwise(BitAnd, a, b)
    [] op \in {"Or", "OriI"}  -> Bitwise(BitOr, a, b)

\* Shifts by the low bits of b; Sra copies the sign.
Shifted(op, a, b) ==
  CASE op \in {"Sll", "SlliI"} -> (a * 2 ^ Shamt(b)) % Size
    [] op \in {"Srl", "SrliI"} -> a \div 2 ^ Shamt(b)
    [] op \in {"Sra", "SraiI"} -> (Signed(a) \div 2 ^ Shamt(b)) % Size

Compared(op, a, b) ==
  IF op \in {"Slt", "SltiI"} THEN Truth(Signed(a) < Signed(b)) ELSE Truth(a < b)

\* The result of op; b is the second register or the immediate, and a is the
\* first register, or pc for Lui and Auipc.
RvAlu(op, a, b) ==
  CASE op \in {"Add", "AddI", "Sub"}                        -> Arithmetic(op, a, b)
    [] op \in {"Xor", "XorI", "And", "AndiI", "Or", "OriI"} -> Logical(op, a, b)
    [] op \in {"Sll", "SlliI", "Srl", "SrliI", "Sra", "SraiI"} -> Shifted(op, a, b)
    [] op \in {"Slt", "SltiI", "Sltu", "SltiuI"}            -> Compared(op, a, b)
    [] op = "Lui"                                           -> Upper(b)
    [] op = "Auipc"                                         -> (a + Upper(b)) % Size

=============================================================================
