-------------------------------- MODULE Limbs --------------------------------
(***************************************************************************)
(* Words as limbs, little end first: the gadgets of                        *)
(* crates/air/src/primitives/u32_ops.rs, and the carries and borrows the   *)
(* trace builders compute for them.  A limb has LimbBits bits and a word   *)
(* NumLimbs limbs (8 and 4 in the code).  Field elements are integers: no  *)
(* side of an equation comes near the order of the field.                  *)
(***************************************************************************)
EXTENDS Numbers

CONSTANTS LimbBits, NumLimbs

ASSUME LimbsAssumption == LimbBits \in Nat \ {0} /\ NumLimbs \in Nat \ {0}

Base == 2 ^ LimbBits
Limb == 0 .. NumLimbs - 1
Top  == NumLimbs - 1

LimbsOf(w) == [i \in Limb |-> (w \div 2 ^ (LimbBits * i)) % Base]

Boolean(x) == x \in {0, 1}

\* What limb i receives from the limb below; limb 0 receives first.
CarryIn(carries, i, first) == IF i = 0 THEN first ELSE carries[i - 1]

\* x + y = sum, with a carry out of every limb.
U32Add(x, y, sum, carries) ==
  \A i \in Limb :
    /\ Boolean(carries[i])
    /\ sum[i] + carries[i] * Base = x[i] + y[i] + CarryIn(carries, i, 0)

\* y = x + 4; the top limb has no carry.
U32PlusFour(x, y, carries) ==
  \A i \in Limb :
    IF i = Top
    THEN y[i] = x[i] + CarryIn(carries, i, 4)
    ELSE /\ Boolean(carries[i])
         /\ y[i] + carries[i] * Base = x[i] + CarryIn(carries, i, 4)

\* y = x + 1, with a carry out of every limb.
U32Inc(x, y, carries) ==
  \A i \in Limb :
    /\ Boolean(carries[i])
    /\ y[i] + carries[i] * Base = x[i] + CarryIn(carries, i, 1)

\* diff = x - y, with a borrow out of every limb.
U32Sub(x, y, diff, borrows) ==
  \A i \in Limb :
    /\ Boolean(borrows[i])
    /\ x[i] + borrows[i] * Base = y[i] + CarryIn(borrows, i, 0) + diff[i]

(***************************************************************************)
(* The builders' side, on words.                                           *)
(***************************************************************************)
AddCarries(x, y) ==
  LET c[i \in Limb] ==
        (LimbsOf(x)[i] + LimbsOf(y)[i] + (IF i = 0 THEN 0 ELSE c[i - 1])) \div Base
  IN  c

PlusFourCarries(x) ==
  LET c[i \in 0 .. Top - 1] ==
        (LimbsOf(x)[i] + (IF i = 0 THEN 4 ELSE c[i - 1])) \div Base
  IN  c

SubBorrows(x, y) ==
  LET b[i \in Limb] ==
        IF LimbsOf(x)[i] - LimbsOf(y)[i] < (IF i = 0 THEN 0 ELSE b[i - 1]) THEN 1 ELSE 0
  IN  b

\* Mutant: the borrow from the limb below is forgotten.
SubDiffNoBorrow(x, y) == [i \in Limb |-> (LimbsOf(x)[i] - LimbsOf(y)[i]) % Base]

SubDiff(x, y) ==
  [i \in Limb |->
     (LimbsOf(x)[i] - LimbsOf(y)[i] - CarryIn(SubBorrows(x, y), i, 0)) % Base]

=============================================================================
