-------------------------- MODULE InstructionProofs --------------------------
(***************************************************************************)
(* Proofs about the tables of the instructions, for every width and number *)
(* of limbs the assumptions allow: the rows the builders fill satisfy the  *)
(* AIRs, agree with the VM, are the only ones the AIRs accept, and look up *)
(* what the tables were told to receive.                                   *)
(***************************************************************************)
EXTENDS AirList, DataLemmas

(***************************************************************************)
(* Words and their limbs.                                                  *)
(***************************************************************************)
\* The weight of a limb.
Weight(i) == 2 ^ (LimbBits * i)

\* Words, limbs and shift amounts.
LEMMA Geometry ==
  /\ LimbBits \in Nat /\ LimbBits >= 2 /\ NumLimbs \in Nat /\ NumLimbs >= 2
  /\ XLEN \in Nat /\ XLEN = LimbBits * NumLimbs /\ XLEN >= 4
  /\ Limb = 0 .. NumLimbs - 1 /\ Top = NumLimbs - 1 /\ Top \in Limb
  /\ UpperShift \in Nat /\ UpperShift > LimbBits /\ UpperShift <= 2 * LimbBits
  /\ HighBits \in Nat /\ HighBits >= 1 /\ HighBits <= LimbBits /\ UpperShift = LimbBits + HighBits
<1>1. /\ LimbBits \in Nat /\ NumLimbs \in Nat /\ LimbBits >= 2 /\ NumLimbs >= 2
      /\ XLEN = LimbBits * NumLimbs
      /\ UpperShift \in LimbBits + 1 .. 2 * LimbBits
  BY LimbsAssumption, RowsAssumption
<1>2. XLEN \in Nat /\ XLEN >= 4
  BY <1>1
<1> QED
  BY <1>1, <1>2 DEF Limb, Top, HighBits

\* Powers of two are numbers from 1 on.
LEMMA Power ==
  ASSUME NEW k \in Nat
  PROVE  2 ^ k \in Nat \ {0}
  BY TwoPowers, TwoPowerExceeds

LEMMA Weights ==
  /\ Base \in Nat /\ Base >= 4
  /\ Weight(0) = 1 /\ Size = Weight(NumLimbs)
  /\ \A i \in Nat : /\ LimbBits * i \in Nat /\ Weight(i) \in Nat \ {0}
                    /\ Weight(i + 1) = Weight(i) * Base
<1>1. Base \in Nat /\ Base >= 4
  <2>1. PICK k \in Nat : LimbBits = k + 2
    BY Geometry
  <2>2. 2 ^ (k + 2) = 2 * (2 * 2 ^ k) /\ 2 ^ k \in Nat \ {0}
    <3>1. k + 1 \in Nat /\ (k + 1) + 1 = k + 2
      OBVIOUS
    <3> QED
      BY <3>1, TwoPowers, Power
  <2> QED
    BY <2>1, <2>2 DEF Base
<1>2. Weight(0) = 1 /\ Size = Weight(NumLimbs)
  <2>1. LimbBits * 0 = 0 /\ XLEN = LimbBits * NumLimbs
    BY Geometry
  <2> QED
    BY <2>1, PowerZero DEF Weight, Size
<1>3. ASSUME NEW i \in Nat
      PROVE  LimbBits * i \in Nat /\ Weight(i) \in Nat \ {0} /\ Weight(i + 1) = Weight(i) * Base
  <2>1. PICK e \in Nat : e = LimbBits * i
    BY Geometry
  <2>2. LimbBits * (i + 1) = e + LimbBits
    BY <2>1, Geometry
  <2>3. 2 ^ (e + LimbBits) = 2 ^ e * 2 ^ LimbBits /\ 2 ^ e \in Nat \ {0}
    BY PowersMultiply, Power, Geometry
  <2> QED
    BY <2>1, <2>2, <2>3 DEF Weight, Base
<1> QED
  BY <1>1, <1>2, <1>3

\* A limb is what one quotient has over the next.
LEMMA LimbStep ==
  ASSUME NEW v \in Int, NEW i \in Limb
  PROVE  /\ v \div Weight(i) \in Int /\ v \div Weight(i + 1) \in Int
         /\ LimbsOf(v)[i] = (v \div Weight(i)) % Base
         /\ LimbsOf(v)[i] \in 0 .. Base - 1
         /\ v \div Weight(i + 1) = (v \div Weight(i)) \div Base
         /\ v \div Weight(i) = Base * (v \div Weight(i + 1)) + LimbsOf(v)[i]
<1>0. i \in Nat
  BY Geometry
<1>1. PICK a \in Nat \ {0} : a = Weight(i)
  <2>1. Weight(i) \in Nat \ {0}
    BY <1>0, Weights
  <2> QED
    BY <2>1
<1>2. PICK b \in Nat \ {0} : b = Base
  BY Weights
<1>3. Weight(i + 1) = a * b
  BY <1>0, <1>1, <1>2, Weights
<1>4. PICK q \in Int : q = v \div a
  BY Division
<1>5. q \div b = v \div (a * b)
  BY <1>4, QuotientOfQuotient
<1>6. LimbsOf(v)[i] = q % b
  BY <1>1, <1>2, <1>4 DEF LimbsOf, Weight
<1>7. q = b * (q \div b) + (q % b) /\ q \div b \in Int /\ q % b \in 0 .. b - 1
  BY Division
<1> QED
  BY <1>1, <1>2, <1>3, <1>4, <1>5, <1>6, <1>7

\* A limb is a number.
LEMMA LimbInt ==
  ASSUME NEW v \in Int, NEW i \in Limb
  PROVE  LimbsOf(v)[i] \in Int
<1>1. LimbsOf(v)[i] \in 0 .. Base - 1
  BY LimbStep
<1> QED
  BY <1>1

\* The first quotient is the number, and a word has no limb past the top one.
LEMMA QuotientEnds ==
  ASSUME NEW v \in Int
  PROVE  /\ v \div Weight(0) = v
         /\ v \div Size \in Int /\ v \div Weight(NumLimbs) = v \div Size
         /\ v \in 0 .. Size - 1 => v \div Size = 0
<1>1. v \div 1 = v
  OBVIOUS
<1>2. PICK s \in Nat \ {0} : s = Size
  BY Weights, Geometry
<1>3. v \div s \in Int
  BY Division
<1>4. v \in 0 .. s - 1 => v \div s = 0
  OBVIOUS
<1> QED
  BY <1>1, <1>2, <1>3, <1>4, Weights

\* Weights multiply.
LEMMA WeightsMultiply ==
  ASSUME NEW i \in Nat, NEW j \in Nat
  PROVE  Weight(i + j) = Weight(i) * Weight(j)
<1>1. PICK a \in Nat : a = LimbBits * i
  BY Weights
<1>2. PICK b \in Nat : b = LimbBits * j
  BY Weights
<1>3. LimbBits * (i + j) = a + b
  BY <1>1, <1>2, Geometry
<1>4. 2 ^ (a + b) = 2 ^ a * 2 ^ b
  BY PowersMultiply
<1> QED
  BY <1>1, <1>2, <1>3, <1>4 DEF Weight

\* A number and its word have the same limbs.
LEMMA LimbsOfWrapped ==
  ASSUME NEW v \in Int
  PROVE  LimbsOf(v % Size) = LimbsOf(v)
<1>1. PICK s \in Nat \ {0} : s = Size
  BY Weights, Geometry
<1>2. PICK k \in Int : k = v \div s
  BY Division
<1>3. PICK m \in Int : m = v % s
  BY Division
<1>4. v = s * k + m
  BY <1>2, <1>3, Division
<1>5. ASSUME NEW i \in Limb
      PROVE  LimbsOf(m)[i] = LimbsOf(v)[i]
  <2>1. PICK j \in Nat : j = NumLimbs - 1 - i
    BY Geometry
  <2>2. i \in Nat /\ NumLimbs = (i + 1) + j
    BY <2>1, Geometry
  <2>3. PICK a \in Nat \ {0} : a = Weight(i)
    BY <2>2, Weights
  <2>4. PICK b \in Nat \ {0} : b = Base
    BY Weights
  <2>5. PICK c \in Nat \ {0} : c = Weight(j)
    BY Weights
  <2>6. s = (a * b) * c
    BY <1>1, <2>2, <2>3, <2>4, <2>5, Weights, WeightsMultiply
  <2>7. PICK d \in Int : d = c * k
    OBVIOUS
  <2>8. PICK e \in Int : e = b * d
    OBVIOUS
  <2>9. v = a * e + m
    <3>1. ((a * b) * c) * k = a * (b * (c * k))
      OBVIOUS
    <3> QED
      BY <1>4, <2>6, <2>7, <2>8, <3>1
  <2>10. PICK q \in Int : q = m \div a
    BY Division
  <2>11. v \div a = e + q
    BY <2>9, <2>10, AddMultiple
  <2>12. (v \div a) % b = q % b
    <3>1. (b * d + q) % b = q % b
      BY AddMultiple
    <3> QED
      BY <2>8, <2>11, <3>1
  <2> QED
    BY <2>3, <2>4, <2>10, <2>12, LimbStep
<1> QED
  BY <1>1, <1>3, <1>5 DEF LimbsOf

(***************************************************************************)
(* Carries and borrows.                                                    *)
(***************************************************************************)
\* What the limbs of x and y below limb i give to v = x + y at limb i.
Carry(v, x, y, i) == (v \div Weight(i)) - (x \div Weight(i)) - (y \div Weight(i))

\* A limb of a sum is that of the limbs and the carry, less the carry out.
LEMMA CarryStep ==
  ASSUME NEW v \in Int, NEW x \in Int, NEW y \in Int, NEW i \in Limb
  PROVE  /\ Carry(v, x, y, i) \in Int /\ Carry(v, x, y, i + 1) \in Int
         /\ LimbsOf(v)[i] + Base * Carry(v, x, y, i + 1)
              = LimbsOf(x)[i] + LimbsOf(y)[i] + Carry(v, x, y, i)
<1>1. PICK b \in Nat : b = Base
  BY Weights
<1>2. PICK v0 \in Int, v1 \in Int, l \in Int :
        v0 = v \div Weight(i) /\ v1 = v \div Weight(i + 1) /\ l = LimbsOf(v)[i] /\ v0 = b * v1 + l
  BY <1>1, LimbStep
<1>3. PICK x0 \in Int, x1 \in Int, m \in Int :
        x0 = x \div Weight(i) /\ x1 = x \div Weight(i + 1) /\ m = LimbsOf(x)[i] /\ x0 = b * x1 + m
  BY <1>1, LimbStep
<1>4. PICK y0 \in Int, y1 \in Int, n \in Int :
        y0 = y \div Weight(i) /\ y1 = y \div Weight(i + 1) /\ n = LimbsOf(y)[i] /\ y0 = b * y1 + n
  BY <1>1, LimbStep
<1>5. Carry(v, x, y, i) = v0 - x0 - y0 /\ Carry(v, x, y, i + 1) = v1 - x1 - y1
  BY <1>2, <1>3, <1>4 DEF Carry
<1>6. l + b * (v1 - x1 - y1) = m + n + (v0 - x0 - y0)
  <2>1. b * (v1 - x1 - y1) = b * v1 - b * x1 - b * y1
    OBVIOUS
  <2>2. b * v1 \in Int /\ b * x1 \in Int /\ b * y1 \in Int
    OBVIOUS
  <2> QED
    BY <1>2, <1>3, <1>4, <2>1, <2>2
<1> QED
  BY <1>1, <1>2, <1>3, <1>4, <1>5, <1>6

\* A carry is 0 or 1: of a sum, and of adding a number that does not reach two
\* limbs' worth in the first limb.
LEMMA CarryIsBit ==
  ASSUME NEW x \in Int, NEW y \in Int, NEW f \in 0 .. Base, f <= 1 \/ y = 0,
         NEW v \in Int, v = x + y + f
  PROVE  /\ Carry(v, x, y, 0) = f
         /\ \A i \in 1 .. NumLimbs : Carry(v, x, y, i) \in {0, 1}
<1>b. PICK b \in Nat : b = Base
  BY Weights
<1>f. f \in Nat /\ f <= b
  BY <1>b
<1>1. Carry(v, x, y, 0) = f
  BY <1>f, QuotientEnds DEF Carry
<1> DEFINE K == {i \in Nat : i >= 1 => Carry(v, x, y, i) \in {0, 1}}
<1>2. 0 \in K
  OBVIOUS
<1>3. ASSUME NEW i \in 0 .. NumLimbs - 1, i \in K
      PROVE  i + 1 \in K
  <2>1. i \in Limb /\ i + 1 \in Nat /\ i \in Nat
    BY Geometry
  <2>2. PICK l \in 0 .. b - 1, m \in 0 .. b - 1, n \in 0 .. b - 1 :
          l = LimbsOf(v)[i] /\ m = LimbsOf(x)[i] /\ n = LimbsOf(y)[i]
    BY <1>b, <2>1, LimbStep
  <2>3. PICK c \in Int, d \in Int :
          c = Carry(v, x, y, i) /\ d = Carry(v, x, y, i + 1) /\ l + b * d = m + n + c
    <3>1. /\ Carry(v, x, y, i) \in Int /\ Carry(v, x, y, i + 1) \in Int
          /\ LimbsOf(v)[i] + Base * Carry(v, x, y, i + 1)
               = LimbsOf(x)[i] + LimbsOf(y)[i] + Carry(v, x, y, i)
      BY ONLY v \in Int, x \in Int, y \in Int, <2>1, CarryStep
    <3> QED
      BY <1>b, <2>2, <3>1
  <2>4. c \in {0, 1} \/ (c \in Nat /\ c <= b /\ n = 0)
    <3>1. CASE i = 0
      <4>1. c = f
        BY <1>1, <2>3, <3>1
      <4>2. y = 0 => n = 0
        <5>1. PICK w \in Nat \ {0} : w = Weight(i)
          BY <2>1, Weights
        <5>2. 0 \div w = 0 /\ 0 % b = 0
          BY <1>b, Weights
        <5> QED
          <6>1. LimbsOf(y)[i] = (y \div w) % b
            BY <1>b, <2>1, <5>1, LimbStep
          <6> QED
            BY <2>2, <5>2, <6>1
      <4> QED
        BY <1>f, <4>1, <4>2
    <3>2. CASE i # 0
      BY <1>3, <2>1, <2>3, <3>2
    <3> QED
      BY <3>1, <3>2
  <2>5. m + n + c >= 0 /\ m + n + c < 2 * b
    BY <1>b, <2>4, Weights
  <2>6. d \in {0, 1}
    <3>1. d >= 2 => b * d >= 2 * b
      OBVIOUS
    <3>2. d <= -1 => b * d <= -b
      OBVIOUS
    <3> QED
      BY <2>2, <2>3, <2>5, <3>1, <3>2
  <2> QED
    BY <2>1, <2>3, <2>6
<1>4. 0 .. NumLimbs \subseteq K
  <2> HIDE DEF K
  <2> QED
    BY <1>2, <1>3, Geometry, InductionTo
<1>5. \A i \in 1 .. NumLimbs : Carry(v, x, y, i) \in {0, 1}
  <2>1. \A i \in 1 .. NumLimbs : i \in 0 .. NumLimbs /\ i >= 1
    BY Geometry
  <2> QED
    BY <1>4, <2>1
<1> QED
  BY <1>1, <1>5

\* c follows the recursion of AddCarries.
Carries(c, x, y) ==
  c = [i \in Limb |->
         (LimbsOf(x)[i] + LimbsOf(y)[i] + (IF i = 0 THEN 0 ELSE c[i - 1])) \div Base]

\* The builder's carries of an addition.
LEMMA AddCarriesAre ==
  ASSUME NEW x \in Int, NEW y \in Int
  PROVE  AddCarries(x, y) = [i \in Limb |-> Carry(x + y, x, y, i + 1)]
<1> DEFINE e == [i \in Limb |-> Carry(x + y, x, y, i + 1)]
<1>1. ASSUME NEW i \in Limb
      PROVE  /\ i \in Limb
             /\ e[i] = (LimbsOf(x)[i] + LimbsOf(y)[i] + (IF i = 0 THEN 0 ELSE e[i - 1])) \div Base
  <2>0. i \in Limb /\ i \in Nat /\ (i # 0 => i - 1 \in Limb)
    BY Geometry
  <2>1. PICK b \in Nat \ {0} : b = Base
    BY Weights
  <2>v. PICK v \in Int : v = x + y
    OBVIOUS
  <2>2. PICK c \in Int, d \in Int : c = Carry(v, x, y, i) /\ d = Carry(v, x, y, i + 1)
    <3>1. Carry(v, x, y, i) \in Int /\ Carry(v, x, y, i + 1) \in Int
      BY <2>0, CarryStep
    <3> QED
      BY <3>1
  <2>3. c = IF i = 0 THEN 0 ELSE e[i - 1]
    <3>1. CASE i = 0
      <4>1. Carry(v, x, y, 0) = 0
        BY <2>v, QuotientEnds DEF Carry
      <4> QED
        BY <2>2, <3>1, <4>1
    <3>2. CASE i # 0
      <4>1. e[i - 1] = Carry(v, x, y, (i - 1) + 1) /\ (i - 1) + 1 = i
        BY <2>v, <2>0, <3>2
      <4> QED
        BY <2>2, <3>2, <4>1
    <3> QED
      BY <3>1, <3>2
  <2>5. e[i] = d
    BY <2>v, <2>2
  <2>6. PICK l \in 0 .. b - 1, m \in 0 .. b - 1, n \in 0 .. b - 1 :
          l = LimbsOf(v)[i] /\ m = LimbsOf(x)[i] /\ n = LimbsOf(y)[i]
    <3>1. LimbsOf(v)[i] \in 0 .. b - 1 /\ LimbsOf(x)[i] \in 0 .. b - 1
      BY <2>0, <2>1, LimbStep
    <3>2. LimbsOf(y)[i] \in 0 .. b - 1
      BY <2>0, <2>1, LimbStep
    <3> QED
      BY <3>1, <3>2
  <2>7. b * d + l = m + n + c
    <3>1. LimbsOf(v)[i] + Base * Carry(v, x, y, i + 1)
            = LimbsOf(x)[i] + LimbsOf(y)[i] + Carry(v, x, y, i)
      BY <2>0, CarryStep
    <3> QED
      BY <2>1, <2>2, <2>6, <3>1
  <2>8. PICK w \in Int : w = m + n + c
    OBVIOUS
  <2>9. w \div b = d
    BY <2>7, <2>8, DivisionUnique
  <2> HIDE DEF e
  <2> QED
    BY <2>0, <2>1, <2>3, <2>5, <2>6, <2>8, <2>9
<1>2. Carries(e, x, y)
  <2> HIDE DEF e
  <2>1. e = [i \in Limb |-> e[i]]
    BY DEF e
  <2> QED
    BY <1>1, <2>1 DEF Carries
<1>3. ASSUME NEW c, Carries(c, x, y)
      PROVE  c = e
  <2> DEFINE K == {k \in Nat : k \in Limb => c[k] = e[k]}
  <2>1. ASSUME NEW k \in Limb, k > 0 => c[k - 1] = e[k - 1]
        PROVE  c[k] = e[k]
    <3>1. c[k] = (LimbsOf(x)[k] + LimbsOf(y)[k] + (IF k = 0 THEN 0 ELSE c[k - 1])) \div Base
      BY <1>3 DEF Carries
    <3>2. e[k] = (LimbsOf(x)[k] + LimbsOf(y)[k] + (IF k = 0 THEN 0 ELSE e[k - 1])) \div Base
      BY <1>1
    <3>3. k = 0 \/ k > 0
      BY Geometry
    <3> HIDE DEF e
    <3> QED
      BY <2>1, <3>1, <3>2, <3>3
  <2>2. 0 \in K
    BY <2>1
  <2>3. ASSUME NEW k \in 0 .. NumLimbs - 1, k \in K
        PROVE  k + 1 \in K
    <3>1. k + 1 \in Limb => k \in Limb /\ (k + 1) - 1 = k
      BY Geometry
    <3> HIDE DEF e
    <3> QED
      BY <2>1, <2>3, <3>1
  <2>4. 0 .. NumLimbs \subseteq K
    <3> HIDE DEF K, e
    <3> QED
      BY <2>2, <2>3, Geometry, InductionTo
  <2>5. \A i \in Limb : c[i] = e[i]
    <3>1. \A i \in Limb : i \in 0 .. NumLimbs
      BY Geometry
    <3> QED
      BY <2>4, <3>1
  <2>6. c = [i \in Limb |-> c[i]] /\ e = [i \in Limb |-> e[i]]
    BY <1>3 DEF Carries
  <2> HIDE DEF e
  <2> QED
    BY <2>5, <2>6
<1>4. AddCarries(x, y) = CHOOSE c : Carries(c, x, y)
  BY Zenon DEF AddCarries, Carries
<1> HIDE DEF e
<1>5. AddCarries(x, y) = e
  BY <1>2, <1>3, <1>4
<1> QED
  BY <1>5 DEF e

\* c follows the recursion of PlusFourCarries.
FourCarries(c, x) ==
  c = [i \in 0 .. Top - 1 |->
         (LimbsOf(x)[i] + (IF i = 0 THEN 4 ELSE c[i - 1])) \div Base]

\* The builder's carries of pc + 4.
LEMMA PlusFourCarriesAre ==
  ASSUME NEW x \in Int
  PROVE  PlusFourCarries(x) = [i \in 0 .. Top - 1 |-> Carry(x + 4, x, 0, i + 1)]
<1> DEFINE e == [i \in 0 .. Top - 1 |-> Carry(x + 4, x, 0, i + 1)]
<1>1. ASSUME NEW i \in 0 .. Top - 1
      PROVE  /\ i \in Limb
             /\ e[i] = (LimbsOf(x)[i] + (IF i = 0 THEN 4 ELSE e[i - 1])) \div Base
  <2>0. i \in Limb /\ i \in Nat /\ (i # 0 => i - 1 \in 0 .. Top - 1)
    BY Geometry
  <2>1. PICK b \in Nat \ {0} : b = Base
    BY Weights
  <2>o. PICK o \in Int : o = 0
    OBVIOUS
  <2>v. PICK v \in Int : v = x + 4
    OBVIOUS
  <2>2. PICK c \in Int, d \in Int : c = Carry(v, x, o, i) /\ d = Carry(v, x, o, i + 1)
    <3>1. Carry(v, x, o, i) \in Int /\ Carry(v, x, o, i + 1) \in Int
      BY <2>0, CarryStep
    <3> QED
      BY <3>1
  <2>3. c = IF i = 0 THEN 4 ELSE e[i - 1]
    <3>1. CASE i = 0
      <4>1. Carry(v, x, o, 0) = 4
        BY <2>o, <2>v, QuotientEnds DEF Carry
      <4> QED
        BY <2>2, <3>1, <4>1
    <3>2. CASE i # 0
      <4>1. e[i - 1] = Carry(v, x, o, (i - 1) + 1) /\ (i - 1) + 1 = i
        BY <2>o, <2>v, <2>0, <3>2
      <4> QED
        BY <2>2, <3>2, <4>1
    <3> QED
      BY <3>1, <3>2
  <2>5. e[i] = d
    BY <2>o, <2>v, <2>2
  <2>6. PICK l \in 0 .. b - 1, m \in 0 .. b - 1, n \in 0 .. b - 1 :
          l = LimbsOf(v)[i] /\ m = LimbsOf(x)[i] /\ n = LimbsOf(o)[i]
    <3>1. LimbsOf(v)[i] \in 0 .. b - 1 /\ LimbsOf(x)[i] \in 0 .. b - 1
      BY <2>0, <2>1, LimbStep
    <3>2. LimbsOf(o)[i] \in 0 .. b - 1
      BY <2>0, <2>1, LimbStep
    <3> QED
      BY <3>1, <3>2
  <2>7. b * d + l = m + n + c
    <3>1. LimbsOf(v)[i] + Base * Carry(v, x, o, i + 1)
            = LimbsOf(x)[i] + LimbsOf(o)[i] + Carry(v, x, o, i)
      BY <2>0, CarryStep
    <3> QED
      BY <2>1, <2>2, <2>6, <3>1
  <2>8. n = 0
    <3>1. PICK w \in Nat \ {0} : w = Weight(i)
      BY <2>0, Weights
    <3>2. o \div w = 0 /\ o % b = 0 /\ 0 % b = 0
      BY <2>o
    <3>3. LimbsOf(o)[i] = (o \div w) % b
      BY <2>0, <2>1, <3>1, LimbStep
    <3> QED
      BY <2>o, <2>6, <3>2, <3>3
  <2>9. PICK w \in Int : w = m + c
    OBVIOUS
  <2>10. w \div b = d
    BY <2>7, <2>8, <2>9, DivisionUnique
  <2> HIDE DEF e
  <2> QED
    BY <2>0, <2>1, <2>3, <2>5, <2>6, <2>9, <2>10
<1>2. FourCarries(e, x)
  <2> HIDE DEF e
  <2>1. e = [i \in 0 .. Top - 1 |-> e[i]]
    BY DEF e
  <2> QED
    BY <1>1, <2>1 DEF FourCarries
<1>3. ASSUME NEW c, FourCarries(c, x)
      PROVE  c = e
  <2> DEFINE K == {k \in Nat : k \in 0 .. Top - 1 => c[k] = e[k]}
  <2>1. ASSUME NEW k \in 0 .. Top - 1, k > 0 => c[k - 1] = e[k - 1]
        PROVE  c[k] = e[k]
    <3>1. c[k] = (LimbsOf(x)[k] + (IF k = 0 THEN 4 ELSE c[k - 1])) \div Base
      BY <1>3 DEF FourCarries
    <3>2. e[k] = (LimbsOf(x)[k] + (IF k = 0 THEN 4 ELSE e[k - 1])) \div Base
      BY <1>1
    <3>3. k = 0 \/ k > 0
      BY Geometry
    <3> HIDE DEF e
    <3> QED
      BY <2>1, <3>1, <3>2, <3>3
  <2>2. 0 \in K
    BY <2>1
  <2>3. ASSUME NEW k \in 0 .. NumLimbs - 1, k \in K
        PROVE  k + 1 \in K
    <3>1. k + 1 \in 0 .. Top - 1 => k \in 0 .. Top - 1 /\ (k + 1) - 1 = k
      BY Geometry
    <3> HIDE DEF e
    <3> QED
      BY <2>1, <2>3, <3>1
  <2>4. 0 .. NumLimbs \subseteq K
    <3> HIDE DEF K, e
    <3> QED
      BY <2>2, <2>3, Geometry, InductionTo
  <2>5. \A i \in 0 .. Top - 1 : c[i] = e[i]
    <3>1. \A i \in 0 .. Top - 1 : i \in 0 .. NumLimbs
      BY Geometry
    <3> QED
      BY <2>4, <3>1
  <2>6. c = [i \in 0 .. Top - 1 |-> c[i]] /\ e = [i \in 0 .. Top - 1 |-> e[i]]
    BY <1>3 DEF FourCarries
  <2> HIDE DEF e
  <2> QED
    BY <2>5, <2>6
<1>4. PlusFourCarries(x) = CHOOSE c : FourCarries(c, x)
  BY Zenon DEF PlusFourCarries, FourCarries
<1> HIDE DEF e
<1>5. PlusFourCarries(x) = e
  BY <1>2, <1>3, <1>4
<1> QED
  BY <1>5 DEF e

\* c follows the recursion of SubBorrows.
Borrows(c, x, y) ==
  c = [i \in Limb |->
         IF LimbsOf(x)[i] - LimbsOf(y)[i] < (IF i = 0 THEN 0 ELSE c[i - 1]) THEN 1 ELSE 0]

\* The builder's borrows of a subtraction.
LEMMA SubBorrowsAre ==
  ASSUME NEW x \in Int, NEW y \in Int
  PROVE  SubBorrows(x, y) = [i \in Limb |-> Carry(x, x - y, y, i + 1)]
<1> DEFINE e == [i \in Limb |-> Carry(x, x - y, y, i + 1)]
<1>1. ASSUME NEW i \in Limb
      PROVE  /\ i \in Limb
             /\ e[i] = IF LimbsOf(x)[i] - LimbsOf(y)[i] < (IF i = 0 THEN 0 ELSE e[i - 1]) THEN 1 ELSE 0
  <2>0. i \in Limb /\ i \in Nat /\ (i # 0 => i - 1 \in Limb)
    BY Geometry
  <2>1. PICK b \in Nat \ {0} : b = Base
    BY Weights
  <2>2. PICK z \in Int : z = x - y
    OBVIOUS
  <2>3. PICK c \in Int, d \in Int : c = Carry(x, z, y, i) /\ d = Carry(x, z, y, i + 1)
    <3>1. Carry(x, z, y, i) \in Int /\ Carry(x, z, y, i + 1) \in Int
      BY <2>0, CarryStep
    <3> QED
      BY <3>1
  <2>4. c = IF i = 0 THEN 0 ELSE e[i - 1]
    <3>1. CASE i = 0
      <4>1. Carry(x, z, y, 0) = 0
        BY <2>2, QuotientEnds DEF Carry
      <4> QED
        BY <2>3, <3>1, <4>1
    <3>2. CASE i # 0
      <4>1. e[i - 1] = Carry(x, z, y, (i - 1) + 1) /\ (i - 1) + 1 = i
        BY <2>0, <2>2, <3>2
      <4> QED
        BY <2>3, <3>2, <4>1
    <3> QED
      BY <3>1, <3>2
  <2>5. e[i] = d
    BY <2>2, <2>3
  <2>6. PICK l \in 0 .. b - 1, m \in 0 .. b - 1, n \in 0 .. b - 1 :
          l = LimbsOf(x)[i] /\ m = LimbsOf(z)[i] /\ n = LimbsOf(y)[i]
    BY <2>0, <2>1, LimbStep
  <2>7. l + b * d = m + n + c
    <3>1. LimbsOf(x)[i] + Base * Carry(x, z, y, i + 1)
            = LimbsOf(z)[i] + LimbsOf(y)[i] + Carry(x, z, y, i)
      BY <2>0, CarryStep
    <3> QED
      BY <2>1, <2>3, <2>6, <3>1
  <2>8. d \in {0, 1}
    <3>1. i + 1 \in 1 .. NumLimbs /\ 0 \in 0 .. Base /\ x = z + y + 0
      BY <2>0, <2>2, Geometry, Weights
    <3>2. PICK o \in 0 .. Base : o = 0
      BY <3>1
    <3>3. x = z + y + o /\ (o <= 1 \/ y = 0)
      BY <3>1, <3>2
    <3>4. \A j \in 1 .. NumLimbs : Carry(x, z, y, j) \in {0, 1}
      BY ONLY x \in Int, y \in Int, z \in Int, o \in 0 .. Base, <3>3, CarryIsBit
    <3> QED
      BY <2>3, <3>1, <3>4
  <2>9. d = IF l - n < c THEN 1 ELSE 0
    BY <2>7, <2>8
  <2> HIDE DEF e
  <2> QED
    BY <2>0, <2>4, <2>5, <2>6, <2>9
<1>2. Borrows(e, x, y)
  <2> HIDE DEF e
  <2>1. e = [i \in Limb |-> e[i]]
    BY DEF e
  <2> QED
    BY <1>1, <2>1 DEF Borrows
<1>3. ASSUME NEW c, Borrows(c, x, y)
      PROVE  c = e
  <2> DEFINE K == {k \in Nat : k \in Limb => c[k] = e[k]}
  <2>1. ASSUME NEW k \in Limb, k > 0 => c[k - 1] = e[k - 1]
        PROVE  c[k] = e[k]
    <3>1. c[k] = IF LimbsOf(x)[k] - LimbsOf(y)[k] < (IF k = 0 THEN 0 ELSE c[k - 1]) THEN 1 ELSE 0
      BY <1>3 DEF Borrows
    <3>2. e[k] = IF LimbsOf(x)[k] - LimbsOf(y)[k] < (IF k = 0 THEN 0 ELSE e[k - 1]) THEN 1 ELSE 0
      BY <1>1
    <3>3. k = 0 \/ k > 0
      BY Geometry
    <3> HIDE DEF e
    <3> QED
      BY <2>1, <3>1, <3>2, <3>3
  <2>2. 0 \in K
    BY <2>1
  <2>3. ASSUME NEW k \in 0 .. NumLimbs - 1, k \in K
        PROVE  k + 1 \in K
    <3>1. k + 1 \in Limb => k \in Limb /\ (k + 1) - 1 = k
      BY Geometry
    <3> HIDE DEF e
    <3> QED
      BY <2>1, <2>3, <3>1
  <2>4. 0 .. NumLimbs \subseteq K
    <3> HIDE DEF K, e
    <3> QED
      BY <2>2, <2>3, Geometry, InductionTo
  <2>5. \A i \in Limb : c[i] = e[i]
    <3>1. \A i \in Limb : i \in 0 .. NumLimbs
      BY Geometry
    <3> QED
      BY <2>4, <3>1
  <2>6. c = [i \in Limb |-> c[i]] /\ e = [i \in Limb |-> e[i]]
    BY <1>3 DEF Borrows
  <2> HIDE DEF e
  <2> QED
    BY <2>5, <2>6
<1>4. SubBorrows(x, y) = CHOOSE c : Borrows(c, x, y)
  BY Zenon DEF SubBorrows, Borrows
<1> HIDE DEF e
<1>5. SubBorrows(x, y) = e
  BY <1>2, <1>3, <1>4
<1> QED
  BY <1>5 DEF e

(***************************************************************************)
(* What the builders fill satisfies the gadgets.                           *)
(***************************************************************************)
LEMMA AddGadget ==
  ASSUME NEW x \in Int, NEW y \in Int
  PROVE  U32Add(LimbsOf(x), LimbsOf(y), LimbsOf((x + y) % Size), AddCarries(x, y))
<1>1. PICK v \in Int : v = x + y
  OBVIOUS
<1>2. PICK o \in 0 .. Base : o = 0
  BY Weights
<1>3. v = x + y + o /\ (o <= 1 \/ y = 0)
  BY <1>1, <1>2
<1>4. Carry(v, x, y, 0) = 0 /\ \A i \in 1 .. NumLimbs : Carry(v, x, y, i) \in {0, 1}
  <2>1. Carry(v, x, y, 0) = o
    BY ONLY x \in Int, y \in Int, v \in Int, o \in 0 .. Base, <1>3, CarryIsBit
  <2>2. \A i \in 1 .. NumLimbs : Carry(v, x, y, i) \in {0, 1}
    BY ONLY x \in Int, y \in Int, v \in Int, o \in 0 .. Base, <1>3, CarryIsBit
  <2> QED
    BY <1>2, <2>1, <2>2
<1>5. AddCarries(x, y) = [i \in Limb |-> Carry(v, x, y, i + 1)]
  BY <1>1, AddCarriesAre
<1>6. LimbsOf((x + y) % Size) = LimbsOf(v)
  BY <1>1, LimbsOfWrapped
<1>7. ASSUME NEW i \in Limb
      PROVE  /\ AddCarries(x, y)[i] \in {0, 1}
             /\ LimbsOf(v)[i] + AddCarries(x, y)[i] * Base
                  = LimbsOf(x)[i] + LimbsOf(y)[i] + CarryIn(AddCarries(x, y), i, 0)
  <2>1. i \in Nat /\ i + 1 \in 1 .. NumLimbs /\ (i # 0 => i - 1 \in Limb /\ (i - 1) + 1 = i)
    BY Geometry
  <2>2. AddCarries(x, y)[i] = Carry(v, x, y, i + 1)
    BY <1>5
  <2>3. CarryIn(AddCarries(x, y), i, 0) = Carry(v, x, y, i)
    BY <1>4, <1>5, <2>1 DEF CarryIn
  <2>4. LimbsOf(v)[i] + Base * Carry(v, x, y, i + 1)
          = LimbsOf(x)[i] + LimbsOf(y)[i] + Carry(v, x, y, i)
    BY CarryStep
  <2>5. Carry(v, x, y, i + 1) \in {0, 1}
    BY <1>4, <2>1
  <2> QED
    BY <2>2, <2>3, <2>4, <2>5, Weights
<1> QED
  BY <1>6, <1>7 DEF U32Add, Boolean

\* The limbs of a difference and its borrows.
LEMMA SubGadget ==
  ASSUME NEW x \in Int, NEW y \in Int
  PROVE  /\ SubDiff(x, y) = LimbsOf((x - y) % Size)
         /\ U32Sub(LimbsOf(x), LimbsOf(y), LimbsOf((x - y) % Size), SubBorrows(x, y))
<1>1. PICK z \in Int : z = x - y
  OBVIOUS
<1>2. PICK o \in 0 .. Base : o = 0
  BY Weights
<1>3. x = z + y + o /\ (o <= 1 \/ y = 0)
  BY <1>1, <1>2
<1>4. Carry(x, z, y, 0) = 0 /\ \A i \in 1 .. NumLimbs : Carry(x, z, y, i) \in {0, 1}
  <2>1. Carry(x, z, y, 0) = o
    BY ONLY x \in Int, y \in Int, z \in Int, o \in 0 .. Base, <1>3, CarryIsBit
  <2>2. \A i \in 1 .. NumLimbs : Carry(x, z, y, i) \in {0, 1}
    BY ONLY x \in Int, y \in Int, z \in Int, o \in 0 .. Base, <1>3, CarryIsBit
  <2> QED
    BY <1>2, <2>1, <2>2
<1>5. SubBorrows(x, y) = [i \in Limb |-> Carry(x, z, y, i + 1)]
  BY <1>1, SubBorrowsAre
<1>6. LimbsOf((x - y) % Size) = LimbsOf(z)
  BY <1>1, LimbsOfWrapped
<1>7. ASSUME NEW i \in Limb
      PROVE  /\ SubBorrows(x, y)[i] \in {0, 1}
             /\ LimbsOf(x)[i] + SubBorrows(x, y)[i] * Base
                  = LimbsOf(y)[i] + CarryIn(SubBorrows(x, y), i, 0) + LimbsOf(z)[i]
             /\ (LimbsOf(x)[i] - LimbsOf(y)[i] - CarryIn(SubBorrows(x, y), i, 0)) % Base
                  = LimbsOf(z)[i]
  <2>1. i \in Nat /\ i + 1 \in 1 .. NumLimbs /\ (i # 0 => i - 1 \in Limb /\ (i - 1) + 1 = i)
    BY Geometry
  <2>2. SubBorrows(x, y)[i] = Carry(x, z, y, i + 1)
    BY <1>5
  <2>3. CarryIn(SubBorrows(x, y), i, 0) = Carry(x, z, y, i)
    BY <1>4, <1>5, <2>1 DEF CarryIn
  <2>4. LimbsOf(x)[i] + Base * Carry(x, z, y, i + 1)
          = LimbsOf(z)[i] + LimbsOf(y)[i] + Carry(x, z, y, i)
    BY CarryStep
  <2>5. PICK d \in {0, 1} : d = Carry(x, z, y, i + 1)
    BY <1>4, <2>1
  <2>6. PICK c \in Int : c = Carry(x, z, y, i)
    BY CarryStep
  <2>7. PICK b \in Nat \ {0} : b = Base
    BY Weights
  <2>8. PICK l \in 0 .. b - 1 : l = LimbsOf(x)[i]
    BY <2>7, LimbStep
  <2>9. PICK m \in 0 .. b - 1 : m = LimbsOf(y)[i]
    BY <2>7, LimbStep
  <2>10. PICK n \in 0 .. b - 1 : n = LimbsOf(z)[i]
    BY <2>7, LimbStep
  <2>11. PICK k \in Int : k = 0 - d
    OBVIOUS
  <2>12. PICK w \in Int : w = l - m - c
    OBVIOUS
  <2>13. w = b * k + n
    <3>1. l + b * d = n + m + c
      BY <2>4, <2>5, <2>6, <2>7, <2>8, <2>9, <2>10
    <3>2. b * (0 - d) = 0 - b * d /\ b * d \in Int
      OBVIOUS
    <3> QED
      BY <2>11, <2>12, <3>1, <3>2
  <2>14. w % b = n
    BY <2>13, DivisionUnique
  <2> QED
    BY <2>2, <2>3, <2>4, <2>5, <2>6, <2>7, <2>8, <2>9, <2>10, <2>12, <2>14
<1> QED
  BY <1>6, <1>7 DEF U32Sub, Boolean, SubDiff, LimbsOf

\* The borrow out of a word says which of two words is less.
LEMMA LastBorrow ==
  ASSUME NEW x \in 0 .. Size - 1, NEW y \in 0 .. Size - 1
  PROVE  SubBorrows(x, y)[Top] = Truth(x < y)
<1>0. PICK s \in Nat \ {0} : s = Size
  BY Weights, Geometry
<1>1. PICK z \in Int : z = x - y
  BY <1>0
<1>2. SubBorrows(x, y)[Top] = Carry(x, z, y, Top + 1)
  <2>1. x \in Int /\ y \in Int
    BY <1>0
  <2>2. SubBorrows(x, y) = [i \in Limb |-> Carry(x, z, y, i + 1)]
    BY <1>1, <2>1, SubBorrowsAre
  <2> QED
    BY <2>2, Geometry
<1>3. Top + 1 = NumLimbs
  BY Geometry
<1>4. Carry(x, z, y, NumLimbs) = (x \div s) - (z \div s) - (y \div s)
  BY <1>0, QuotientEnds DEF Carry
<1>5. x \div s = 0 /\ y \div s = 0
  BY <1>0
<1>6. z \div s = IF x < y THEN -1 ELSE 0
  <2>1. CASE x < y
    <3>1. PICK k \in Int : k = -1
      OBVIOUS
    <3>2. PICK r \in 0 .. s - 1 : r = z + s
      BY <1>0, <1>1, <2>1
    <3>3. z = s * k + r
      BY <3>1, <3>2
    <3> QED
      BY <2>1, <3>1, <3>3, DivisionUnique
  <2>2. CASE ~(x < y)
    BY <1>0, <1>1, <2>2
  <2> QED
    BY <2>1, <2>2
<1> QED
  BY <1>2, <1>3, <1>4, <1>5, <1>6 DEF Truth

\* The word after the word at pc has the limbs the gadget demands.
LEMMA FourGadget ==
  ASSUME NEW x \in 0 .. Size - 5
  PROVE  U32PlusFour(LimbsOf(x), LimbsOf(x + 4), PlusFourCarries(x))
<1>0. PICK s \in Nat \ {0} : s = Size
  BY Weights, Geometry
<1>i. x \in Int
  BY <1>0
<1>1. PICK v \in Int : v = x + 4
  BY <1>0
<1>2. PICK f \in 0 .. Base : f = 4
  BY Weights
<1>3. PICK o \in Int : o = 0
  OBVIOUS
<1>4. v = x + o + f /\ o = 0
  BY <1>0, <1>1, <1>2, <1>3
<1>5. Carry(v, x, o, 0) = 4 /\ \A i \in 1 .. NumLimbs : Carry(v, x, o, i) \in {0, 1}
  <2>1. Carry(v, x, o, 0) = f /\ \A i \in 1 .. NumLimbs : Carry(v, x, o, i) \in {0, 1}
    BY ONLY <1>i, o \in Int, v \in Int, f \in 0 .. Base, <1>4, CarryIsBit
  <2> QED
    BY <1>2, <2>1
<1>6. PlusFourCarries(x) = [i \in 0 .. Top - 1 |-> Carry(v, x, o, i + 1)]
  BY <1>i, <1>1, <1>3, PlusFourCarriesAre
<1>7. Carry(v, x, o, Top + 1) = 0
  <2>1. Carry(v, x, o, NumLimbs) = (v \div s) - (x \div s) - (o \div s)
    BY <1>i, <1>0, QuotientEnds DEF Carry
  <2>2. x \div s = 0 /\ v \div s = 0 /\ o \div s = 0
    BY <1>0, <1>1, <1>3
  <2> QED
    BY <2>1, <2>2, Geometry
<1>8. ASSUME NEW i \in Limb
      PROVE  IF i = Top
             THEN LimbsOf(v)[i] = LimbsOf(x)[i] + CarryIn(PlusFourCarries(x), i, 4)
             ELSE /\ PlusFourCarries(x)[i] \in {0, 1}
                  /\ LimbsOf(v)[i] + PlusFourCarries(x)[i] * Base
                       = LimbsOf(x)[i] + CarryIn(PlusFourCarries(x), i, 4)
  <2>1. /\ i \in Nat /\ i + 1 \in 1 .. NumLimbs /\ (i # 0 => i - 1 \in 0 .. Top - 1 /\ (i - 1) + 1 = i)
        /\ (i # Top => i \in 0 .. Top - 1)
    BY Geometry
  <2>2. i # Top => PlusFourCarries(x)[i] = Carry(v, x, o, i + 1)
    BY <1>6, <2>1
  <2>3. CarryIn(PlusFourCarries(x), i, 4) = Carry(v, x, o, i)
    BY <1>5, <1>6, <2>1 DEF CarryIn
  <2>4. PICK n \in Int : n = LimbsOf(o)[i]
    BY LimbStep
  <2>5. n = 0
    <3>1. PICK w \in Nat \ {0} : w = Weight(i)
      BY <2>1, Weights
    <3>2. PICK b \in Nat \ {0} : b = Base
      BY Weights
    <3>3. o \div w = 0 /\ o % b = 0 /\ 0 % b = 0
      BY <1>3
    <3>4. LimbsOf(o)[i] = (o \div w) % b
      BY <3>1, <3>2, LimbStep
    <3> QED
      BY <1>3, <2>4, <3>3, <3>4
  <2>6. LimbsOf(v)[i] + Base * Carry(v, x, o, i + 1) = LimbsOf(x)[i] + n + Carry(v, x, o, i)
    BY <1>i, <2>4, CarryStep
  <2>7. /\ LimbsOf(v)[i] \in Int /\ LimbsOf(x)[i] \in Int /\ Carry(v, x, o, i) \in Int
        /\ Carry(v, x, o, i + 1) \in {0, 1} /\ Base \in Int
    <3>1. LimbsOf(v)[i] \in Int /\ LimbsOf(x)[i] \in Int
      BY <1>i, LimbStep, Weights
    <3>2. Carry(v, x, o, i) \in Int
      BY <1>i, CarryStep
    <3> QED
      BY <1>5, <2>1, <3>1, <3>2, Weights
  <2> QED
    BY <1>7, <2>2, <2>3, <2>5, <2>6, <2>7
<1> QED
  BY <1>1, <1>8 DEF U32PlusFour, Boolean

(***************************************************************************)
(* Numbers from their digits.                                              *)
(***************************************************************************)
\* q[i] is the number with the digits from a[i] on.
SuffixesAre(q, a, b, n) ==
  q[n] = 0 /\ \A i \in 0 .. n - 1 : a[i] \in Int /\ q[i] = a[i] + b * q[i + 1]

\* They are the only such numbers.
LEMMA DigitsUnique ==
  ASSUME NEW n \in Nat, NEW b \in Int, NEW a, NEW q, SuffixesAre(q, a, b, n)
  PROVE  \A i \in 0 .. n : Digits(a, b, n)[i] = q[i]
<1> DEFINE S == {i \in 0 .. n : Digits(a, b, n)[i] = q[i]}
<1>0. q[n] = 0 /\ \A i \in 0 .. n - 1 : a[i] \in Int /\ q[i] = a[i] + b * q[i + 1]
  BY DEF SuffixesAre
<1>1. /\ Digits(a, b, n)[n] = 0
      /\ \A i \in 0 .. n - 1 : Digits(a, b, n)[i] = a[i] + b * Digits(a, b, n)[i + 1]
  BY <1>0, DigitsStep
<1>2. n \in S
  BY <1>0, <1>1
<1>3. ASSUME NEW i \in 0 .. n - 1, i + 1 \in S
      PROVE  i \in S
  BY <1>0, <1>1, <1>3
<1>4. \A i \in 0 .. n : i \in S
  <2> HIDE DEF S
  <2> QED
    BY <1>2, <1>3, InductionDown
<1> QED
  BY <1>4

\* a[i] is bit k + i of v.
BitsFrom(a, v, k, n) == \A i \in 0 .. n - 1 : a[i] = Bit(v, k + i)

\* n bits of a number from bit k on.
LEMMA BitsOfQuotient ==
  ASSUME NEW k \in Nat, NEW n \in Nat, NEW v \in Int, NEW a, BitsFrom(a, v, k, n)
  PROVE  Digits(a, 2, n)[0] = (v \div 2 ^ k) % 2 ^ n
<1>k. PICK p \in Nat \ {0} : p = 2 ^ k
  BY Power
<1>n. PICK m \in Nat \ {0} : m = 2 ^ n
  BY Power
<1>1. PICK u \in Int : u = v \div p
  BY Division
<1>2. PICK t \in Int : t = u \div m
  BY Division
<1>3. PICK w \in Int : w = u % m /\ w \in 0 .. m - 1
  BY DivisionParts
<1>4. u = m * t + w
  BY <1>2, <1>3, Division
<1> DEFINE q == [i \in 0 .. n |-> w \div 2 ^ i]
<1>5. ASSUME NEW i \in 0 .. n - 1
      PROVE  a[i] \in Int /\ q[i] = a[i] + 2 * q[i + 1]
  <2>1. i \in Nat /\ i \in 0 .. n /\ i + 1 \in 0 .. n /\ i + 1 \in Nat
    OBVIOUS
  <2>2. PICK j \in Nat : n = (i + 1) + j
    <3>1. n - (i + 1) \in Nat /\ n = (i + 1) + (n - (i + 1))
      OBVIOUS
    <3> QED
      BY <3>1
  <2>3. PICK e \in Nat \ {0} : e = 2 ^ i
    BY <2>1, Power
  <2>4. PICK f \in Nat \ {0} : f = 2 ^ j
    BY <2>2, Power
  <2>5. 2 ^ (i + 1) = e * 2
    BY <2>1, <2>3, TwoPowers
  <2>6. m = (e * 2) * f
    <3>1. PICK c \in Nat : c = i + 1
      BY <2>1
    <3>2. 2 ^ (c + j) = 2 ^ c * 2 ^ j
      BY PowersMultiply
    <3> QED
      BY <1>n, <2>2, <2>4, <2>5, <3>1, <3>2
  <2>7. PICK o \in Nat \ {0} : o = 2
    OBVIOUS
  <2>8. a[i] = (u \div e) % o
    <3>1. a[i] = (v \div 2 ^ (k + i)) % 2
      BY DEF BitsFrom, Bit
    <3>2. 2 ^ (k + i) = p * e
      BY <1>k, <2>1, <2>3, PowersMultiply
    <3>3. u \div e = v \div (p * e)
      BY <1>1, QuotientOfQuotient
    <3> QED
      BY <2>7, <3>1, <3>2, <3>3
  <2>9. PICK g \in Int : g = f * t
    OBVIOUS
  <2>10. PICK h \in Int : h = o * g
    OBVIOUS
  <2>11. u = e * h + w
    <3>1. ((e * 2) * f) * t = e * (2 * (f * t))
      OBVIOUS
    <3> QED
      BY <1>4, <2>6, <2>7, <2>9, <2>10, <3>1
  <2>12. PICK x \in Int : x = w \div e
    BY Division
  <2>13. u \div e = h + x
    BY <2>11, <2>12, AddMultiple
  <2>14. (h + x) % o = x % o
    <3>1. (o * g + x) % o = x % o
      BY AddMultiple
    <3> QED
      BY <2>10, <3>1
  <2>15. x \div o = w \div (e * o)
    BY <2>12, QuotientOfQuotient
  <2>16. x = o * (x \div o) + (x % o) /\ x % o \in Int
    BY Division
  <2>17. q[i] = x /\ q[i + 1] = x \div o
    BY <2>1, <2>3, <2>5, <2>7, <2>12, <2>15
  <2> HIDE DEF q
  <2> QED
    BY <2>7, <2>8, <2>13, <2>14, <2>16, <2>17
<1>6. q[n] = 0
  BY <1>n, <1>3
<1>7. q[0] = w
  <2>1. w \div 1 = w /\ 0 \in 0 .. n
    OBVIOUS
  <2> QED
    BY <2>1, PowerZero
<1>8. SuffixesAre(q, a, 2, n)
  <2> HIDE DEF q
  <2> QED
    BY <1>5, <1>6 DEF SuffixesAre
<1>9. Digits(a, 2, n)[0] = q[0]
  <2> HIDE DEF q
  <2>1. PICK o \in Int : o = 2
    OBVIOUS
  <2>2. \A i \in 0 .. n : Digits(a, o, n)[i] = q[i]
    BY <1>8, <2>1, DigitsUnique
  <2> QED
    BY <2>1, <2>2
<1> QED
  BY <1>k, <1>n, <1>1, <1>3, <1>7, <1>9

\* Where a sum has one term at most.
OneTerm(f, n, j) ==
  \A i \in 0 .. n - 1 : f[i] \in Int /\ (i # j => f[i] = 0)

LEMMA TotalOfOne ==
  ASSUME NEW n \in Nat, NEW f, NEW j \in Nat, OneTerm(f, n, j)
  PROVE  Total(f, n) = IF j < n THEN f[j] ELSE 0
<1> DEFINE q == [i \in 0 .. n |-> IF i <= j /\ j < n THEN f[j] ELSE 0]
<1>1. \A i \in 0 .. n - 1 : f[i] \in Int /\ (i # j => f[i] = 0)
  BY DEF OneTerm
<1>2. ASSUME NEW i \in 0 .. n - 1
      PROVE  f[i] \in Int /\ q[i] = f[i] + 1 * q[i + 1]
  <2>1. f[i] \in Int /\ (i # j => f[i] = 0) /\ (j < n => f[j] \in Int)
    BY <1>1
  <2>2. q[i] = IF i <= j /\ j < n THEN f[j] ELSE 0
    OBVIOUS
  <2>3. q[i + 1] = IF i + 1 <= j /\ j < n THEN f[j] ELSE 0
    OBVIOUS
  <2> HIDE DEF q
  <2> QED
    BY <2>1, <2>2, <2>3
<1>3. q[n] = 0 /\ q[0] = IF j < n THEN f[j] ELSE 0
  OBVIOUS
<1>4. PICK o \in Int : o = 1
  OBVIOUS
<1>5. Digits(f, 1, n)[0] = q[0]
  <2> HIDE DEF q
  <2>1. SuffixesAre(q, f, o, n)
    BY <1>2, <1>3, <1>4 DEF SuffixesAre
  <2>2. \A i \in 0 .. n : Digits(f, o, n)[i] = q[i]
    BY <2>1, DigitsUnique
  <2> QED
    BY <1>4, <2>2
<1> QED
  BY <1>3, <1>5 DEF Total

(***************************************************************************)
(* Signs.                                                                  *)
(***************************************************************************)
\* Half the words.
Half == 2 ^ (XLEN - 1)

LEMMA Halves ==
  /\ Half \in Nat \ {0} /\ LowHalf \in Nat \ {0}
  /\ Size = 2 * Half /\ Base = 2 * LowHalf /\ Half = Weight(Top) * LowHalf
<1>1. PICK k \in Nat : k = XLEN - 1 /\ k + 1 = XLEN
  BY Geometry
<1>2. PICK l \in Nat : l = LimbBits - 1 /\ l + 1 = LimbBits
  BY Geometry
<1>3. Half = 2 ^ k /\ Half \in Nat \ {0} /\ Size = 2 * Half
  <2>1. 2 ^ k \in Nat \ {0} /\ 2 ^ (k + 1) = 2 * 2 ^ k
    BY TwoPowers, Power
  <2> QED
    BY <1>1, <2>1 DEF Half, Size
<1>4. LowHalf = 2 ^ l /\ LowHalf \in Nat \ {0} /\ Base = 2 * LowHalf
  <2>1. 2 ^ l \in Nat \ {0} /\ 2 ^ (l + 1) = 2 * 2 ^ l
    BY TwoPowers, Power
  <2> QED
    BY <1>2, <2>1 DEF LowHalf, Base
<1>5. PICK m \in Nat : m = LimbBits * Top
  BY Geometry, Weights
<1>6. k = m + l
  <2>1. LimbBits * NumLimbs = LimbBits * Top + LimbBits
    BY Geometry
  <2> QED
    BY <1>1, <1>2, <1>5, <2>1, Geometry
<1>7. 2 ^ (m + l) = 2 ^ m * 2 ^ l
  BY PowersMultiply
<1> QED
  BY <1>3, <1>4, <1>5, <1>6, <1>7 DEF Weight

\* The top limb of a word is what the lower limbs leave.
LEMMA TopLimb ==
  ASSUME NEW w \in 0 .. Size - 1
  PROVE  LimbsOf(w)[Top] = w \div Weight(Top)
<1>0. w \in Int /\ Top \in Limb /\ Top + 1 = NumLimbs
  BY Geometry, Weights
<1>1. w \div Weight(Top + 1) = 0
  BY <1>0, QuotientEnds
<1>2. /\ w \div Weight(Top) = Base * (w \div Weight(Top + 1)) + LimbsOf(w)[Top]
      /\ LimbsOf(w)[Top] \in 0 .. Base - 1
  BY <1>0, LimbStep
<1> QED
  BY <1>1, <1>2, Weights

\* The sign bit of a word, and what it says.
LEMMA SignSplits ==
  ASSUME NEW w \in 0 .. Size - 1
  PROVE  /\ SignOf(w) = (IF w < Half THEN 0 ELSE 1)
         /\ TopLow(w) \in 0 .. LowHalf - 1
         /\ LimbsOf(w)[Top] = SignOf(w) * LowHalf + TopLow(w)
         /\ Signed(w) = w - SignOf(w) * Size
<1>0. w \in Int /\ Top \in Limb /\ Top \in Nat
  BY Geometry, Weights
<1>1. PICK h \in Nat \ {0} : h = Half
  BY Halves
<1>2. PICK l \in Nat \ {0} : l = LowHalf
  BY Halves
<1>3. PICK t \in Nat \ {0} : t = Weight(Top)
  BY <1>0, Weights
<1>4. PICK x \in Int : x = w \div t
  BY <1>0, Division
<1>5. LimbsOf(w)[Top] = x
  BY <1>3, <1>4, TopLimb
<1>6. PICK q \in Int, r \in Int : q = x \div l /\ r = x % l /\ r \in 0 .. l - 1 /\ x = l * q + r
  BY DivisionParts
<1>7. q = w \div h
  <2>1. q = w \div (t * l)
    BY <1>0, <1>4, <1>6, QuotientOfQuotient
  <2> QED
    BY <1>1, <1>2, <1>3, <2>1, Halves
<1>8. q = IF w < h THEN 0 ELSE 1
  <2>1. w \in 0 .. 2 * h - 1
    BY <1>1, Halves
  <2>2. CASE w < h
    BY <1>0, <1>7, <2>1, <2>2
  <2>3. CASE ~(w < h)
    <3>1. PICK o \in Int : o = 1
      OBVIOUS
    <3>2. PICK s \in 0 .. h - 1 : s = w - h
      BY <2>1, <2>3
    <3>3. w = h * o + s
      BY <1>0, <3>1, <3>2
    <3>4. w \div h = o
      BY <1>0, <3>3, DivisionUnique
    <3> QED
      BY <1>7, <2>3, <3>1, <3>4
  <2> QED
    BY <2>2, <2>3
<1>9. SignOf(w) = q
  <2>1. SignOf(w) = q % 2
    BY <1>1, <1>7 DEF SignOf, Bit, Half
  <2> QED
    BY <1>8, <2>1
<1>10. TopLow(w) = r
  BY <1>2, <1>5, <1>6 DEF TopLow, LowHalf
<1>11. Signed(w) = w - q * Size
  <2>1. Signed(w) = IF q = 1 THEN w - Size ELSE w
    BY <1>9 DEF Signed, SignOf
  <2> QED
    BY <1>0, <1>8, <2>1, Halves
<1> QED
  BY <1>1, <1>2, <1>5, <1>6, <1>8, <1>9, <1>10, <1>11

\* A comparison of signed words from the unsigned one and the signs.
LEMMA SignedLess ==
  ASSUME NEW x \in 0 .. Size - 1, NEW y \in 0 .. Size - 1
  PROVE  Truth(Signed(x) < Signed(y)) = XorOf(Truth(x < y), XorOf(SignOf(x), SignOf(y)))
<1>1. PICK h \in Nat \ {0} : h = Half /\ Size = 2 * h
  BY Halves
<1>2. x \in 0 .. 2 * h - 1 /\ y \in 0 .. 2 * h - 1
  BY <1>1
<1>3. PICK s \in {0, 1} : s = SignOf(x) /\ s = IF x < h THEN 0 ELSE 1
  BY <1>1, SignSplits
<1>4. PICK t \in {0, 1} : t = SignOf(y) /\ t = IF y < h THEN 0 ELSE 1
  BY <1>1, SignSplits
<1>5. Signed(x) = (IF s = 1 THEN x - 2 * h ELSE x) /\ Signed(y) = (IF t = 1 THEN y - 2 * h ELSE y)
  BY <1>1, <1>3, <1>4, SignSplits DEF Signed, SignOf
<1>6. PICK b \in {0, 1} : b = Truth(x < y) /\ (b = 1 <=> x < y)
  BY DEF Truth
<1>7. PICK c \in {0, 1} : c = Truth(Signed(x) < Signed(y)) /\ (c = 1 <=> Signed(x) < Signed(y))
  BY DEF Truth
<1>8. XorOf(s, t) = IF s = t THEN 0 ELSE 1
  BY DEF XorOf
<1>9. XorOf(b, XorOf(s, t)) = IF s = t THEN b ELSE 1 - b
  <2>1. CASE s = t
    BY <1>8, <2>1 DEF XorOf
  <2>2. CASE s # t
    BY <1>8, <2>2 DEF XorOf
  <2> QED
    BY <2>1, <2>2
<1>10. c = IF s = t THEN b ELSE 1 - b
  BY <1>2, <1>3, <1>4, <1>5, <1>6, <1>7
<1> QED
  BY <1>3, <1>4, <1>6, <1>7, <1>9, <1>10

(***************************************************************************)
(* Immediates.                                                             *)
(***************************************************************************)
\* The weights of the parts of an immediate of UpperShift bits.
LEMMA ImmWeights ==
  /\ 2 ^ UpperShift \in Nat \ {0} /\ 2 ^ (UpperShift - 1) \in Nat \ {0}
  /\ 2 ^ HighBits \in Nat \ {0} /\ 2 ^ HighBits <= Base
  /\ 2 ^ UpperShift = 2 * 2 ^ (UpperShift - 1)
  /\ 2 ^ UpperShift = Base * 2 ^ HighBits
  /\ 2 ^ (UpperShift - 1) <= Weight(2)
  /\ XLEN - UpperShift \in Nat /\ 2 ^ (XLEN - UpperShift) \in Nat \ {0}
  /\ Size = 2 ^ UpperShift * 2 ^ (XLEN - UpperShift)
<1>1. PICK k \in Nat : k = UpperShift - 1 /\ k + 1 = UpperShift
  BY Geometry
<1>2. 2 ^ k \in Nat \ {0} /\ 2 ^ (k + 1) = 2 * 2 ^ k /\ 2 ^ (k + 1) \in Nat \ {0}
  BY TwoPowers, Power
<1>3. PICK d \in Nat : d = LimbBits - HighBits /\ HighBits + d = LimbBits
  BY Geometry
<1>4. 2 ^ (HighBits + d) = 2 ^ HighBits * 2 ^ d /\ 2 ^ HighBits \in Nat \ {0} /\ 2 ^ d \in Nat \ {0}
  BY PowersMultiply, Power, Geometry
<1>5. PICK a \in Nat \ {0}, b \in Nat \ {0}, c \in Nat \ {0} :
        a = 2 ^ HighBits /\ b = 2 ^ d /\ c = Base /\ c = a * b
  <2>1. Base \in Nat \ {0}
    BY Weights
  <2>2. Base = 2 ^ HighBits * 2 ^ d
    BY <1>3, <1>4 DEF Base
  <2> QED
    BY <1>4, <2>1, <2>2
<1>6. a <= c
  <2>1. a * b >= a
    OBVIOUS
  <2> QED
    BY <1>5, <2>1
<1>7. 2 ^ UpperShift = c * a
  <2>1. 2 ^ (LimbBits + HighBits) = 2 ^ LimbBits * 2 ^ HighBits
    BY PowersMultiply, Geometry
  <2> QED
    BY <1>5, <2>1, Geometry DEF Base
<1>8. Weight(2) = c * c
  <2>1. PICK o \in Nat : o = 0
    OBVIOUS
  <2>2. PICK l \in Nat : l = 1
    OBVIOUS
  <2>3. Weight(o + 1) = Weight(o) * Base /\ Weight(l + 1) = Weight(l) * Base /\ Weight(0) = 1
    BY Weights
  <2> QED
    BY <1>5, <2>1, <2>2, <2>3
<1>9. 2 ^ k <= c * c
  <2>1. c * a <= c * c
    <3>1. PICK e \in Nat : c = a + e
      BY <1>6
    <3>2. c * (a + e) = c * a + c * e /\ c * e \in Nat
      OBVIOUS
    <3> QED
      BY <3>1, <3>2
  <2>2. c * a = 2 * 2 ^ k
    BY <1>1, <1>2, <1>7
  <2> QED
    BY <1>2, <2>1, <2>2
<1>10. XLEN - UpperShift \in Nat
  <2>1. LimbBits * 2 <= LimbBits * NumLimbs
    <3>1. PICK e \in Nat : NumLimbs = 2 + e
      BY Geometry
    <3>2. LimbBits * (2 + e) = LimbBits * 2 + LimbBits * e /\ LimbBits * e \in Nat
      BY Geometry
    <3> QED
      BY <3>1, <3>2, Geometry
  <2> QED
    BY <2>1, Geometry
<1>11. PICK g \in Nat : g = XLEN - UpperShift /\ UpperShift + g = XLEN
  BY <1>10, Geometry
<1>12. 2 ^ (UpperShift + g) = 2 ^ UpperShift * 2 ^ g /\ 2 ^ g \in Nat \ {0}
  BY PowersMultiply, Power, Geometry
<1> QED
  BY <1>1, <1>2, <1>5, <1>6, <1>7, <1>8, <1>9, <1>10, <1>11, <1>12 DEF Size

\* r has the columns of an immediate v.
HasImm(r, v) ==
  /\ r.imm = v % 2 ^ UpperShift
  /\ r.imm_high_bits = [i \in 0 .. HighBits - 1 |-> Bit(v % 2 ^ UpperShift, LimbBits + i)]
  /\ r.imm_se_bytes = LimbsOf(v)

\* An extended immediate as a signed number: v has the limbs of z, and its low
\* UpperShift bits are those of z.
LEMMA ExtendedIsSigned ==
  ASSUME NEW v \in Extended(UpperShift - 1)
  PROVE  \E g \in {0, 1}, z \in Int :
           /\ v \in 0 .. Size - 1 /\ v = z + g * Size /\ SignOf(v) = g
           /\ -(2 ^ (UpperShift - 1)) <= z /\ z < 2 ^ (UpperShift - 1) /\ (g = 1 <=> z < 0)
           /\ LimbsOf(v) = LimbsOf(z)
           /\ v % 2 ^ UpperShift = z + g * 2 ^ UpperShift
<1>1. PICK e \in Nat \ {0} : e = 2 ^ (UpperShift - 1)
  BY ImmWeights
<1>2. PICK f \in Nat \ {0} : f = 2 ^ UpperShift /\ f = 2 * e
  BY <1>1, ImmWeights
<1>3. PICK q \in Nat \ {0} : q = 2 ^ (XLEN - UpperShift)
  BY ImmWeights
<1>4. PICK s \in Nat \ {0} : s = Size /\ s = f * q
  BY <1>2, <1>3, ImmWeights
<1>5. s >= 2 * e
  <2>1. f * q >= f
    OBVIOUS
  <2> QED
    BY <1>2, <1>4, <2>1
<1>6. v \in 0 .. e - 1 \/ v \in s - e .. s - 1
  BY <1>1, <1>4 DEF Extended
<1>7. v \in 0 .. s - 1
  BY <1>5, <1>6
<1>8. PICK g \in {0, 1}, z \in Int : g = (IF v < e THEN 0 ELSE 1) /\ v = z + g * s
  <2>1. CASE v < e
    <3>1. v = v + 0 * s /\ v \in Int
      BY <1>7
    <3> QED
      BY <2>1, <3>1
  <2>2. CASE ~(v < e)
    <3>1. v = (v - s) + 1 * s /\ v - s \in Int
      BY <1>7
    <3> QED
      BY <2>2, <3>1
  <2> QED
    BY <2>1, <2>2
<1>9. -e <= z /\ z < e /\ (g = 1 <=> z < 0)
  BY <1>5, <1>6, <1>8
<1>10. SignOf(v) = g
  <2>1. Half >= e /\ s = 2 * Half /\ Half \in Nat
    <3>1. s = Size
      BY <1>4
    <3>2. Size = 2 * Half /\ Half \in Nat
      BY Halves
    <3> QED
      BY <1>5, <3>1, <3>2
  <2>2. v < Half <=> v < e
    BY <1>6, <2>1
  <2> QED
    BY <1>4, <1>7, <1>8, <2>2, SignSplits
<1>11. LimbsOf(v) = LimbsOf(z)
  <2>1. PICK k \in Int : k = 0 - g
    OBVIOUS
  <2>2. z = s * k + v
    BY <1>7, <1>8, <2>1
  <2>3. z % s = v
    BY <1>7, <2>2, DivisionUnique
  <2> QED
    BY <1>4, <2>3, LimbsOfWrapped
<1>12. v % f = z + g * f
  <2>1. PICK k \in Int : k = q * g - g
    OBVIOUS
  <2>2. PICK r \in 0 .. f - 1 : r = z + g * f
    <3>1. z + g * f \in 0 .. f - 1
      BY <1>2, <1>9
    <3> QED
      BY <3>1
  <2>3. v = f * k + r
    <3>1. CASE g = 0
      <4>1. q * 0 = 0 /\ f * 0 = 0 /\ 0 * s = 0 /\ 0 * f = 0
        OBVIOUS
      <4> QED
        BY <1>8, <2>1, <2>2, <3>1, <4>1
    <3>2. CASE g = 1
      <4>1. f * (q - 1) = f * q - f
        OBVIOUS
      <4>2. k = q - 1 /\ r = z + f /\ v = z + s
        BY <1>8, <2>1, <2>2, <3>2
      <4> QED
        BY <1>4, <4>1, <4>2
    <3> QED
      BY <3>1, <3>2
  <2>4. v \in Int
    BY <1>7
  <2> QED
    BY <2>2, <2>3, <2>4, DivisionUnique
<1> QED
  BY <1>1, <1>2, <1>4, <1>7, <1>8, <1>9, <1>10, <1>11, <1>12

\* The columns of an extended immediate satisfy the sign extension, and its
\* highest bit is the sign of the word.
LEMMA ImmGadget ==
  ASSUME NEW v \in Extended(UpperShift - 1), NEW r, HasImm(r, v)
  PROVE  SignExtendsImm(r) /\ r.imm_high_bits[HighBits - 1] = SignOf(v)
<1>1. PICK g \in {0, 1}, z \in Int :
           /\ v \in 0 .. Size - 1 /\ v = z + g * Size /\ SignOf(v) = g
           /\ -(2 ^ (UpperShift - 1)) <= z /\ z < 2 ^ (UpperShift - 1) /\ (g = 1 <=> z < 0)
           /\ LimbsOf(v) = LimbsOf(z)
           /\ v % 2 ^ UpperShift = z + g * 2 ^ UpperShift
  BY ExtendedIsSigned
<1>2. PICK e \in Nat \ {0} : e = 2 ^ (UpperShift - 1)
  BY ImmWeights
<1>3. PICK f \in Nat \ {0} : f = 2 ^ UpperShift /\ f = 2 * e
  BY <1>2, ImmWeights
<1>4. PICK b \in Nat \ {0} : b = Base
  BY Weights
<1>5. PICK k \in Nat \ {0} : k = 2 ^ HighBits /\ f = b * k /\ k <= b
  BY <1>3, <1>4, ImmWeights
<1>6. PICK m \in 0 .. f - 1 : m = v % f /\ m = z + g * f
  <2>1. v \in Int
    BY <1>1
  <2>2. v % f \in 0 .. f - 1
    BY <2>1, Division
  <2> QED
    BY <1>1, <1>3, <2>2
<1>i. m \in Int /\ z \in Int /\ v \in Int
  BY <1>1, <1>6
<1>7. PICK y \in Int, x \in Int : y = z \div b /\ x = z % b /\ x \in 0 .. b - 1 /\ z = b * y + x
  BY <1>i, DivisionParts
<1>8. PICK h \in Int : h = k * g
  OBVIOUS
<1>9. m = b * h + z
  <2>1. CASE g = 0
    BY <1>6, <1>8, <2>1
  <2>2. CASE g = 1
    BY <1>5, <1>6, <1>8, <2>2
  <2> QED
    BY <2>1, <2>2
<1>10. PICK n \in Int : n = m \div b /\ n = h + y /\ m % b = x
  <2>1. (b * h + z) \div b = h + (z \div b) /\ (b * h + z) % b = z % b
    BY AddMultiple
  <2>2. m \div b \in Int
    BY <1>i, Division
  <2> QED
    BY <1>7, <1>9, <2>1, <2>2
<1>11. n \in 0 .. k - 1 /\ m = b * n + x
  <2>1. m = b * n + x
    <3>1. b * (h + y) = b * h + b * y
      OBVIOUS
    <3> QED
      BY <1>7, <1>9, <1>10, <3>1
  <2>2. n >= 0
    <3>1. n <= -1 => b * n <= -b
      OBVIOUS
    <3> QED
      BY <1>7, <2>1, <3>1
  <2>3. n < k
    <3>1. n >= k => b * n >= b * k
      <4>1. ASSUME NEW d \in Nat
            PROVE  b * (k + d) = b * k + b * d /\ b * d >= 0
        OBVIOUS
      <4>2. n >= k => n - k \in Nat /\ n = k + (n - k)
        OBVIOUS
      <4> QED
        BY <4>1, <4>2
    <3> QED
      BY <1>5, <1>7, <2>1, <3>1
  <2> QED
    BY <2>1, <2>2, <2>3
<1>12. BitsValue(r.imm_high_bits, HighBits) = n
  <2>1. BitsFrom(r.imm_high_bits, m, LimbBits, HighBits)
    BY <1>3, <1>6 DEF HasImm, BitsFrom
  <2>2. Digits(r.imm_high_bits, 2, HighBits)[0] = (m \div 2 ^ LimbBits) % 2 ^ HighBits
    BY <1>i, <2>1, Geometry, BitsOfQuotient
  <2>3. n % k = n
    BY <1>11
  <2> QED
    BY <1>4, <1>5, <1>10, <2>2, <2>3 DEF Base, BitsValue
<1>13. AllBits(r.imm_high_bits)
  <2>1. ASSUME NEW i \in 0 .. HighBits - 1
        PROVE  r.imm_high_bits[i] \in {0, 1}
    <3>1. r.imm_high_bits[i] = (m \div 2 ^ (LimbBits + i)) % 2
      BY <1>3, <1>6 DEF HasImm, Bit
    <3>2. PICK p \in Nat \ {0} : p = 2 ^ (LimbBits + i)
      BY Power, Geometry
    <3>3. m \div p \in Int
      BY <1>i, Division
    <3>4. (m \div p) % 2 \in {0, 1}
      BY <3>3
    <3> QED
      BY <3>1, <3>2, <3>4
  <2>2. DOMAIN r.imm_high_bits = 0 .. HighBits - 1
    BY DEF HasImm
  <2> QED
    BY <2>1, <2>2 DEF AllBits, Boolean
<1>14. r.imm_high_bits[HighBits - 1] = g
  <2>1. HighBits - 1 \in 0 .. HighBits - 1 /\ LimbBits + (HighBits - 1) = UpperShift - 1
    BY Geometry
  <2>2. r.imm_high_bits[HighBits - 1] = (m \div e) % 2
    BY <1>2, <1>3, <1>6, <2>1 DEF HasImm, Bit
  <2>3. m \div e = g
    <3>1. PICK t \in 0 .. e - 1 : t = m - e * g
      <4>1. CASE g = 0
        <5>1. m \in 0 .. e - 1 /\ e * 0 = 0
          BY <1>1, <1>2, <1>6, <4>1
        <5> QED
          BY <4>1, <5>1
      <4>2. CASE g = 1
        <5>1. m - e \in 0 .. e - 1 /\ e * 1 = e
          BY <1>1, <1>2, <1>3, <1>6, <4>2
        <5> QED
          BY <4>2, <5>1
      <4> QED
        BY <4>1, <4>2
    <3>2. m = e * g + t /\ g \in Int
      BY <1>i, <3>1
    <3> QED
      BY <1>i, <3>2, DivisionUnique
  <2> QED
    BY <2>2, <2>3
<1>15. LimbsOf(v)[0] = x
  <2>1. PICK o \in Limb : o = 0
    BY Geometry
  <2>2. LimbsOf(z)[o] = (z \div Weight(o)) % Base /\ z \div Weight(0) = z
    BY <1>i, LimbStep, QuotientEnds
  <2> QED
    BY <1>1, <1>4, <1>7, <2>1, <2>2
<1>16. LimbsOf(v)[1] = y + g * b
  <2>1. PICK o \in Limb : o = 1
    BY Geometry
  <2>2. Weight(1) = b
    <3>1. PICK i \in Nat : i = 0
      OBVIOUS
    <3>2. Weight(i + 1) = Weight(i) * Base /\ Weight(0) = 1
      BY Weights
    <3> QED
      BY <1>4, <3>1, <3>2
  <2>3. LimbsOf(z)[o] = y % b
    <3>1. LimbsOf(z)[o] = (z \div Weight(o)) % Base
      BY <1>i, LimbStep
    <3> QED
      BY <1>4, <1>7, <2>1, <2>2, <3>1
  <2>4. y % b = y + g * b
    <3>1. CASE g = 0
      <4>1. y = n
        BY <1>8, <1>10, <3>1
      <4>2. y \in 0 .. b - 1
        BY <1>5, <1>11, <4>1
      <4> QED
        BY <3>1, <4>2
    <3>2. CASE g = 1
      <4>1. y = n - k
        BY <1>8, <1>10, <3>2
      <4>2. PICK w \in 0 .. b - 1 : w = y + b
        BY <1>5, <1>11, <4>1
      <4>3. PICK j \in Int : j = -1
        OBVIOUS
      <4>4. y = b * j + w
        BY <4>2, <4>3
      <4>5. y % b = w
        BY <4>4, DivisionUnique
      <4> QED
        BY <3>2, <4>2, <4>5
    <3> QED
      BY <3>1, <3>2
  <2> QED
    BY <1>1, <2>1, <2>3, <2>4
<1>17. ASSUME NEW i \in 2 .. Top
       PROVE  LimbsOf(v)[i] = g * (b - 1)
  <2>1. i \in Limb /\ i \in Nat
    BY Geometry
  <2>2. PICK w \in Nat \ {0} : w = Weight(i)
    BY <2>1, Weights
  <2>3. e <= w
    <3>1. PICK j \in Nat : i = 2 + j
      <4>1. i - 2 \in Nat /\ i = 2 + (i - 2)
        OBVIOUS
      <4> QED
        BY <4>1
    <3>2. PICK t \in Nat : t = 2
      OBVIOUS
    <3>3. Weight(t + j) = Weight(t) * Weight(j) /\ Weight(t) \in Nat \ {0} /\ Weight(j) \in Nat \ {0}
      BY WeightsMultiply, Weights
    <3>4. Weight(t) * Weight(j) >= Weight(t)
      BY <3>3
    <3> QED
      BY <1>2, <2>2, <3>1, <3>2, <3>3, <3>4, ImmWeights
  <2>4. PICK j \in Int : j = 0 - g
    OBVIOUS
  <2>5. PICK t \in 0 .. w - 1 : t = z + w * g
    <3>1. CASE g = 0
      <4>1. z \in 0 .. w - 1 /\ w * 0 = 0
        BY <1>1, <1>2, <2>3, <3>1
      <4> QED
        BY <3>1, <4>1
    <3>2. CASE g = 1
      <4>1. z + w \in 0 .. w - 1 /\ w * 1 = w
        BY <1>1, <1>2, <2>3, <3>2
      <4> QED
        BY <3>2, <4>1
    <3> QED
      BY <3>1, <3>2
  <2>6. z = w * j + t
    BY <2>4, <2>5
  <2>7. z \div w = j
    BY <1>i, <2>6, DivisionUnique
  <2>8. j % b = g * (b - 1)
    <3>1. CASE g = 0
      BY <2>4, <3>1
    <3>2. CASE g = 1
      <4>1. PICK p \in 0 .. b - 1 : p = b - 1
        OBVIOUS
      <4>2. j = b * j + p /\ j = -1
        BY <2>4, <3>2, <4>1
      <4>3. j % b = p
        BY <4>2, DivisionUnique
      <4> QED
        BY <3>2, <4>1, <4>3
    <3> QED
      BY <3>1, <3>2
  <2>9. LimbsOf(z)[i] = (z \div Weight(i)) % Base
    BY <1>i, <2>1, LimbStep
  <2> QED
    BY <1>1, <1>4, <2>2, <2>7, <2>8, <2>9
<1>18. r.imm = x + n * b
  BY <1>3, <1>6, <1>11 DEF HasImm
<1>19. LimbsOf(v)[1] = n + g * (b - k)
  <2>1. CASE g = 0
    BY <1>8, <1>10, <1>16, <2>1
  <2>2. CASE g = 1
    BY <1>8, <1>10, <1>16, <2>2
  <2> QED
    BY <2>1, <2>2
<1> QED
  BY <1>1, <1>4, <1>5, <1>12, <1>13, <1>14, <1>15, <1>17, <1>18, <1>19 DEF SignExtendsImm, HasImm

\* The limbs of a word are its digits.
LEMMA LimbDigits ==
  ASSUME NEW w \in 0 .. Size - 1
  PROVE  \A i \in 0 .. NumLimbs : Digits(LimbsOf(w), Base, NumLimbs)[i] = w \div Weight(i)
<1>0. w \in Int /\ NumLimbs \in Nat
  BY Weights, Geometry
<1>1. PICK b \in Int : b = Base
  BY Weights
<1> DEFINE q == [i \in 0 .. NumLimbs |-> w \div Weight(i)]
<1>2. q[NumLimbs] = 0
  BY <1>0, QuotientEnds
<1>3. ASSUME NEW i \in 0 .. NumLimbs - 1
      PROVE  LimbsOf(w)[i] \in Int /\ q[i] = LimbsOf(w)[i] + b * q[i + 1]
  <2>1. i \in Limb /\ i \in 0 .. NumLimbs /\ i + 1 \in 0 .. NumLimbs
    BY Geometry
  <2>2. PICK l \in Int : l = LimbsOf(w)[i]
    <3>1. LimbsOf(w)[i] \in 0 .. Base - 1
      BY <1>0, <2>1, LimbStep
    <3> QED
      BY <3>1
  <2>3. w \div Weight(i) = b * (w \div Weight(i + 1)) + l /\ w \div Weight(i + 1) \in Int
    BY <1>0, <1>1, <2>1, <2>2, LimbStep
  <2> QED
    BY <2>1, <2>2, <2>3
<1>4. SuffixesAre(q, LimbsOf(w), b, NumLimbs)
  <2> HIDE DEF q
  <2> QED
    BY <1>2, <1>3 DEF SuffixesAre
<1>5. \A i \in 0 .. NumLimbs : Digits(LimbsOf(w), b, NumLimbs)[i] = q[i]
  <2> HIDE DEF q
  <2> QED
    BY <1>0, <1>4, DigitsUnique
<1> QED
  BY <1>1, <1>5

\* The second weight is Base.
LEMMA WeightOne == Weight(1) = Base
<1>1. PICK i \in Nat : i = 0
  OBVIOUS
<1>2. Weight(i + 1) = Weight(i) * Base /\ Weight(0) = 1
  BY Weights
<1> QED
  BY <1>1, <1>2, Weights

\* A raw upper immediate moved up.
LEMMA UpperGadget ==
  ASSUME NEW v \in 0 .. 2 ^ (XLEN - UpperShift) - 1, NEW r,
         r.imm_low8 = v % Base, r.imm_high12 = v \div Base
  PROVE  Upper(v) \in 0 .. Size - 1 /\ MovesUp(r, LimbsOf(Upper(v)))
<1>1. PICK b \in Nat \ {0} : b = Base
  BY Weights
<1>2. PICK k \in Nat \ {0} : k = 2 ^ HighBits
  BY ImmWeights
<1>3. PICK q \in Nat \ {0} : q = 2 ^ (XLEN - UpperShift)
  BY ImmWeights
<1>4. PICK f \in Nat \ {0} : f = 2 ^ UpperShift /\ f = b * k /\ Size = f * q
  BY <1>1, <1>2, <1>3, ImmWeights
<1>5. v \in 0 .. q - 1 /\ v \in Int
  BY <1>3
<1>6. PICK w \in Nat : w = v * f
  BY <1>5
<1>7. w \in 0 .. Size - 1
  <2>1. PICK d \in Nat : q = v + 1 + d
    <3>1. q - v - 1 \in Nat /\ q = v + 1 + (q - v - 1)
      BY <1>5
    <3> QED
      BY <3>1
  <2>2. f * (v + 1 + d) = v * f + f + f * d /\ f * d \in Nat
    BY <1>5
  <2> QED
    BY <1>4, <1>6, <2>1, <2>2
<1>8. Upper(v) = w
  <2>1. PICK s \in Nat \ {0} : s = Size
    BY Weights, Geometry
  <2>2. w % s = w
    BY <1>7, <2>1
  <2> QED
    BY <1>4, <1>6, <2>1, <2>2 DEF Upper
<1>9. PICK u \in Int : u = v * k
  BY <1>5
<1>10. w = b * u + 0
  <2>1. v * (b * k) = b * (v * k)
    BY <1>5
  <2> QED
    BY <1>4, <1>6, <1>9, <2>1
<1>11. PICK o \in 0 .. b - 1 : o = 0
  OBVIOUS
<1>12. w \div b = u /\ w % b = 0
  <2>1. w = b * u + o /\ w \in Int
    BY <1>10, <1>11
  <2>2. w \div b = u /\ w % b = o
    BY <2>1, DivisionUnique
  <2> QED
    BY <1>11, <2>2
<1>13. LimbsOf(w)[0] = 0
  <2>1. PICK i \in Limb : i = 0
    BY Geometry
  <2>2. LimbsOf(w)[i] = (w \div Weight(i)) % Base /\ w \div Weight(0) = w
    BY LimbStep, QuotientEnds
  <2> QED
    BY <1>1, <1>12, <2>1, <2>2
<1>14. Digits(LimbsOf(w), Base, NumLimbs)[1] = u
  BY <1>1, <1>7, <1>12, LimbDigits, WeightOne, Geometry
<1>15. ((v % b) + (v \div b) * b) * k = u
  BY <1>5, <1>9
<1> QED
  BY <1>1, <1>2, <1>7, <1>8, <1>13, <1>14, <1>15 DEF MovesUp

\* r has the columns of a jump offset v.
HasJump(r, v) ==
  /\ r.imm_high12 = JumpFields(v).high12 /\ r.imm_lo8 = JumpFields(v).lo8
  /\ r.imm_high12_bits = [i \in 0 .. UpperShift - 1 |-> Bit(JumpFields(v).high12, i)]
  /\ r.imm_lo8_bits = [i \in 0 .. JumpBits - 1 |-> Bit(JumpFields(v).lo8, i)]

\* The bits of a number below the power of two of their number.
LEMMA BitsOfNumber ==
  ASSUME NEW n \in Nat, NEW v \in Nat, v < 2 ^ n, NEW a, a = [i \in 0 .. n - 1 |-> Bit(v, i)]
  PROVE  AllBits(a) /\ BitsValue(a, n) = v
<1>1. PICK o \in Nat : o = 0
  OBVIOUS
<1>2. BitsFrom(a, v, o, n)
  BY <1>1 DEF BitsFrom
<1>3. Digits(a, 2, n)[0] = (v \div 2 ^ o) % 2 ^ n
  BY <1>2, BitsOfQuotient
<1>4. PICK m \in Nat \ {0} : m = 2 ^ n
  BY Power
<1>5. v % m = v /\ v \div 1 = v
  BY <1>4
<1>6. ASSUME NEW i \in 0 .. n - 1
      PROVE  a[i] \in {0, 1}
  <2>1. PICK p \in Nat \ {0} : p = 2 ^ i
    BY Power
  <2>2. v \div p \in Int
    BY Division
  <2>3. (v \div p) % 2 \in {0, 1}
    BY <2>2
  <2> QED
    BY <2>1, <2>3 DEF Bit
<1> QED
  BY <1>1, <1>3, <1>4, <1>5, <1>6, PowerZero DEF AllBits, Boolean, BitsValue

\* The lower bits of a number.
LEMMA LowBits ==
  ASSUME NEW n \in Nat, NEW v \in Int, NEW a, \A i \in 0 .. n - 1 : a[i] = Bit(v, i)
  PROVE  BitsValue(a, n) = v % 2 ^ n
<1>1. PICK o \in Nat : o = 0
  OBVIOUS
<1>2. BitsFrom(a, v, o, n)
  BY <1>1 DEF BitsFrom
<1>3. Digits(a, 2, n)[0] = (v \div 2 ^ o) % 2 ^ n
  BY <1>2, BitsOfQuotient
<1>4. v \div 1 = v
  OBVIOUS
<1> QED
  BY <1>1, <1>3, <1>4, PowerZero DEF BitsValue

\* The columns of a jump offset give the offset back.
LEMMA JumpGadget ==
  ASSUME JumpBits \in Nat, NEW v \in Extended(JumpSign), v % 2 = 0, NEW r, HasJump(r, v)
  PROVE  /\ AllBits(r.imm_high12_bits) /\ r.imm_high12 = BitsValue(r.imm_high12_bits, UpperShift)
         /\ AllBits(r.imm_lo8_bits) /\ r.imm_lo8 = BitsValue(r.imm_lo8_bits, JumpBits)
         /\ JumpOffset(r.imm_high12_bits, r.imm_lo8_bits) = v
<1>1. PICK k \in Nat : k = UpperShift - 2 /\ k + 1 = UpperShift - 1 /\ (k + 1) + 1 = UpperShift
  BY Geometry
<1>2. PICK a \in Nat \ {0} : a = 2 ^ (UpperShift - 2) /\ 2 ^ (UpperShift - 1) = 2 * a
                              /\ 2 ^ UpperShift = 4 * a
  <2>1. 2 ^ k \in Nat \ {0} /\ 2 ^ (k + 1) = 2 * 2 ^ k /\ k + 1 \in Nat
    BY TwoPowers, Power
  <2>2. 2 ^ ((k + 1) + 1) = 2 * 2 ^ (k + 1)
    BY <2>1, TwoPowers
  <2> QED
    BY <1>1, <2>1, <2>2
<1>3. PICK f \in Nat \ {0} : f = 2 ^ UpperShift /\ f = 4 * a
  BY <1>2
<1>c. PICK c2 \in Nat \ {0} : c2 = 2 * a
  BY <1>2
<1>4. PICK p \in Nat \ {0} : p = 2 ^ JumpBits
  BY Power
<1>5. PICK s \in Nat \ {0} : s = 2 ^ JumpSign /\ s = f * p
  <2>1. 2 ^ (UpperShift + JumpBits) = 2 ^ UpperShift * 2 ^ JumpBits
    BY PowersMultiply, Geometry
  <2>2. f * p \in Nat \ {0}
    BY <1>3, <1>4
  <2> QED
    BY <1>3, <1>4, <2>1, <2>2 DEF JumpSign
<1>6. Size = s * f /\ Size \in Nat
  <2>1. PICK j \in Nat : j = JumpSign /\ j + UpperShift = XLEN
    <3>1. UpperShift + JumpBits \in Nat /\ (UpperShift + JumpBits) + UpperShift = XLEN
      BY Geometry DEF JumpBits
    <3> QED
      BY <3>1 DEF JumpSign
  <2>2. 2 ^ (j + UpperShift) = 2 ^ j * 2 ^ UpperShift
    BY PowersMultiply, Geometry
  <2> QED
    BY <1>3, <1>5, <2>1, <2>2, Weights, Geometry DEF Size
<1>7. v \in 0 .. s - 1 \/ v \in Size - s .. Size - 1
  BY <1>5 DEF Extended
<1>8. v \in Nat
  <2>1. s * f >= s
    BY <1>3, <1>5
  <2> QED
    BY <1>6, <1>7, <2>1
<1>9. PICK h \in Nat : h = v \div 2 /\ v = 2 * h
  <2>1. v \div 2 \in Nat /\ v = 2 * (v \div 2) + (v % 2)
    BY <1>8
  <2> QED
    BY <2>1
<1>t. PICK two \in Nat \ {0} : two = 2
  OBVIOUS
<1>10. PICK c \in Int, lo2 \in Int :
         c = h \div a /\ lo2 = h % a /\ lo2 \in 0 .. a - 1 /\ h = a * c + lo2
  BY <1>9, DivisionParts
<1>11. PICK d \in Int, b1 \in Int :
         d = c \div two /\ b1 = c % two /\ b1 \in 0 .. two - 1 /\ c = two * d + b1
  BY DivisionParts
<1>12. PICK e \in Int, lo \in Int :
         e = d \div p /\ lo = d % p /\ lo \in 0 .. p - 1 /\ d = p * e + lo
  BY DivisionParts
<1>13. c = v \div (2 * a) /\ d = v \div f /\ e = v \div s
  <2>1. h = v \div two
    BY <1>9, <1>t
  <2>0. v \in Int /\ c = h \div a /\ e = d \div p
    BY <1>8, <1>10, <1>12
  <2>2. c = v \div (two * a)
    BY <2>0, <2>1, QuotientOfQuotient
  <2>3. PICK g \in Nat \ {0} : g = two * a
    BY <1>t
  <2>4. d = v \div (g * two)
    BY <1>8, <1>11, <2>2, <2>3, QuotientOfQuotient
  <2>5. g * two = f
    BY <1>3, <1>t, <2>3
  <2>6. e = v \div (f * p)
    <3>1. d = v \div f
      BY <2>4, <2>5
    <3> QED
      BY <2>0, <3>1, QuotientOfQuotient
  <2> QED
    BY <1>5, <1>t, <2>2, <2>4, <2>5, <2>6
<1>14. e = IF v < s THEN 0 ELSE f - 1
  <2>1. CASE v < s
    BY <1>8, <1>13, <2>1
  <2>2. CASE ~(v < s)
    <3>1. v \in Size - s .. Size - 1
      BY <1>7, <1>8, <2>2
    <3>2. PICK m \in Int : m = f - 1
      OBVIOUS
    <3>3. s * (f - 1) = s * f - s
      OBVIOUS
    <3>4. PICK n \in 0 .. s - 1 : n = v - s * m
      <4>1. v - s * m \in 0 .. s - 1
        BY <1>6, <3>1, <3>2, <3>3
      <4> QED
        BY <4>1
    <3>5. v = s * m + n /\ v \in Int
      BY <1>8, <3>4
    <3>6. v \div s = m
      BY <3>5, DivisionUnique
    <3> QED
      BY <1>13, <2>2, <3>2, <3>6
  <2> QED
    BY <2>1, <2>2
<1>15. PICK g \in {0, 1} : g = e % 2 /\ g = (IF v < s THEN 0 ELSE 1)
  <2>1. CASE v < s
    BY <1>14, <2>1
  <2>2. CASE ~(v < s)
    <3>1. e = 2 * (2 * a) - 1
      BY <1>3, <1>14, <2>2
    <3>2. (2 * (2 * a) - 1) % 2 = 1
      OBVIOUS
    <3> QED
      BY <2>2, <3>1, <3>2
  <2> QED
    BY <2>1, <2>2
<1>16. s * e = g * (Size - s)
  <2>1. CASE v < s
    BY <1>6, <1>14, <1>15, <2>1
  <2>2. CASE ~(v < s)
    <3>1. s * (f - 1) = s * f - s
      OBVIOUS
    <3> QED
      BY <1>6, <1>14, <1>15, <2>2, <3>1
  <2> QED
    BY <2>1, <2>2
<1>17. v = 2 * lo2 + b1 * (2 * a) + lo * f + g * (Size - s)
  <2>1. v = 2 * (a * c) + 2 * lo2
    BY <1>9, <1>10
  <2>2. a * c = a * (2 * d + b1)
    BY <1>11, <1>t
  <2>3. a * (2 * d + b1) = 2 * (a * d) + a * b1
    OBVIOUS
  <2>4. v = 4 * (a * d) + b1 * (2 * a) + 2 * lo2
    BY <2>1, <2>2, <2>3
  <2>5. 4 * (a * d) = f * d
    BY <1>3
  <2>6. f * (p * e + lo) = (f * p) * e + lo * f
    OBVIOUS
  <2>7. f * d = s * e + lo * f
    BY <1>5, <1>12, <2>6
  <2> QED
    BY <1>16, <2>4, <2>5, <2>7, <1>6
<1>18. PICK hi \in Nat : hi = JumpFields(v).high12 /\ hi = lo2 + b1 * a + g * (2 * a)
  <2>1. Bit(v, UpperShift - 1) = b1
    BY <1>2, <1>11, <1>13, <1>t DEF Bit
  <2>2. Bit(v, JumpSign) = g
    BY <1>5, <1>13, <1>15 DEF Bit
  <2>3. JumpFields(v).high12 = lo2 + b1 * a + g * (2 * a)
    BY <1>2, <1>9, <1>10, <2>1, <2>2 DEF JumpFields
  <2>4. lo2 + b1 * a + g * (2 * a) \in Nat
    BY <1>10, <1>11
  <2> QED
    BY <2>3, <2>4
<1>19. JumpFields(v).lo8 = lo
  BY <1>3, <1>4, <1>12, <1>13 DEF JumpFields
<1>20. hi < 4 * a
  BY <1>10, <1>11, <1>15, <1>18, <1>t
<1>21. /\ AllBits(r.imm_high12_bits) /\ BitsValue(r.imm_high12_bits, UpperShift) = hi
       /\ AllBits(r.imm_lo8_bits) /\ BitsValue(r.imm_lo8_bits, JumpBits) = lo
  <2>1. hi < 2 ^ UpperShift /\ r.imm_high12_bits = [i \in 0 .. UpperShift - 1 |-> Bit(hi, i)]
    BY <1>2, <1>18, <1>20 DEF HasJump
  <2>2. /\ lo < 2 ^ JumpBits /\ lo \in Nat
        /\ r.imm_lo8_bits = [i \in 0 .. JumpBits - 1 |-> Bit(lo, i)]
    BY <1>4, <1>12, <1>19 DEF HasJump
  <2>3. AllBits(r.imm_high12_bits) /\ BitsValue(r.imm_high12_bits, UpperShift) = hi
    BY <2>1, BitsOfNumber, Geometry
  <2>4. AllBits(r.imm_lo8_bits) /\ BitsValue(r.imm_lo8_bits, JumpBits) = lo
    BY <2>2, BitsOfNumber
  <2> QED
    BY <2>3, <2>4
<1>22. /\ BitsValue(r.imm_high12_bits, UpperShift - 2) = lo2
       /\ r.imm_high12_bits[UpperShift - 2] = b1
       /\ r.imm_high12_bits[UpperShift - 1] = g
  <2>1. PICK n \in Int : n = b1 + 2 * g
    OBVIOUS
  <2>2. hi = a * n + lo2 /\ hi \in Int
    <3>1. a * (b1 + 2 * g) = b1 * a + g * (2 * a)
      OBVIOUS
    <3> QED
      BY <1>18, <2>1, <3>1
  <2>3. hi \div a = n /\ hi % a = lo2
    BY <1>10, <2>2, DivisionUnique
  <2>4. \A i \in 0 .. k - 1 : r.imm_high12_bits[i] = Bit(hi, i)
    BY <1>1, <1>18 DEF HasJump
  <2>5. BitsValue(r.imm_high12_bits, k) = hi % 2 ^ k
    BY <2>2, <2>4, LowBits
  <2>6. n % 2 = b1
    BY <1>11, <1>15, <1>t, <2>1
  <2>7. r.imm_high12_bits[UpperShift - 2] = b1
    <3>1. UpperShift - 2 \in 0 .. UpperShift - 1
      BY <1>1
    <3>2. r.imm_high12_bits[UpperShift - 2] = (hi \div 2 ^ (UpperShift - 2)) % 2
      BY <1>18, <3>1 DEF HasJump, Bit
    <3> QED
      BY <1>2, <2>3, <2>6, <3>2
  <2>8. r.imm_high12_bits[UpperShift - 1] = g
    <3>1. UpperShift - 1 \in 0 .. UpperShift - 1
      BY <1>1
    <3>2. r.imm_high12_bits[UpperShift - 1] = (hi \div 2 ^ (UpperShift - 1)) % 2
      BY <1>18, <3>1 DEF HasJump, Bit
    <3>3. PICK m \in 0 .. c2 - 1 : m = lo2 + b1 * a
      <4>1. lo2 + b1 * a \in 0 .. c2 - 1
        <5>1. lo2 \in 0 .. a - 1 /\ b1 \in {0, 1}
          BY <1>10, <1>11, <1>t
        <5> QED
          BY <1>c, <5>1
      <4> QED
        BY <4>1
    <3>4. hi = c2 * g + m /\ g \in Int
      BY <1>c, <1>18, <3>3
    <3>5. hi \div c2 = g
      BY <2>2, <3>4, DivisionUnique
    <3> QED
      BY <1>2, <1>c, <1>15, <3>2, <3>5
  <2> QED
    BY <1>1, <1>2, <2>3, <2>5, <2>7, <2>8
<1>23. JumpOffset(r.imm_high12_bits, r.imm_lo8_bits)
         = 2 * lo2 + b1 * (2 * a) + lo * f + g * (Size - s)
  BY <1>2, <1>3, <1>5, <1>21, <1>22 DEF JumpOffset
<1> QED
  BY <1>17, <1>18, <1>19, <1>21, <1>23 DEF HasJump

(***************************************************************************)
(* Shifts.                                                                 *)
(***************************************************************************)
\* n is a times b; n is a plus b.
IsProduct(n, a, b) == n = a * b
IsSum(n, a, b)     == n = a + b

\* A multiple of c and what is less than c, below a multiple of c.
LEMMA Scaled ==
  ASSUME NEW c \in Nat \ {0}, NEW p \in Nat \ {0}, NEW b \in Nat \ {0}, IsProduct(b, c, p),
         NEW y \in Int, NEW g \in 0 .. c - 1, NEW z \in Int, IsProduct(z, c, y),
         NEW w \in Int, IsSum(w, z, g)
  PROVE  w % b = (z % b) + g /\ z % b = c * (y % p)
<1>0. b = c * p /\ z = c * y /\ w = z + g
  BY DEF IsProduct, IsSum
<1>1. PICK t \in Int, s \in Int : t = y \div p /\ s = y % p /\ s \in 0 .. p - 1 /\ y = p * t + s
  BY DivisionParts
<1>2. PICK n \in Nat : n = c * s
  BY <1>1
<1>3. n + g \in 0 .. b - 1 /\ n \in 0 .. b - 1
  <2>1. PICK d \in Nat : p = s + 1 + d
    <3>1. p - s - 1 \in Nat /\ p = s + 1 + (p - s - 1)
      BY <1>1
    <3> QED
      BY <3>1
  <2>2. c * (s + 1 + d) = c * s + c + c * d /\ c * d \in Nat
    BY <1>1
  <2> QED
    BY <1>0, <1>2, <2>1, <2>2
<1>4. z = b * t + n
  <2>1. c * (p * t + s) = (c * p) * t + c * s
    OBVIOUS
  <2> QED
    BY <1>0, <1>1, <1>2, <2>1
<1>5. z % b = n
  BY <1>3, <1>4, DivisionUnique
<1>6. PICK m \in 0 .. b - 1 : m = n + g
  BY <1>3
<1>7. w = b * t + m
  BY <1>0, <1>4, <1>6
<1>8. w % b = m
  BY <1>7, DivisionUnique
<1> QED
  BY <1>1, <1>2, <1>5, <1>6, <1>8

\* A shift amount is a number of limbs and a number of bits within a limb.
LEMMA ShiftAmount ==
  ASSUME NEW k \in 0 .. XLEN - 1
  PROVE  /\ k % LimbBits \in 0 .. LimbBits - 1 /\ k \div LimbBits \in Limb
         /\ k = LimbBits * (k \div LimbBits) + (k % LimbBits)
         /\ 2 ^ (k % LimbBits) \in Nat \ {0} /\ 2 ^ (LimbBits - (k % LimbBits)) \in Nat \ {0}
         /\ Base = 2 ^ (k % LimbBits) * 2 ^ (LimbBits - (k % LimbBits))
         /\ 2 ^ k = Weight(k \div LimbBits) * 2 ^ (k % LimbBits)
<1>1. PICK l \in Nat \ {0} : l = LimbBits
  BY Geometry
<1>2. k \in Int /\ k \in Nat
  BY Geometry
<1>3. PICK q \in Int, r \in Int : q = k \div l /\ r = k % l /\ r \in 0 .. l - 1 /\ k = l * q + r
  BY <1>2, DivisionParts
<1>4. q >= 0
  <2>1. q <= -1 => l * q <= -l
    OBVIOUS
  <2> QED
    BY <1>2, <1>3, <2>1
<1>5. q < NumLimbs
  <2>1. PICK n \in Nat : n = NumLimbs /\ k < l * n
    BY <1>1, Geometry
  <2>2. q >= n => l * q >= l * n
    <3>1. ASSUME NEW d \in Nat
          PROVE  l * (n + d) = l * n + l * d /\ l * d >= 0
      OBVIOUS
    <3>2. q >= n => q - n \in Nat /\ q = n + (q - n)
      OBVIOUS
    <3> QED
      BY <3>1, <3>2
  <2> QED
    BY <1>3, <2>1, <2>2
<1>6. q \in Limb /\ q \in Nat /\ r \in Nat
  BY <1>3, <1>4, <1>5, Geometry
<1>7. PICK d \in Nat : d = l - r /\ r + d = l
  <2>1. l - r \in Nat /\ r + (l - r) = l
    BY <1>3
  <2> QED
    BY <2>1
<1>8. 2 ^ (r + d) = 2 ^ r * 2 ^ d /\ 2 ^ r \in Nat \ {0} /\ 2 ^ d \in Nat \ {0}
  BY <1>6, PowersMultiply, Power
<1>9. PICK m \in Nat : m = l * q
  BY <1>6
<1>10. 2 ^ (m + r) = 2 ^ m * 2 ^ r
  BY <1>6, PowersMultiply
<1> QED
  BY <1>1, <1>3, <1>6, <1>7, <1>8, <1>9, <1>10 DEF Weight, Base

\* A limb of a number times Weight(m) * p: the limb m below it and what the
\* next one below gives.
LEMMA LeftLimb ==
  ASSUME NEW x \in Int, NEW m \in Limb, NEW p \in Nat \ {0}, NEW c \in Nat \ {0}, Base = p * c,
         NEW v \in Int, v = x * (Weight(m) * p), NEW i \in Limb
  PROVE  /\ i < m => LimbsOf(v)[i] = 0
         /\ i = m => LimbsOf(v)[i] = (LimbsOf(x)[0] * p) % Base
         /\ \A j \in Limb : i = m + j /\ j > 0 =>
              LimbsOf(v)[i] = ((LimbsOf(x)[j] * p) % Base) + (LimbsOf(x)[j - 1] \div c)
<1>0. m \in Nat /\ i \in Nat
  BY Geometry
<1>1. PICK b \in Nat \ {0} : b = Base
  BY Weights
<1>2. PICK wm \in Nat \ {0} : wm = Weight(m)
  BY <1>0, Weights
<1>3. PICK wi \in Nat \ {0} : wi = Weight(i)
  BY <1>0, Weights
<1>4. LimbsOf(v)[i] = (v \div wi) % b
  BY <1>1, <1>3, LimbStep
<1>5. ASSUME i < m
      PROVE  LimbsOf(v)[i] = 0
  <2>1. PICK d \in Nat : m = (i + 1) + d
    <3>1. m - (i + 1) \in Nat /\ m = (i + 1) + (m - (i + 1))
      BY <1>0, <1>5
    <3> QED
      BY <3>1
  <2>2. PICK wd \in Nat \ {0} : wd = Weight(d)
    BY Weights
  <2>3. wm = (wi * b) * wd
    <3>1. PICK n \in Nat : n = i + 1
      BY <1>0
    <3>2. Weight(n + d) = Weight(n) * Weight(d)
      BY WeightsMultiply
    <3>3. Weight(i + 1) = wi * b
      BY <1>0, <1>1, <1>3, Weights
    <3> QED
      BY <1>2, <2>1, <2>2, <3>1, <3>2, <3>3
  <2>4. PICK y \in Int : y = wd * (x * p)
    OBVIOUS
  <2>5. PICK z \in Int : z = b * y
    OBVIOUS
  <2>6. PICK o \in Int : o = 0 /\ o \in 0 .. wi - 1 /\ o \in 0 .. b - 1
    OBVIOUS
  <2>7. v = wi * z + o
    <3>1. x * (((wi * b) * wd) * p) = wi * (b * (wd * (x * p)))
      OBVIOUS
    <3> QED
      BY <1>2, <2>3, <2>4, <2>5, <2>6, <3>1
  <2>8. v \div wi = z
    BY <2>6, <2>7, DivisionUnique
  <2>9. z = b * y + o
    BY <2>5, <2>6
  <2>10. z % b = o
    BY <2>6, <2>9, DivisionUnique
  <2> QED
    BY <1>4, <2>6, <2>8, <2>10
<1>6. ASSUME NEW j \in Limb, NEW u \in Int, u = x \div Weight(j)
      PROVE  (p * u) % b = (LimbsOf(x)[j] * p) % b /\ (p * u) % b \in Int
  <2>1. PICK t \in Int : t = x \div Weight(j + 1)
    BY LimbStep
  <2>2. PICK l \in Int : l = LimbsOf(x)[j] /\ u = b * t + l
    <3>1. LimbsOf(x)[j] \in 0 .. b - 1
      BY <1>1, LimbStep
    <3>2. x \div Weight(j) = Base * (x \div Weight(j + 1)) + LimbsOf(x)[j]
      BY LimbStep
    <3> QED
      BY <1>1, <1>6, <2>1, <3>1, <3>2
  <2>3. PICK d \in Int, e \in Int : d = p * t /\ e = l * p
    OBVIOUS
  <2>4. p * u = b * d + e
    <3>1. p * (b * t + l) = b * (p * t) + l * p
      OBVIOUS
    <3> QED
      BY <2>2, <2>3, <3>1
  <2>5. (b * d + e) % b = e % b
    BY AddMultiple
  <2>6. e % b \in Int
    BY Division
  <2> QED
    BY <2>2, <2>3, <2>4, <2>5, <2>6
<1>7. ASSUME i = m
      PROVE  LimbsOf(v)[i] = (LimbsOf(x)[0] * p) % Base
  <2>1. PICK y \in Int : y = x * p
    OBVIOUS
  <2>2. PICK o \in Int : o = 0 /\ o \in 0 .. wi - 1
    OBVIOUS
  <2>3. v = wi * y + o
    <3>1. x * (wi * p) = wi * (x * p)
      OBVIOUS
    <3> QED
      BY <1>2, <1>3, <1>7, <2>1, <2>2, <3>1
  <2>4. v \div wi = y
    BY <2>2, <2>3, DivisionUnique
  <2>5. PICK j \in Limb : j = 0
    BY Geometry
  <2>6. x = x \div Weight(j)
    BY <2>5, QuotientEnds
  <2>7. (p * x) % b = (LimbsOf(x)[j] * p) % b
    BY <1>6, <2>6
  <2>8. p * x = x * p
    OBVIOUS
  <2> QED
    BY <1>1, <1>4, <2>1, <2>4, <2>5, <2>7, <2>8
<1>8. ASSUME NEW j \in Limb, i = m + j, j > 0
      PROVE  LimbsOf(v)[i] = ((LimbsOf(x)[j] * p) % Base) + (LimbsOf(x)[j - 1] \div c)
  <2>1. PICK n \in Limb : n = j - 1 /\ n + 1 = j
    BY <1>8, Geometry
  <2>2. n \in Nat /\ j \in Nat
    BY Geometry
  <2>3. PICK wn \in Nat \ {0} : wn = Weight(n)
    BY <2>2, Weights
  <2>4. wi = wm * (p * (wn * c))
    <3>1. Weight(m + j) = Weight(m) * Weight(j)
      BY <1>0, <2>2, WeightsMultiply
    <3>2. Weight(n + 1) = wn * b
      BY <1>1, <2>2, <2>3, Weights
    <3>3. wn * (p * c) = p * (wn * c)
      OBVIOUS
    <3> QED
      BY <1>1, <1>2, <1>3, <1>8, <2>1, <3>1, <3>2, <3>3
  <2>5. PICK a \in Nat \ {0} : a = wm * p
    BY ONLY wm \in Nat \ {0}, p \in Nat \ {0}
  <2>6. PICK g \in Nat \ {0} : g = wn * c
    BY ONLY wn \in Nat \ {0}, c \in Nat \ {0}
  <2>7. wi = a * g
    <3>1. wm * (p * g) = (wm * p) * g
      OBVIOUS
    <3> QED
      BY <2>4, <2>5, <2>6, <3>1
  <2>8. v \div wi = x \div g
    <3>1. PICK o \in Int : o = 0 /\ o \in 0 .. a - 1
      OBVIOUS
    <3>2. v = a * x + o
      <4>1. x * (wm * p) = (wm * p) * x
        OBVIOUS
      <4> QED
        BY <1>2, <2>5, <3>1, <4>1
    <3>3. v \div a = x
      BY <3>1, <3>2, DivisionUnique
    <3>4. (v \div a) \div g = v \div (a * g)
      BY QuotientOfQuotient
    <3> QED
      BY <2>7, <3>3, <3>4
  <2>9. PICK u \in Int : u = x \div Weight(j)
    BY LimbStep
  <2>10. PICK l \in 0 .. b - 1 : l = LimbsOf(x)[n]
    BY <1>1, LimbStep
  <2>11. PICK w \in Int : w = x \div wn /\ w = b * u + l
    <3>1. /\ x \div Weight(n) \in Int
          /\ x \div Weight(n) = Base * (x \div Weight(n + 1)) + LimbsOf(x)[n]
      BY LimbStep
    <3> QED
      BY <1>1, <2>1, <2>3, <2>9, <2>10, <3>1
  <2>12. PICK h \in Int, r \in Int : h = l \div c /\ r = l % c /\ r \in 0 .. c - 1 /\ l = c * h + r
    <3>1. l \in Int
      OBVIOUS
    <3> QED
      BY <3>1, DivisionParts
  <2>13. h \in 0 .. p - 1
    <3>1. h <= -1 => c * h <= -c
      OBVIOUS
    <3>2. h >= p => c * h >= c * p
      <4>1. ASSUME NEW d \in Nat
            PROVE  c * (p + d) = c * p + c * d /\ c * d >= 0
        OBVIOUS
      <4>2. h >= p => h - p \in Nat /\ h = p + (h - p)
        OBVIOUS
      <4> QED
        BY <4>1, <4>2
    <3>3. c * p = b
      BY <1>1
    <3> QED
      BY <2>12, <3>1, <3>2, <3>3
  <2>14. x \div g = p * u + h
    <3>1. PICK d \in Int : d = p * u
      OBVIOUS
    <3>2. w = c * d + l
      <4>1. (p * c) * u = c * (p * u)
        OBVIOUS
      <4> QED
        BY <1>1, <2>11, <3>1, <4>1
    <3>3. l \in Int
      OBVIOUS
    <3>4. (c * d + l) \div c = d + (l \div c)
      BY <3>3, AddMultiple
    <3>5. w \div c = x \div (wn * c)
      BY <2>11, QuotientOfQuotient
    <3> QED
      BY <2>6, <2>12, <3>1, <3>2, <3>4, <3>5
  <2>15. (p * u + h) % b = ((p * u) % b) + h
    <3>1. PICK z \in Int, t \in Int : z = p * u /\ t = z + h
      OBVIOUS
    <3>2. IsProduct(b, p, c) /\ IsProduct(z, p, u) /\ IsSum(t, z, h)
      BY <1>1, <3>1 DEF IsProduct, IsSum
    <3>3. t % b = (z % b) + h
      BY <2>13, <3>2, Scaled
    <3> QED
      BY <3>1, <3>3
  <2>16. (p * u) % b = (LimbsOf(x)[j] * p) % b
    BY <1>6, <2>9
  <2> QED
    BY <1>1, <1>4, <2>1, <2>8, <2>10, <2>12, <2>14, <2>15, <2>16
<1> QED
  BY <1>5, <1>7, <1>8

\* A limb of a number divided by Weight(m) * p, rounded down: the limb m above
\* it and what the next one above gives.  Past the top limb of a word that has
\* a sign subtracted, all limbs are those of the sign.
LEMMA RightLimb ==
  ASSUME NEW x \in Int, NEW m \in Limb, NEW p \in Nat \ {0}, NEW c \in Nat \ {0}, Base = p * c,
         NEW v \in Int, v = x \div (Weight(m) * p), NEW i \in Limb
  PROVE  /\ \A j \in Limb : i + m = j /\ j # Top =>
              LimbsOf(v)[i] = (LimbsOf(x)[j] \div p) + ((LimbsOf(x)[j + 1] * c) % Base)
         /\ i + m = Top =>
              LimbsOf(v)[i] = (LimbsOf(x)[Top] \div p) + (((x \div Size) * c) % Base)
         /\ i + m > Top => LimbsOf(v)[i] = ((x \div Weight(i + m)) \div p) % Base
<1>0. m \in Nat /\ i \in Nat
  BY Geometry
<1>1. PICK b \in Nat \ {0} : b = Base
  BY Weights
<1>2. PICK wm \in Nat \ {0} : wm = Weight(m)
  BY <1>0, Weights
<1>3. PICK wi \in Nat \ {0} : wi = Weight(i)
  BY <1>0, Weights
<1>4. LimbsOf(v)[i] = (v \div wi) % b
  BY <1>1, <1>3, LimbStep
<1>5. PICK w \in Nat \ {0} : w = Weight(i + m) /\ w = wi * wm
  <2>1. Weight(i + m) = Weight(i) * Weight(m) /\ i + m \in Nat
    BY <1>0, WeightsMultiply
  <2>2. Weight(i + m) \in Nat \ {0}
    BY <2>1, Weights
  <2> QED
    BY <1>2, <1>3, <2>1, <2>2
<1>6. PICK u \in Int : u = x \div w
  BY Division
<1>7. v \div wi = u \div p
  <2>1. PICK a \in Nat \ {0} : a = wm * p
    BY ONLY wm \in Nat \ {0}, p \in Nat \ {0}
  <2>2. v = x \div a
    BY <1>2, <2>1
  <2>3. v \div wi = x \div (a * wi)
    BY ONLY a \in Nat \ {0}, wi \in Nat \ {0}, x \in Int, <2>2, QuotientOfQuotient
  <2>4. u \div p = x \div (w * p)
    BY ONLY w \in Nat \ {0}, p \in Nat \ {0}, x \in Int, <1>6, QuotientOfQuotient
  <2>5. (wi * wm) * p = (wm * p) * wi
    OBVIOUS
  <2> QED
    BY <1>5, <2>1, <2>3, <2>4, <2>5
<1>8. ASSUME NEW j \in Limb, i + m = j, NEW t \in Int, t = x \div Weight(j + 1)
      PROVE  /\ LimbsOf(v)[i] = (LimbsOf(x)[j] \div p) + ((c * t) % b)
  <2>1. PICK l \in 0 .. b - 1 : l = LimbsOf(x)[j]
    BY <1>1, LimbStep
  <2>2. u = b * t + l
    <3>1. x \div Weight(j) = Base * (x \div Weight(j + 1)) + LimbsOf(x)[j]
      BY LimbStep
    <3> QED
      BY <1>1, <1>5, <1>6, <1>8, <2>1, <3>1
  <2>3. PICK h \in Int, r \in Int : h = l \div p /\ r = l % p /\ r \in 0 .. p - 1 /\ l = p * h + r
    <3>1. l \in Int
      OBVIOUS
    <3> QED
      BY <3>1, DivisionParts
  <2>4. h \in 0 .. c - 1
    <3>1. h <= -1 => p * h <= -p
      OBVIOUS
    <3>2. h >= c => p * h >= p * c
      <4>1. ASSUME NEW d \in Nat
            PROVE  p * (c + d) = p * c + p * d /\ p * d >= 0
        OBVIOUS
      <4>2. h >= c => h - c \in Nat /\ h = c + (h - c)
        OBVIOUS
      <4> QED
        BY <4>1, <4>2
    <3>3. p * c = b
      BY <1>1
    <3> QED
      BY <2>3, <3>1, <3>2, <3>3
  <2>5. u \div p = c * t + h
    <3>1. PICK d \in Int : d = c * t
      OBVIOUS
    <3>2. u = p * d + l
      <4>1. (p * c) * t = p * (c * t)
        OBVIOUS
      <4> QED
        BY <1>1, <2>2, <3>1, <4>1
    <3>3. l \in Int
      OBVIOUS
    <3>4. (p * d + l) \div p = d + (l \div p)
      BY <3>3, AddMultiple
    <3> QED
      BY <2>3, <3>1, <3>2, <3>4
  <2>7. (c * t + h) % b = ((c * t) % b) + h
    <3>1. PICK z \in Int, y \in Int : z = c * t /\ y = z + h
      OBVIOUS
    <3>2. b = c * p
      BY <1>1
    <3>3. IsProduct(b, c, p) /\ IsProduct(z, c, t) /\ IsSum(y, z, h)
      BY <3>1, <3>2 DEF IsProduct, IsSum
    <3>4. y % b = (z % b) + h
      BY <2>4, <3>3, Scaled
    <3> QED
      BY <3>1, <3>4
  <2>8. (c * t) % b \in Int
    <3>1. PICK d \in Int : d = c * t
      OBVIOUS
    <3>2. d % b \in Int
      BY Division
    <3> QED
      BY <3>1, <3>2
  <2> QED
    BY <1>4, <1>7, <2>1, <2>3, <2>5, <2>7, <2>8
<1>9. ASSUME NEW j \in Limb, i + m = j, j # Top
      PROVE  LimbsOf(v)[i] = (LimbsOf(x)[j] \div p) + ((LimbsOf(x)[j + 1] * c) % Base)
  <2>1. PICK n \in Limb : n = j + 1
    BY <1>9, Geometry
  <2>2. PICK t \in Int : t = x \div Weight(j + 1)
    BY LimbStep
  <2>3. LimbsOf(v)[i] = (LimbsOf(x)[j] \div p) + ((c * t) % b)
    BY <1>8, <1>9, <2>2
  <2>4. PICK t2 \in Int : t2 = x \div Weight(n + 1)
    BY LimbStep
  <2>5. PICK l \in 0 .. b - 1 : l = LimbsOf(x)[n]
    BY <1>1, LimbStep
  <2>6. t = b * t2 + l
    <3>1. x \div Weight(n) = Base * (x \div Weight(n + 1)) + LimbsOf(x)[n]
      BY LimbStep
    <3> QED
      BY <1>1, <2>1, <2>2, <2>4, <2>5, <3>1
  <2>7. PICK d \in Int, e \in Int : d = c * t2 /\ e = l * c
    OBVIOUS
  <2>8. c * t = b * d + e
    <3>1. c * (b * t2 + l) = b * (c * t2) + l * c
      OBVIOUS
    <3> QED
      BY <2>6, <2>7, <3>1
  <2>9. (b * d + e) % b = e % b
    BY AddMultiple
  <2> QED
    BY <1>1, <2>1, <2>3, <2>5, <2>7, <2>8, <2>9
<1>10. ASSUME i + m = Top
       PROVE  LimbsOf(v)[i] = (LimbsOf(x)[Top] \div p) + (((x \div Size) * c) % Base)
  <2>1. PICK j \in Limb : j = Top /\ j + 1 = NumLimbs
    BY Geometry
  <2>2. PICK t \in Int : t = x \div Weight(j + 1)
    BY LimbStep
  <2>3. LimbsOf(v)[i] = (LimbsOf(x)[j] \div p) + ((c * t) % b)
    BY <1>8, <1>10, <2>1, <2>2
  <2>4. t = x \div Size
    BY <2>1, <2>2, QuotientEnds
  <2>5. c * t = t * c
    OBVIOUS
  <2> QED
    BY <1>1, <2>1, <2>3, <2>4, <2>5
<1> QED
  BY <1>1, <1>4, <1>5, <1>6, <1>7, <1>9, <1>10

\* Past the top limb a word has nothing, and less its sign it is all ones.
LEMMA PastTheTop ==
  ASSUME NEW w \in 0 .. Size - 1, NEW g \in {0, 1}, NEW x \in Int, x = w - g * Size, NEW i \in Nat,
         i >= NumLimbs
  PROVE  x \div Weight(i) = 0 - g
<1>0. w \in Int /\ NumLimbs \in Nat
  BY Weights, Geometry
<1>1. PICK s \in Nat \ {0} : s = Size
  BY Weights, Geometry
<1>2. PICK v \in Nat \ {0} : v = Weight(i) /\ v >= s
  <2>1. PICK d \in Nat : i = NumLimbs + d
    <3>1. i - NumLimbs \in Nat /\ i = NumLimbs + (i - NumLimbs)
      BY <1>0
    <3> QED
      BY <3>1
  <2>2. /\ Weight(NumLimbs + d) = Weight(NumLimbs) * Weight(d)
        /\ Weight(NumLimbs) \in Nat \ {0} /\ Weight(d) \in Nat \ {0}
    BY <1>0, WeightsMultiply, Weights
  <2>3. Weight(NumLimbs) * Weight(d) >= Weight(NumLimbs)
    BY <2>2
  <2>4. Weight(i) \in Nat \ {0}
    BY Weights
  <2> QED
    BY <1>1, <2>1, <2>2, <2>3, <2>4, Weights
<1>3. PICK k \in Int : k = 0 - g
  OBVIOUS
<1>4. PICK r \in 0 .. v - 1 : r = x + v * g
  <2>1. CASE g = 0
    <3>1. x = w /\ v * 0 = 0 /\ x \in 0 .. v - 1
      BY <1>0, <1>1, <1>2, <2>1
    <3> QED
      BY <2>1, <3>1
  <2>2. CASE g = 1
    <3>1. x = w - s /\ v * 1 = v /\ x + v \in 0 .. v - 1
      BY <1>0, <1>1, <1>2, <2>2
    <3> QED
      BY <2>2, <3>1
  <2> QED
    BY <2>1, <2>2
<1>5. x = v * k + r
  BY <1>3, <1>4
<1>6. x \div v = k
  BY <1>5, DivisionUnique
<1> QED
  BY <1>2, <1>3, <1>6

\* The position of the only 1.
OneHot(f, m) == \A i \in Limb : f[i] = IF i = m THEN 1 ELSE 0

LEMMA PositionOf ==
  ASSUME NEW f, NEW m \in Limb, OneHot(f, m)
  PROVE  Total([i \in Limb |-> i * f[i]], NumLimbs) = m
<1>1. PICK n \in Nat : n = NumLimbs /\ Limb = 0 .. n - 1
  BY Geometry
<1>2. PICK h : h = [i \in Limb |-> i * f[i]]
  OBVIOUS
<1>3. \A i \in 0 .. n - 1 : h[i] = IF i = m THEN m ELSE 0
  BY <1>1, <1>2 DEF OneHot
<1>4. m \in Nat /\ m < n
  BY <1>1
<1>5. OneTerm(h, n, m)
  BY <1>3, <1>4 DEF OneTerm
<1>6. Total(h, n) = m
  BY <1>3, <1>4, <1>5, TotalOfOne
<1> QED
  BY <1>1, <1>2, <1>6

\* r selects a shift by k.
HasShift(r, k) ==
  /\ r.bit_shamt = k % LimbBits /\ r.byte_shamt = k \div LimbBits
  /\ r.is_bs = [i \in Limb |-> Truth(i = k \div LimbBits)]

LEMMA SelectGadget ==
  ASSUME NEW k \in 0 .. XLEN - 1, NEW r, HasShift(r, k)
  PROVE  SelectsByteShift(r)
<1>1. PICK m \in Limb : m = k \div LimbBits
  BY ShiftAmount
<1>2. m \in Nat /\ m < NumLimbs /\ NumLimbs \in Nat
  BY Geometry
<1>3. \A i \in Limb : r.is_bs[i] = IF i = m THEN 1 ELSE 0
  BY <1>1 DEF HasShift, Truth
<1>4. DOMAIN r.is_bs = Limb
  BY DEF HasShift
<1>5. Total(r.is_bs, NumLimbs) = 1
  <2>1. OneTerm(r.is_bs, NumLimbs, m)
    BY <1>3, Geometry DEF OneTerm
  <2>2. Total(r.is_bs, NumLimbs) = IF m < NumLimbs THEN r.is_bs[m] ELSE 0
    BY <1>2, <2>1, TotalOfOne
  <2> QED
    BY <1>2, <1>3, <2>2
<1>6. Total([i \in Limb |-> i * r.is_bs[i]], NumLimbs) = m
  BY <1>3, PositionOf DEF OneHot
<1> QED
  BY <1>1, <1>3, <1>4, <1>5, <1>6 DEF SelectsByteShift, AllBits, Boolean, HasShift

\* r has the limbs of x shifted to the left.
HasLeft(r, x, k) ==
  /\ r.shifted_bytes = [i \in Limb |-> (LimbsOf(x)[i] * 2 ^ (k % LimbBits)) % Base]
  /\ r.carry_bytes = [i \in Limb |-> LimbsOf(x)[i] \div 2 ^ (LimbBits - (k % LimbBits))]
  /\ r.rd_new_value = LimbsOf((x * 2 ^ k) % Size)

LEMMA LeftGadget ==
  ASSUME NEW k \in 0 .. XLEN - 1, NEW x \in 0 .. Size - 1, NEW r, HasShift(r, k), HasLeft(r, x, k)
  PROVE  ShiftsLeft(r)
<1>0. x \in Int
  BY Weights, Geometry
<1>1. PICK m \in Limb : m = k \div LimbBits
  BY ShiftAmount
<1>2. PICK p \in Nat \ {0} : p = 2 ^ (k % LimbBits)
  BY ShiftAmount
<1>3. PICK c \in Nat \ {0} : c = 2 ^ (LimbBits - (k % LimbBits))
  BY ShiftAmount
<1>4. Base = p * c /\ 2 ^ k = Weight(m) * p
  BY <1>1, <1>2, <1>3, ShiftAmount
<1>5. PICK v \in Int : v = x * (Weight(m) * p)
  <2>a. m \in Nat
    BY Geometry
  <2>b. Weight(m) \in Nat \ {0}
    BY <2>a, Weights
  <2>1. PICK w \in Nat : w = Weight(m)
    BY <2>b
  <2>2. x * (w * p) \in Int
    BY <1>0
  <2> QED
    BY <2>1, <2>2
<1>6. r.rd_new_value = LimbsOf(v)
  BY <1>4, <1>5, LimbsOfWrapped DEF HasLeft
<1>b. PICK b \in Nat \ {0} : b = Base
  BY Weights
<1> DEFINE inter == [i \in Limb |-> r.shifted_bytes[i] + CarryIn(r.carry_bytes, i, 0)]
<1>7. ASSUME NEW i \in Limb
      PROVE  /\ inter[i] = ((LimbsOf(x)[i] * p) % Base)
                             + (IF i = 0 THEN 0 ELSE LimbsOf(x)[i - 1] \div c)
             /\ inter[i] \in Int
  <2>1. /\ i # 0 => i - 1 \in Limb
    BY Geometry
  <2>2. r.shifted_bytes[i] = (LimbsOf(x)[i] * p) % Base
    BY <1>2 DEF HasLeft
  <2>3. i # 0 => r.carry_bytes[i - 1] = LimbsOf(x)[i - 1] \div c
    BY <1>3, <2>1 DEF HasLeft
  <2>4. (LimbsOf(x)[i] * p) % Base \in Int
    <3>1. PICK l \in Int : l = LimbsOf(x)[i]
      BY <1>0, LimbInt
    <3>2. PICK e \in Int : e = l * p
      OBVIOUS
    <3>3. e % b \in Int
      BY Division
    <3> QED
      BY <1>b, <3>1, <3>2, <3>3
  <2>5. i # 0 => LimbsOf(x)[i - 1] \div c \in Int
    <3>1. ASSUME i # 0
          PROVE  LimbsOf(x)[i - 1] \div c \in Int
      <4>1. PICK j \in Limb : j = i - 1
        BY <2>1, <3>1
      <4>2. PICK l \in Int : l = LimbsOf(x)[j]
        BY <1>0, LimbInt
      <4>3. l \div c \in Int
        BY Division
      <4> QED
        BY <4>1, <4>2, <4>3
    <3> QED
      BY <3>1
  <2> QED
    BY <2>2, <2>3, <2>4, <2>5 DEF CarryIn
<1> HIDE DEF inter
<1>8. ASSUME NEW i \in Limb
      PROVE  r.rd_new_value[i] = Total([j \in 0 .. i |-> r.is_bs[j] * inter[i - j]], i + 1)
  <2> DEFINE f == [j \in 0 .. i |-> r.is_bs[j] * inter[i - j]]
  <2>0. i \in Nat /\ i < NumLimbs /\ m \in Nat /\ i + 1 \in Nat /\ (i + 1) - 1 = i
    BY Geometry
  <2>1. ASSUME NEW j \in 0 .. i
        PROVE  f[j] \in Int /\ f[j] = IF j = m THEN inter[i - j] ELSE 0
    <3>1. j \in Limb /\ i - j \in Limb
      BY <2>0, Geometry
    <3>2. r.is_bs[j] = IF j = m THEN 1 ELSE 0
      BY <1>1, <3>1 DEF HasShift, Truth
    <3>3. f[j] = r.is_bs[j] * inter[i - j]
      OBVIOUS
    <3>4. inter[i - j] \in Int
      BY <1>7, <3>1
    <3> HIDE DEF f
    <3> QED
      BY <3>2, <3>3, <3>4
  <2> HIDE DEF f
  <2>2. PICK n \in Nat : n = i + 1
    BY <2>0
  <2>3. OneTerm(f, n, m)
    BY <2>0, <2>1, <2>2 DEF OneTerm
  <2>4. Total(f, n) = IF m < n THEN f[m] ELSE 0
    BY <2>0, <2>3, TotalOfOne
  <2>5. Total(f, n) = IF m <= i THEN inter[i - m] ELSE 0
    BY <2>0, <2>1, <2>2, <2>4
  <2>6. /\ i < m => LimbsOf(v)[i] = 0
        /\ i = m => LimbsOf(v)[i] = (LimbsOf(x)[0] * p) % Base
        /\ \A j \in Limb : i = m + j /\ j > 0 =>
             LimbsOf(v)[i] = ((LimbsOf(x)[j] * p) % Base) + (LimbsOf(x)[j - 1] \div c)
    BY <1>0, <1>4, <1>5, LeftLimb
  <2>7. LimbsOf(v)[i] = IF m <= i THEN inter[i - m] ELSE 0
    <3>1. CASE i < m
      BY <2>0, <2>6, <3>1
    <3>2. CASE i = m
      <4>1. PICK o \in Limb : o = 0 /\ i - m = o
        BY <2>0, <3>2, Geometry
      <4>2. inter[o] = ((LimbsOf(x)[o] * p) % Base) + 0 /\ inter[o] \in Int
        BY <1>7, <4>1
      <4>3. (LimbsOf(x)[o] * p) % Base \in Int
        <5>1. PICK l \in Int : l = LimbsOf(x)[o]
          BY <1>0, LimbInt
        <5>2. PICK e \in Int : e = l * p
          OBVIOUS
        <5>3. e % b \in Int
          BY Division
        <5> QED
          BY <1>b, <5>1, <5>2, <5>3
      <4> QED
        BY <2>0, <2>6, <3>2, <4>1, <4>2, <4>3
    <3>3. CASE i > m
      <4>1. PICK j \in Limb : j = i - m /\ i = m + j /\ j > 0
        BY <2>0, <3>3, Geometry
      <4> QED
        BY <1>7, <2>0, <2>6, <3>3, <4>1
    <3> QED
      BY <2>0, <3>1, <3>2, <3>3
  <2>8. r.rd_new_value[i] = Total(f, n)
    BY <1>6, <2>5, <2>7
  <2> QED
    BY <2>2, <2>8 DEF f
<1>9. SelectsByteShift(r)
  BY SelectGadget
<1> QED
  BY <1>8, <1>9 DEF ShiftsLeft, inter

\* What enters at the top of a shift to the right: the sign, shifted or whole.
LEMMA SignFills ==
  ASSUME NEW g \in {0, 1}, NEW p \in Nat \ {0}, NEW c \in Nat \ {0}
  PROVE  /\ ((0 - g) * c) % Base = g * (((Base - 1) * c) % Base)
         /\ ((0 - g) \div p) % Base = g * (Base - 1)
         /\ ((Base - 1) * c) % Base \in Int
<1>1. PICK b \in Nat \ {0} : b = Base /\ b >= 4
  BY Weights
<1>2. PICK e \in Int : e = (b - 1) * c
  <2>1. (b - 1) * c \in Int
    OBVIOUS
  <2> QED
    BY <2>1
<1>3. e % b \in Int
  BY Division
<1>4. CASE g = 0
  <2>1. PICK o \in Int : o = 0
    OBVIOUS
  <2>2. o \div b = 0 /\ o % b = 0
    <3>1. o = b * o + o /\ o \in 0 .. b - 1
      BY <2>1
    <3>2. o \div b = o /\ o % b = o
      BY <3>1, DivisionUnique
    <3> QED
      BY <2>1, <3>2
  <2>3. o \div p = 0
    <3>1. o = p * o + o /\ o \in 0 .. p - 1
      BY <2>1
    <3>2. o \div p = o
      BY <3>1, DivisionUnique
    <3> QED
      BY <2>1, <3>2
  <2>4. 0 - g = o /\ o * c = o
    BY <1>4, <2>1
  <2>5. g * (e % b) = 0 /\ g * (b - 1) = 0
    BY <1>3, <1>4
  <2>6. ((0 - g) * c) % b = g * (e % b)
    BY <2>2, <2>4, <2>5
  <2>7. ((0 - g) \div p) % b = g * (b - 1)
    BY <2>1, <2>2, <2>3, <2>4, <2>5
  <2> QED
    BY <1>1, <1>2, <1>3, <2>6, <2>7
<1>5. CASE g = 1
  <2>1. PICK n \in Int : n = 0 - 1
    OBVIOUS
  <2>2. PICK d \in Int : d = n * c
    OBVIOUS
  <2>3. e = b * c + d
    BY <1>2, <2>1, <2>2
  <2>4. (b * c + d) % b = d % b
    <3>1. c \in Int
      OBVIOUS
    <3> QED
      BY <3>1, AddMultiple
  <2>5. n \div p = n
    <3>1. PICK q \in Int : q = p - 1
      OBVIOUS
    <3>2. n = p * n + q /\ q \in 0 .. p - 1
      <4>1. p * n = 0 - p
        BY <2>1
      <4> QED
        BY <2>1, <3>1, <4>1
    <3> QED
      BY <3>2, DivisionUnique
  <2>6. n % b = b - 1
    <3>1. PICK q \in Int : q = b - 1
      OBVIOUS
    <3>2. n = b * n + q /\ q \in 0 .. b - 1
      <4>1. b * n = 0 - b
        BY <2>1
      <4> QED
        BY <2>1, <3>1, <4>1
    <3>3. n % b = q
      BY <3>2, DivisionUnique
    <3> QED
      BY <3>1, <3>3
  <2>7. 0 - g = n
    BY <1>5, <2>1
  <2>8. g * (e % b) = e % b /\ g * (b - 1) = b - 1
    BY <1>3, <1>5
  <2>9. ((0 - g) * c) % b = g * (e % b)
    BY <2>2, <2>3, <2>4, <2>7, <2>8
  <2>10. ((0 - g) \div p) % b = g * (b - 1)
    BY <2>5, <2>6, <2>7, <2>8
  <2> QED
    BY <1>1, <1>2, <1>3, <2>9, <2>10
<1> QED
  BY <1>4, <1>5

\* r has the limbs of x, with or without its sign, shifted to the right.
HasRight(r, x, g, k) ==
  /\ r.shifted_bytes = [i \in Limb |-> LimbsOf(x)[i] \div 2 ^ (k % LimbBits)]
  /\ r.carry_bytes = [i \in Limb |-> (LimbsOf(x)[i] * 2 ^ (LimbBits - (k % LimbBits))) % Base]
  /\ r.rd_new_value = LimbsOf((x - g * Size) \div 2 ^ k)

\* The sign to fill with, and the part of it the shift takes into the top limb.
IntoTop(g, k) == g * (((Base - 1) * 2 ^ (LimbBits - (k % LimbBits))) % Base)

LEMMA RightGadget ==
  ASSUME NEW k \in 0 .. XLEN - 1, NEW w \in 0 .. Size - 1, NEW g \in {0, 1}, NEW r,
         HasShift(r, k), HasRight(r, w, g, k)
  PROVE  ShiftsRight(r, IntoTop(g, k), g * (Base - 1))
<1>0. w \in Int
  BY Weights, Geometry
<1>1. PICK m \in Limb : m = k \div LimbBits
  BY ShiftAmount
<1>2. PICK p \in Nat \ {0} : p = 2 ^ (k % LimbBits)
  BY ShiftAmount
<1>3. PICK c \in Nat \ {0} : c = 2 ^ (LimbBits - (k % LimbBits))
  BY ShiftAmount
<1>4. Base = p * c /\ 2 ^ k = Weight(m) * p
  BY <1>1, <1>2, <1>3, ShiftAmount
<1>5. PICK x \in Int : x = w - g * Size
  <2>1. PICK s \in Int : s = Size
    BY Weights, Geometry
  <2>2. w - g * s \in Int
    BY <1>0
  <2> QED
    BY <2>1, <2>2
<1>6. LimbsOf(x) = LimbsOf(w)
  <2>1. PICK s \in Nat \ {0} : s = Size
    BY Weights, Geometry
  <2>2. PICK h \in Int : h = 0 - g
    OBVIOUS
  <2>3. x = s * h + w /\ w \in 0 .. s - 1
    <3>1. CASE g = 0
      BY <1>0, <1>5, <2>1, <2>2, <3>1
    <3>2. CASE g = 1
      <4>1. s * h = 0 - s
        BY <2>2, <3>2
      <4> QED
        BY <1>0, <1>5, <2>1, <3>2, <4>1
    <3> QED
      BY <3>1, <3>2
  <2>4. x % s = w
    BY <2>3, DivisionUnique
  <2>5. LimbsOf(x % Size) = LimbsOf(x)
    BY LimbsOfWrapped
  <2> QED
    BY <2>1, <2>4, <2>5
<1>7. PICK v \in Int : v = x \div (Weight(m) * p)
  <2>a. m \in Nat
    BY Geometry
  <2>b. Weight(m) \in Nat \ {0}
    BY <2>a, Weights
  <2>1. PICK u \in Nat \ {0} : u = Weight(m) * p
    BY <2>b
  <2>2. x \div u \in Int
    BY Division
  <2> QED
    BY <2>1, <2>2
<1>8. r.rd_new_value = LimbsOf(v)
  BY <1>4, <1>5, <1>7 DEF HasRight
<1>9. PICK fill \in Int : fill = g * (Base - 1) /\ ((0 - g) \div p) % Base = fill
  <2>1. ((0 - g) \div p) % Base = g * (Base - 1)
    BY SignFills
  <2>2. g * (Base - 1) \in Int
    BY Weights
  <2> QED
    BY <2>1, <2>2
<1>10. PICK into \in Int : into = IntoTop(g, k) /\ ((0 - g) * c) % Base = into
  <2>1. PICK a \in Int : a = ((Base - 1) * c) % Base
    BY SignFills
  <2>2. g * a \in Int
    OBVIOUS
  <2> QED
    BY <1>3, <2>1, <2>2, SignFills DEF IntoTop
<1> DEFINE inter == [i \in Limb |->
                       r.shifted_bytes[i] + (IF i = Top THEN into ELSE r.carry_bytes[i + 1])]
<1>b. PICK b \in Nat \ {0} : b = Base
  BY Weights
<1>11. ASSUME NEW i \in Limb
       PROVE  /\ inter[i] = (LimbsOf(x)[i] \div p)
                              + (IF i = Top THEN into ELSE (LimbsOf(x)[i + 1] * c) % Base)
              /\ inter[i] \in Int
  <2>1. i # Top => i + 1 \in Limb
    BY Geometry
  <2>2. r.shifted_bytes[i] = LimbsOf(x)[i] \div p
    BY <1>2, <1>6 DEF HasRight
  <2>3. i # Top => r.carry_bytes[i + 1] = (LimbsOf(x)[i + 1] * c) % Base
    BY <1>3, <1>6, <2>1 DEF HasRight
  <2>4. LimbsOf(x)[i] \div p \in Int
    <3>1. PICK l \in Int : l = LimbsOf(x)[i]
      BY LimbInt
    <3>2. l \div p \in Int
      BY Division
    <3> QED
      BY <3>1, <3>2
  <2>5. i # Top => (LimbsOf(x)[i + 1] * c) % Base \in Int
    <3>1. ASSUME i # Top
          PROVE  (LimbsOf(x)[i + 1] * c) % Base \in Int
      <4>1. PICK j \in Limb : j = i + 1
        BY <2>1, <3>1
      <4>2. PICK l \in Int : l = LimbsOf(x)[j]
        BY LimbInt
      <4>3. PICK e \in Int : e = l * c
        OBVIOUS
      <4>4. e % b \in Int
        BY Division
      <4> QED
        BY <1>b, <4>1, <4>2, <4>3, <4>4
    <3> QED
      BY <3>1
  <2>6. inter[i] = r.shifted_bytes[i] + (IF i = Top THEN into ELSE r.carry_bytes[i + 1])
    OBVIOUS
  <2> HIDE DEF inter
  <2>7. inter[i] = (LimbsOf(x)[i] \div p)
                     + (IF i = Top THEN into ELSE (LimbsOf(x)[i + 1] * c) % Base)
    BY <2>2, <2>3, <2>6
  <2> QED
    BY <2>4, <2>5, <2>7
<1> HIDE DEF inter
<1>12. ASSUME NEW i \in Limb
       PROVE  r.rd_new_value[i] =
                Total([j \in Limb |-> r.is_bs[j] * (IF i + j > Top THEN fill ELSE inter[i + j])],
                      NumLimbs)
  <2> DEFINE f == [j \in Limb |-> r.is_bs[j] * (IF i + j > Top THEN fill ELSE inter[i + j])]
  <2>0. i \in Nat /\ m \in Nat /\ m < NumLimbs /\ NumLimbs \in Nat /\ Top = NumLimbs - 1
    BY Geometry
  <2>1. ASSUME NEW j \in Limb
        PROVE  /\ f[j] \in Int
               /\ f[j] = IF j = m THEN (IF i + j > Top THEN fill ELSE inter[i + j]) ELSE 0
    <3>1. i + j \in Nat /\ (~(i + j > Top) => i + j \in Limb)
      BY <2>0, Geometry
    <3>2. r.is_bs[j] = IF j = m THEN 1 ELSE 0
      BY <1>1 DEF HasShift, Truth
    <3>3. f[j] = r.is_bs[j] * (IF i + j > Top THEN fill ELSE inter[i + j])
      OBVIOUS
    <3>4. PICK t \in Int : t = IF i + j > Top THEN fill ELSE inter[i + j]
      BY <1>11, <3>1
    <3> HIDE DEF f
    <3> QED
      BY <3>2, <3>3, <3>4
  <2> HIDE DEF f
  <2>2. OneTerm(f, NumLimbs, m)
    BY <2>0, <2>1, Geometry DEF OneTerm
  <2>3. Total(f, NumLimbs) = IF i + m > Top THEN fill ELSE inter[i + m]
    <3>1. Total(f, NumLimbs) = IF m < NumLimbs THEN f[m] ELSE 0
      BY <2>0, <2>2, TotalOfOne
    <3> QED
      BY <2>0, <2>1, <3>1
  <2>4. /\ \A j \in Limb : i + m = j /\ j # Top =>
             LimbsOf(v)[i] = (LimbsOf(x)[j] \div p) + ((LimbsOf(x)[j + 1] * c) % Base)
        /\ i + m = Top =>
             LimbsOf(v)[i] = (LimbsOf(x)[Top] \div p) + (((x \div Size) * c) % Base)
        /\ i + m > Top => LimbsOf(v)[i] = ((x \div Weight(i + m)) \div p) % Base
    BY <1>4, <1>7, RightLimb
  <2>5. LimbsOf(v)[i] = IF i + m > Top THEN fill ELSE inter[i + m]
    <3>1. CASE i + m > Top
      <4>1. PICK n \in Nat : n = i + m /\ n >= NumLimbs
        BY <2>0, <3>1
      <4>2. x \div Weight(n) = 0 - g
        BY <1>5, <4>1, PastTheTop
      <4> QED
        BY <1>9, <2>4, <3>1, <4>1, <4>2
    <3>2. CASE i + m = Top
      <4>1. x \div Weight(NumLimbs) = 0 - g
        <5>1. PICK n \in Nat : n = NumLimbs /\ n >= NumLimbs
          BY <2>0
        <5>2. x \div Weight(n) = 0 - g
          BY <1>5, <5>1, PastTheTop
        <5> QED
          BY <5>1, <5>2
      <4>2. x \div Size = 0 - g
        BY <4>1, Weights
      <4>3. PICK t \in Limb : t = Top /\ i + m = t
        BY <3>2, Geometry
      <4>4. inter[t] = (LimbsOf(x)[t] \div p) + into
        BY <1>11, <4>3
      <4>5. ~(i + m > Top)
        BY <2>0, <3>2
      <4> QED
        BY <1>10, <2>4, <3>2, <4>2, <4>3, <4>4, <4>5
    <3>3. CASE i + m < Top
      <4>1. PICK j \in Limb : j = i + m /\ j # Top
        BY <2>0, <3>3, Geometry
      <4>2. inter[j] = (LimbsOf(x)[j] \div p) + ((LimbsOf(x)[j + 1] * c) % Base)
        BY <1>11, <4>1
      <4>3. ~(i + m > Top)
        BY <2>0, <3>3
      <4> QED
        BY <2>4, <4>1, <4>2, <4>3
    <3> QED
      BY <2>0, <3>1, <3>2, <3>3
  <2>6. r.rd_new_value[i] = Total(f, NumLimbs)
    BY <1>8, <2>3, <2>5
  <2> QED
    BY <2>6 DEF f
<1>13. SelectsByteShift(r)
  BY SelectGadget
<1> QED
  BY <1>9, <1>10, <1>12, <1>13 DEF ShiftsRight, inter

(***************************************************************************)
(* The rows of steps.                                                      *)
(***************************************************************************)
\* A step whose value is the instruction's result, for a jump its link; a
\* step of zeros may stand for no step.
HonestStep(s) ==
  /\ s.op \in Ops /\ s.pc \in 0 .. Size - 5 /\ s.rd \in Nat
  /\ s.rs1_value \in 0 .. Size - 1 /\ s.rs2_value \in 0 .. Size - 1
  /\ s.imm \in 0 .. Size - 1 /\ s.imm \in Immediates(s.op)
  /\ s.op = "Jal" => JumpBits \in Nat
  /\ s.is_dummy \in {0, 1} /\ (s.is_dummy = 0 => s.rs1_value = 0)
  /\ s.rd_val = IF s.op \in {"Jal", "Jalr"} THEN s.pc + 4 ELSE Logged(s)

\* The columns most rows have.
HasPc(r, s) ==
  /\ r.pc = LimbsOf(s.pc) /\ r.next_pc = LimbsOf(s.pc + 4)
  /\ r.next_pc_carries = PlusFourCarries(s.pc) /\ r.is_dummy = s.is_dummy

HasValues(r, s) ==
  /\ r.rs1_value = LimbsOf(s.rs1_value) /\ r.rs2_value = LimbsOf(s.rs2_value)
  /\ r.rd_new_value = LimbsOf(s.rd_val)

LEMMA RegisterPart ==
  ASSUME NEW s, NEW g
  PROVE  HasPc(RegisterColumns(s) ++ g, s) /\ HasValues(RegisterColumns(s) ++ g, s)
BY DEF RegisterColumns, PcColumns, ValueColumns, HasPc, HasValues, ++

LEMMA PcAccepted ==
  ASSUME NEW s, NEW r, HonestStep(s), HasPc(r, s)
  PROVE  PcPlusFour(r)
<1>1. s.pc \in 0 .. Size - 5 /\ s.is_dummy \in {0, 1}
  BY DEF HonestStep
<1>2. U32PlusFour(LimbsOf(s.pc), LimbsOf(s.pc + 4), PlusFourCarries(s.pc))
  BY <1>1, FourGadget
<1> QED
  BY <1>1, <1>2 DEF PcPlusFour, HasPc, Boolean

\* The operands of a step are integers.
LEMMA HonestOperands ==
  ASSUME NEW s, HonestStep(s)
  PROVE  /\ s.rs1_value \in Int /\ s.rs2_value \in Int /\ s.imm \in Int /\ s.pc \in Int
         /\ s.rs1_value \in 0 .. Size - 1 /\ s.rs2_value \in 0 .. Size - 1
         /\ s.imm \in 0 .. Size - 1 /\ s.pc \in 0 .. Size - 1
<1>1. PICK m \in Nat \ {0} : m = Size
  BY Weights, Geometry
<1>2. PICK n \in Int : n = Size - 5 /\ n <= Size
  BY <1>1
<1>3. /\ s.pc \in 0 .. n /\ s.rs1_value \in 0 .. m - 1 /\ s.rs2_value \in 0 .. m - 1
      /\ s.imm \in 0 .. m - 1
  BY <1>1, <1>2 DEF HonestStep
<1> QED
  BY <1>1, <1>2, <1>3

ImmOps == {"AddI", "XorI", "OriI", "AndiI", "SltiI", "SltiuI", "Jalr"}

LEMMA ImmAccepted ==
  ASSUME NEW s, NEW r, HonestStep(s), s.op \in ImmOps, HasImm(r, s.imm)
  PROVE  SignExtendsImm(r) /\ r.imm_high_bits[HighBits - 1] = SignOf(s.imm)
<1>1. s.imm \in Extended(UpperShift - 1)
  BY DEF HonestStep, Immediates, ImmOps, RegisterOps
<1>2. PICK v \in Extended(UpperShift - 1) : v = s.imm
  BY <1>1
<1> QED
  BY <1>2, ImmGadget

LEMMA ImmPart ==
  ASSUME NEW s, NEW g
  PROVE  /\ HasPc((RegisterColumns(s) ++ ImmColumns(s)) ++ g, s)
         /\ HasValues((RegisterColumns(s) ++ ImmColumns(s)) ++ g, s)
         /\ HasImm((RegisterColumns(s) ++ ImmColumns(s)) ++ g, s.imm)
<1>1. PICK a : a = RegisterColumns(s) ++ ImmColumns(s)
  OBVIOUS
<1>2. HasPc(a, s) /\ HasValues(a, s)
  BY <1>1, RegisterPart
<1>3. HasImm(a, s.imm)
  BY <1>1 DEF RegisterColumns, PcColumns, ValueColumns, ImmColumns, HasImm, ++
<1>4. {"pc", "next_pc", "next_pc_carries", "is_dummy", "rs1_value", "rs2_value", "rd_new_value",
       "imm", "imm_high_bits", "imm_se_bytes"} = DOMAIN a
  BY <1>1 DEF RegisterColumns, PcColumns, ValueColumns, ImmColumns, ++
<1>5. HasPc(a ++ g, s) /\ HasValues(a ++ g, s)
  BY <1>2, <1>4 DEF HasPc, HasValues, ++
<1>6. HasImm(a ++ g, s.imm)
  BY <1>3, <1>4 DEF HasImm, ++
<1> QED
  BY <1>1, <1>5, <1>6

\* The columns after them.
LEMMA AfterImmPart ==
  ASSUME NEW s, NEW x
  PROVE  ((RegisterColumns(s) ++ ImmColumns(s)) ++ [add_carries |-> x]).add_carries = x
<1>1. PICK a : a = RegisterColumns(s) ++ ImmColumns(s)
  OBVIOUS
<1>2. "add_carries" \notin DOMAIN a
  BY <1>1 DEF RegisterColumns, PcColumns, ValueColumns, ImmColumns, ++
<1>3. (a ++ [add_carries |-> x]).add_carries = x
  BY <1>2 DEF ++
<1> QED
  BY <1>1, <1>3

LEMMA AddAccepted ==
  ASSUME NEW s, HonestStep(s), s.op = "Add"
  PROVE  AddAir(AddRow(s))
<1> DEFINE r == AddRow(s)
<1>1. HasPc(r, s) /\ HasValues(r, s)
  BY RegisterPart DEF AddRow
<1>2. r.add_carries = AddCarries(s.rs1_value, s.rs2_value)
  BY DEF AddRow, RegisterColumns, PcColumns, ValueColumns, ++
<1>3. s.rd_val = (s.rs1_value + s.rs2_value) % Size
  BY DEF HonestStep, Logged, RvAlu, Arithmetic, RegisterOps
<1>4. U32Add(r.rs1_value, r.rs2_value, r.rd_new_value, r.add_carries)
  BY <1>1, <1>2, <1>3, HonestOperands, AddGadget DEF HasValues
<1> QED
  BY <1>1, <1>4, PcAccepted DEF AddAir

LEMMA SubAccepted ==
  ASSUME NEW s, HonestStep(s), s.op = "Sub"
  PROVE  SubAir(SubRow(s))
<1> DEFINE r == SubRow(s)
<1>1. HasPc(r, s) /\ HasValues(r, s)
  BY RegisterPart DEF SubRow
<1>2. r.sub_borrows = SubBorrows(s.rs1_value, s.rs2_value)
  BY DEF SubRow, RegisterColumns, PcColumns, ValueColumns, ++
<1>3. s.rd_val = (s.rs1_value - s.rs2_value) % Size
  BY DEF HonestStep, Logged, RvAlu, Arithmetic, RegisterOps
<1>4. U32Sub(r.rs1_value, r.rs2_value, r.rd_new_value, r.sub_borrows)
  BY <1>1, <1>2, <1>3, HonestOperands, SubGadget DEF HasValues
<1> QED
  BY <1>1, <1>4, PcAccepted DEF SubAir

LEMMA AddIAccepted ==
  ASSUME NEW s, HonestStep(s), s.op = "AddI"
  PROVE  AddIAir(AddIRow(s))
<1> DEFINE r == AddIRow(s)
<1>1. HasPc(r, s) /\ HasValues(r, s)
  BY ImmPart DEF AddIRow
<1>2. r.add_carries = AddCarries(s.rs1_value, s.imm) /\ HasImm(r, s.imm)
  BY ImmPart, AfterImmPart DEF AddIRow
<1>3. s.rd_val = (s.rs1_value + s.imm) % Size
  BY DEF HonestStep, Logged, RvAlu, Arithmetic, RegisterOps
<1> HIDE DEF r
<1>a. /\ r.rs1_value = LimbsOf(s.rs1_value) /\ r.imm_se_bytes = LimbsOf(s.imm)
      /\ r.rd_new_value = LimbsOf((s.rs1_value + s.imm) % Size)
  BY <1>1, <1>2, <1>3 DEF HasValues, HasImm
<1>4. U32Add(r.rs1_value, r.imm_se_bytes, r.rd_new_value, r.add_carries)
  BY <1>2, <1>a, HonestOperands, AddGadget
<1> QED
  BY <1>1, <1>2, <1>4, PcAccepted, ImmAccepted DEF AddIAir, ImmOps, r

\* The logic AIRs leave the result to the lookup tables.
LEMMA LogicAccepted ==
  ASSUME NEW s, HonestStep(s), s.op \in {"Xor", "Or", "And", "XorI", "OriI", "AndiI"}
  PROVE  Accepts(s.op, Row(s))
<1> DEFINE r == RegisterColumns(s)
           i == RegisterColumns(s) ++ ImmColumns(s)
<1>1. HasPc(r, s)
  BY DEF RegisterColumns, PcColumns, ValueColumns, HasPc, ++
<1>2. HasPc(i, s)
  BY RegisterPart
<1>3. HasImm(i, s.imm)
  BY DEF RegisterColumns, PcColumns, ValueColumns, ImmColumns, HasImm, ++
<1> HIDE DEF r, i
<1>4. PcPlusFour(r) /\ PcPlusFour(i)
  BY <1>1, <1>2, PcAccepted
<1>5. CASE s.op \in {"XorI", "OriI", "AndiI"}
  <2>1. SignExtendsImm(i)
    BY <1>3, <1>5, ImmAccepted DEF ImmOps
  <2>2. Row(s) = i
    BY <1>5 DEF Row, XorIRow, OriIRow, AndiIRow, i
  <2> QED
    BY <1>4, <1>5, <2>1, <2>2 DEF Accepts, XorIAir, OriIAir, AndiIAir
<1>6. CASE s.op \in {"Xor", "Or", "And"}
  <2>1. Row(s) = r
    BY <1>6 DEF Row, XorRow, OrRow, AndRow, r
  <2> QED
    BY <1>4, <1>6, <2>1 DEF Accepts, XorAir, OrAir, AndAir
<1> QED
  BY <1>5, <1>6

(***************************************************************************)
(* Comparisons.                                                            *)
(***************************************************************************)
HasBorrows(r, x, y) ==
  r.diff_bytes = SubDiff(x, y) /\ r.borrow = SubBorrows(x, y) /\ r.lt_result \in {0, 1}

HasCompare(r, x, y, less) ==
  r.diff_bytes = SubDiff(x, y) /\ r.borrow = SubBorrows(x, y) /\ r.lt_result = Truth(less)

LEMMA CompareAccepted ==
  ASSUME NEW r, NEW x \in 0 .. Size - 1, NEW y \in 0 .. Size - 1,
         r.rs1_value = LimbsOf(x), HasBorrows(r, x, y)
  PROVE  Compares(r, LimbsOf(y)) /\ r.borrow[Top] = Truth(x < y)
<1>1. x \in Int /\ y \in Int
  <2>1. PICK m \in Nat \ {0} : m = Size
    BY Weights, Geometry
  <2> QED
    BY <2>1
<1>2. /\ SubDiff(x, y) = LimbsOf((x - y) % Size)
      /\ U32Sub(LimbsOf(x), LimbsOf(y), LimbsOf((x - y) % Size), SubBorrows(x, y))
  BY <1>1, SubGadget
<1>3. U32Sub(r.rs1_value, LimbsOf(y), r.diff_bytes, r.borrow)
  BY <1>2 DEF HasBorrows
<1>4. Boolean(r.lt_result)
  BY DEF HasBorrows, Boolean
<1>5. SubBorrows(x, y)[Top] = Truth(x < y)
  BY LastBorrow
<1> QED
  BY <1>3, <1>4, <1>5 DEF Compares, HasBorrows

\* The columns of a sign, for a word of the row.
LEMMA SignAccepted ==
  ASSUME NEW w \in 0 .. Size - 1
  PROVE  SplitsSign(LimbsOf(w)[Top], SignOf(w), TopLow(w))
BY SignSplits DEF SplitsSign, LowHalf, Boolean

LEMMA SltuAccepted ==
  ASSUME NEW s, HonestStep(s), s.op = "Sltu"
  PROVE  SltuAir(SltuRow(s))
<1> DEFINE r == SltuRow(s)
           x == s.rs1_value
           y == s.rs2_value
<1>1. HasPc(r, s) /\ HasValues(r, s)
  BY RegisterPart DEF SltuRow
<1>2. HasCompare(r, x, y, x < y)
  BY DEF SltuRow, RegisterColumns, PcColumns, ValueColumns, CompareColumns, HasCompare, ++
<1> HIDE DEF r
<1>3. Compares(r, LimbsOf(y)) /\ r.borrow[Top] = Truth(x < y)
  <2>1. HasBorrows(r, x, y)
    BY <1>2 DEF HasCompare, HasBorrows, Truth
  <2>2. x \in 0 .. Size - 1 /\ y \in 0 .. Size - 1
    BY HonestOperands
  <2>3. r.rs1_value = LimbsOf(x)
    BY <1>1 DEF HasValues
  <2> HIDE DEF x, y
  <2> QED
    BY <2>1, <2>2, <2>3, CompareAccepted
<1>4. PcPlusFour(r) /\ r.lt_result = Truth(x < y) /\ r.rs2_value = LimbsOf(y)
  BY <1>1, <1>2, PcAccepted DEF HasCompare, HasValues
<1> HIDE DEF x, y
<1> QED
  BY <1>3, <1>4 DEF SltuAir, r

LEMMA SltiuAccepted ==
  ASSUME NEW s, HonestStep(s), s.op = "SltiuI"
  PROVE  SltiuIAir(SltiuIRow(s))
<1> DEFINE r == SltiuIRow(s)
           x == s.rs1_value
           y == s.imm
<1>1. HasPc(r, s) /\ HasValues(r, s) /\ HasImm(r, s.imm)
  BY ImmPart DEF SltiuIRow
<1>2. HasCompare(r, x, y, x < y)
  <2>1. PICK a : a = RegisterColumns(s) ++ ImmColumns(s)
    OBVIOUS
  <2>2. DOMAIN a \cap {"diff_bytes", "borrow", "lt_result"} = {}
    BY <2>1 DEF RegisterColumns, PcColumns, ValueColumns, ImmColumns, ++
  <2>3. HasCompare(a ++ CompareColumns(x, y, x < y), x, y, x < y)
    BY <2>2 DEF CompareColumns, HasCompare, ++
  <2> QED
    BY <2>1, <2>3 DEF SltiuIRow
<1> HIDE DEF r
<1>3. Compares(r, LimbsOf(y)) /\ r.borrow[Top] = Truth(x < y)
  <2>1. HasBorrows(r, x, y)
    BY <1>2 DEF HasCompare, HasBorrows, Truth
  <2>2. x \in 0 .. Size - 1 /\ y \in 0 .. Size - 1
    BY HonestOperands
  <2>3. r.rs1_value = LimbsOf(x)
    BY <1>1 DEF HasValues
  <2> HIDE DEF x, y
  <2> QED
    BY <2>1, <2>2, <2>3, CompareAccepted
<1>4. PcPlusFour(r) /\ r.lt_result = Truth(x < y) /\ r.imm_se_bytes = LimbsOf(y)
  BY <1>1, <1>2, PcAccepted DEF HasCompare, HasImm
<1>5. SignExtendsImm(r)
  BY <1>1, ImmAccepted DEF ImmOps
<1> HIDE DEF x, y
<1> QED
  BY <1>3, <1>4, <1>5 DEF SltiuIAir, r

LEMMA SltAccepted ==
  ASSUME NEW s, HonestStep(s), s.op = "Slt"
  PROVE  SltAir(SltRow(s))
<1> DEFINE r == SltRow(s)
           x == s.rs1_value
           y == s.rs2_value
           less == Signed(x) < Signed(y)
<1>1. /\ HasPc(r, s) /\ HasValues(r, s) /\ HasCompare(r, x, y, less)
      /\ r.sign_rs1 = SignOf(x) /\ r.rs1_byte3_low7 = TopLow(x)
      /\ r.sign_rs2 = SignOf(y) /\ r.rs2_byte3_low7 = TopLow(y)
  <2>1. PICK a : a = RegisterColumns(s) ++ CompareColumns(x, y, less)
    OBVIOUS
  <2>2. HasPc(a, s) /\ HasValues(a, s)
    BY <2>1, RegisterPart
  <2>3. HasCompare(a, x, y, less)
    BY <2>1 DEF RegisterColumns, PcColumns, ValueColumns, CompareColumns, HasCompare, ++
  <2>4. {"pc", "next_pc", "next_pc_carries", "is_dummy", "rs1_value", "rs2_value", "rd_new_value",
         "diff_bytes", "borrow", "lt_result"} = DOMAIN a
    BY <2>1 DEF RegisterColumns, PcColumns, ValueColumns, CompareColumns, ++
  <2>5. PICK g : g = [sign_rs1 |-> SignOf(x), rs1_byte3_low7 |-> TopLow(x),
                      sign_rs2 |-> SignOf(y), rs2_byte3_low7 |-> TopLow(y)]
    OBVIOUS
  <2>6. HasPc(a ++ g, s) /\ HasValues(a ++ g, s)
    BY <2>2, <2>4 DEF HasPc, HasValues, ++
  <2>7. HasCompare(a ++ g, x, y, less)
    BY <2>3, <2>4 DEF HasCompare, ++
  <2>8. /\ (a ++ g).sign_rs1 = SignOf(x) /\ (a ++ g).rs1_byte3_low7 = TopLow(x)
        /\ (a ++ g).sign_rs2 = SignOf(y) /\ (a ++ g).rs2_byte3_low7 = TopLow(y)
    BY <2>4, <2>5 DEF ++
  <2>9. r = a ++ g
    BY <2>1, <2>5 DEF SltRow
  <2> HIDE DEF r
  <2> QED
    BY <2>6, <2>7, <2>8, <2>9
<1> HIDE DEF r
<1>2. x \in 0 .. Size - 1 /\ y \in 0 .. Size - 1
  BY HonestOperands
<1>3. Compares(r, LimbsOf(y)) /\ r.borrow[Top] = Truth(x < y)
  <2>1. HasBorrows(r, x, y)
    BY <1>1 DEF HasCompare, HasBorrows, Truth
  <2> QED
    BY <1>1, <1>2, <2>1, CompareAccepted DEF HasValues
<1>4. /\ PcPlusFour(r) /\ r.lt_result = Truth(less)
      /\ r.rs1_value = LimbsOf(x) /\ r.rs2_value = LimbsOf(y)
  BY <1>1, PcAccepted DEF HasCompare, HasValues
<1>5. /\ SplitsSign(LimbsOf(x)[Top], SignOf(x), TopLow(x))
      /\ SplitsSign(LimbsOf(y)[Top], SignOf(y), TopLow(y))
  BY <1>2, SignAccepted
<1>6. Truth(less) = XorOf(Truth(x < y), XorOf(SignOf(x), SignOf(y)))
  BY <1>2, SignedLess
<1> HIDE DEF x, y, less
<1> QED
  BY <1>1, <1>3, <1>4, <1>5, <1>6 DEF SltAir, r

LEMMA SltiAccepted ==
  ASSUME NEW s, HonestStep(s), s.op = "SltiI"
  PROVE  SltiIAir(SltiIRow(s))
<1> DEFINE r == SltiIRow(s)
           x == s.rs1_value
           y == s.imm
           less == Signed(x) < Signed(y)
<1>1. /\ HasPc(r, s) /\ HasValues(r, s) /\ HasImm(r, y) /\ HasCompare(r, x, y, less)
      /\ r.sign_rs1 = SignOf(x) /\ r.rs1_byte3_low7 = TopLow(x)
  <2>1. PICK i : i = RegisterColumns(s) ++ ImmColumns(s)
    OBVIOUS
  <2>2. PICK a : a = i ++ CompareColumns(x, y, less)
    OBVIOUS
  <2>3. HasPc(a, s) /\ HasValues(a, s) /\ HasImm(a, y)
    BY <2>1, <2>2, ImmPart
  <2>4. DOMAIN i = {"pc", "next_pc", "next_pc_carries", "is_dummy", "rs1_value", "rs2_value",
                    "rd_new_value", "imm", "imm_high_bits", "imm_se_bytes"}
    BY <2>1 DEF RegisterColumns, PcColumns, ValueColumns, ImmColumns, ++
  <2>5. HasCompare(a, x, y, less)
    BY <2>2, <2>4 DEF CompareColumns, HasCompare, ++
  <2>6. DOMAIN a = {"pc", "next_pc", "next_pc_carries", "is_dummy", "rs1_value", "rs2_value",
                    "rd_new_value", "imm", "imm_high_bits", "imm_se_bytes",
                    "diff_bytes", "borrow", "lt_result"}
    BY <2>2, <2>4 DEF CompareColumns, ++
  <2>7. PICK g : g = [sign_rs1 |-> SignOf(x), rs1_byte3_low7 |-> TopLow(x)]
    OBVIOUS
  <2>8. HasPc(a ++ g, s) /\ HasValues(a ++ g, s)
    BY <2>3, <2>6 DEF HasPc, HasValues, ++
  <2>9. HasImm(a ++ g, y)
    BY <2>3, <2>6 DEF HasImm, ++
  <2>10. HasCompare(a ++ g, x, y, less)
    BY <2>5, <2>6 DEF HasCompare, ++
  <2>11. (a ++ g).sign_rs1 = SignOf(x) /\ (a ++ g).rs1_byte3_low7 = TopLow(x)
    BY <2>6, <2>7 DEF ++
  <2>12. r = a ++ g
    BY <2>1, <2>2, <2>7 DEF SltiIRow
  <2> HIDE DEF r
  <2> QED
    BY <2>8, <2>9, <2>10, <2>11, <2>12
<1> HIDE DEF r
<1>2. x \in 0 .. Size - 1 /\ y \in 0 .. Size - 1
  BY HonestOperands
<1>3. Compares(r, LimbsOf(y)) /\ r.borrow[Top] = Truth(x < y)
  <2>1. HasBorrows(r, x, y)
    BY <1>1 DEF HasCompare, HasBorrows, Truth
  <2> QED
    BY <1>1, <1>2, <2>1, CompareAccepted DEF HasValues
<1>4. /\ PcPlusFour(r) /\ r.lt_result = Truth(less)
      /\ r.rs1_value = LimbsOf(x) /\ r.imm_se_bytes = LimbsOf(y)
  BY <1>1, PcAccepted DEF HasCompare, HasValues, HasImm
<1>5. SplitsSign(LimbsOf(x)[Top], SignOf(x), TopLow(x))
  BY <1>2, SignAccepted
<1>6. Truth(less) = XorOf(Truth(x < y), XorOf(SignOf(x), SignOf(y)))
  BY <1>2, SignedLess
<1>7. SignExtendsImm(r) /\ r.imm_high_bits[HighBits - 1] = SignOf(y)
  BY <1>1, ImmAccepted DEF ImmOps
<1> HIDE DEF x, y, less
<1> QED
  BY <1>1, <1>3, <1>4, <1>5, <1>6, <1>7 DEF SltiIAir, r

(***************************************************************************)
(* Shifts.                                                                 *)
(***************************************************************************)
\* The low limb of the second operand is the amount and the bits above it.
LEMMA ShamtGadget ==
  ASSUME NEW w \in 0 .. Size - 1, NEW r, r.rs2_value = LimbsOf(w), HasShift(r, w % XLEN),
         r.rs2_shamt_high = LimbsOf(w)[0] \div XLEN
  PROVE  ShamtFromRs2(r)
<1>0. w \in Int /\ Base % XLEN = 0
  <2>1. PICK m \in Nat \ {0} : m = Size
    BY Weights, Geometry
  <2> QED
    BY <2>1, RowsAssumption
<1>1. PICK x \in Nat \ {0} : x = XLEN
  BY Geometry
<1>2. PICK b \in Nat \ {0} : b = Base
  BY Weights
<1>3. PICK d \in Int : b = x * d
  <2>1. PICK d \in Int, e \in Int :
          d = b \div x /\ e = b % x /\ e \in 0 .. x - 1 /\ b = x * d + e
    BY DivisionParts
  <2>2. e = 0
    BY <1>0, <1>1, <1>2, <2>1
  <2>3. x * d \in Int
    OBVIOUS
  <2>4. b = x * d
    BY <2>1, <2>2, <2>3
  <2> QED
    BY <2>4
<1>4. PICK l \in Int : l = LimbsOf(w)[0] /\ l = w % b
  <2>1. PICK o \in Limb : o = 0
    BY Geometry
  <2>2. LimbsOf(w)[o] = (w \div Weight(o)) % Base /\ LimbsOf(w)[o] \in Int
    BY <1>0, <2>1, LimbStep, LimbInt
  <2>3. w \div Weight(0) = w
    BY <1>0, QuotientEnds
  <2> QED
    BY <1>2, <2>1, <2>2, <2>3
<1>5. PICK q \in Int, e \in Int : q = w \div b /\ e = w % b /\ e \in 0 .. b - 1 /\ w = b * q + e
  BY <1>0, DivisionParts
<1>6. l % x = w % x
  <2>1. PICK k \in Int : k = d * q
    OBVIOUS
  <2>2. w = x * k + l
    <3>1. b * q = x * k
      BY <1>3, <2>1
    <3> QED
      BY <1>4, <1>5, <3>1
  <2>3. (x * k + l) % x = l % x
    BY AddMultiple
  <2> QED
    BY <2>2, <2>3
<1>7. PICK h \in Int, k \in Int : h = l \div x /\ k = l % x /\ k \in 0 .. x - 1 /\ l = x * h + k
  BY DivisionParts
<1>8. PICK n \in 0 .. XLEN - 1 : n = w % XLEN /\ n = k
  BY <1>1, <1>6, <1>7
<1>9. n = LimbBits * (n \div LimbBits) + (n % LimbBits)
  BY ShiftAmount
<1>a. PICK z \in Nat \ {0} : z = LimbBits
  BY Geometry
<1>b. n \in Int /\ n \div z \in Int /\ n % z \in 0 .. z - 1
  BY <1>8, Division
<1>10. PICK t \in Int : t = n \div LimbBits
  BY <1>a, <1>b
<1>11. PICK u \in Int : u = n % LimbBits
  BY <1>a, <1>b
<1>12. l = u + LimbBits * t + x * h
  <2>1. PICK a \in Int : a = LimbBits * t
    BY Geometry
  <2>2. PICK c \in Int : c = x * h
    OBVIOUS
  <2> QED
    BY <1>7, <1>8, <1>9, <1>10, <1>11, <2>1, <2>2
<1> QED
  BY <1>1, <1>4, <1>7, <1>8, <1>10, <1>11, <1>12 DEF ShamtFromRs2, HasShift

LEMMA ShamtImmGadget ==
  ASSUME NEW k \in 0 .. XLEN - 1, NEW r, r.imm = k, HasShift(r, k)
  PROVE  ShamtFromImm(r)
<1>1. k = LimbBits * (k \div LimbBits) + (k % LimbBits)
  BY ShiftAmount
<1>2. PICK t \in Int : t = k \div LimbBits
  BY Geometry, ShiftAmount
<1>3. PICK u \in Int : u = k % LimbBits
  BY Geometry, ShiftAmount
<1>4. PICK a \in Int : a = LimbBits * t
  BY <1>2, Geometry
<1> QED
  BY <1>1, <1>2, <1>3, <1>4 DEF ShamtFromImm, HasShift

\* The amount of a shift.
LEMMA Amounts ==
  ASSUME NEW s, HonestStep(s)
  PROVE  /\ Shamt(s.rs2_value) \in 0 .. XLEN - 1 /\ Shamt(s.imm) \in 0 .. XLEN - 1
         /\ Shamt(s.rs2_value) = s.rs2_value % XLEN
<1>1. PICK x \in Nat \ {0} : x = XLEN
  BY Geometry
<1>2. PICK v \in Int : v = s.rs2_value
  BY HonestOperands
<1>3. PICK w \in Int : w = s.imm
  BY HonestOperands
<1>4. v % x \in 0 .. x - 1 /\ w % x \in 0 .. x - 1
  BY Division
<1> QED
  BY <1>1, <1>2, <1>3, <1>4 DEF Shamt

ShiftNames == {"pc", "next_pc", "next_pc_carries", "is_dummy", "rs1_value", "rs2_value",
               "rd_new_value", "bit_shamt", "byte_shamt", "is_bs", "shifted_bytes", "carry_bytes"}

HasLeftParts(r, x, k) ==
  /\ r.shifted_bytes = [i \in Limb |-> (LimbsOf(x)[i] * 2 ^ (k % LimbBits)) % Base]
  /\ r.carry_bytes = [i \in Limb |-> LimbsOf(x)[i] \div 2 ^ (LimbBits - (k % LimbBits))]

HasRightParts(r, x, k) ==
  /\ r.shifted_bytes = [i \in Limb |-> LimbsOf(x)[i] \div 2 ^ (k % LimbBits)]
  /\ r.carry_bytes = [i \in Limb |-> (LimbsOf(x)[i] * 2 ^ (LimbBits - (k % LimbBits))) % Base]

LEMMA LeftPart ==
  ASSUME NEW s, NEW k
  PROVE  LET a == ShiftColumns(s, k, ShiftLeft)
         IN  /\ HasPc(a, s) /\ HasValues(a, s) /\ HasShift(a, k)
             /\ HasLeftParts(a, s.rs1_value, k) /\ DOMAIN a = ShiftNames
<1> DEFINE parts == [i \in Limb |-> ShiftLeft(LimbsOf(s.rs1_value)[i], k % LimbBits)]
<1>1. PICK f : f = [i \in Limb |-> parts[i].shifted]
  OBVIOUS
<1>2. PICK g : g = [i \in Limb |-> parts[i].carry]
  OBVIOUS
<1>3. /\ f = [i \in Limb |-> (LimbsOf(s.rs1_value)[i] * 2 ^ (k % LimbBits)) % Base]
      /\ g = [i \in Limb |-> LimbsOf(s.rs1_value)[i] \div 2 ^ (LimbBits - (k % LimbBits))]
  BY <1>1, <1>2 DEF ShiftLeft
<1>4. PICK b : b = [i \in Limb |-> Truth(i = k \div LimbBits)]
  OBVIOUS
<1>5. PICK a : a = RegisterColumns(s) ++
                   [bit_shamt |-> k % LimbBits, byte_shamt |-> k \div LimbBits,
                    is_bs |-> b, shifted_bytes |-> f, carry_bytes |-> g]
  OBVIOUS
<1>6. a = ShiftColumns(s, k, ShiftLeft)
  BY <1>1, <1>2, <1>4, <1>5 DEF ShiftColumns
<1>7. HasPc(a, s) /\ HasValues(a, s)
  BY <1>5, RegisterPart
<1>8. /\ a.bit_shamt = k % LimbBits /\ a.byte_shamt = k \div LimbBits
      /\ a.is_bs = b /\ a.shifted_bytes = f /\ a.carry_bytes = g
  BY <1>5 DEF RegisterColumns, PcColumns, ValueColumns, ++
<1>9. DOMAIN a = ShiftNames
  BY <1>5 DEF RegisterColumns, PcColumns, ValueColumns, ShiftNames, ++
<1>10. HasShift(a, k) /\ HasLeftParts(a, s.rs1_value, k)
  BY <1>3, <1>4, <1>8 DEF HasShift, HasLeftParts
<1> QED
  BY <1>6, <1>7, <1>9, <1>10

LEMMA RightPart ==
  ASSUME NEW s, NEW k
  PROVE  LET a == ShiftColumns(s, k, ShiftRight)
         IN  /\ HasPc(a, s) /\ HasValues(a, s) /\ HasShift(a, k)
             /\ HasRightParts(a, s.rs1_value, k) /\ DOMAIN a = ShiftNames
<1> DEFINE parts == [i \in Limb |-> ShiftRight(LimbsOf(s.rs1_value)[i], k % LimbBits)]
<1>1. PICK f : f = [i \in Limb |-> parts[i].shifted]
  OBVIOUS
<1>2. PICK g : g = [i \in Limb |-> parts[i].carry]
  OBVIOUS
<1>3. /\ f = [i \in Limb |-> LimbsOf(s.rs1_value)[i] \div 2 ^ (k % LimbBits)]
      /\ g = [i \in Limb |-> (LimbsOf(s.rs1_value)[i] * 2 ^ (LimbBits - (k % LimbBits))) % Base]
  BY <1>1, <1>2 DEF ShiftRight
<1>4. PICK b : b = [i \in Limb |-> Truth(i = k \div LimbBits)]
  OBVIOUS
<1>5. PICK a : a = RegisterColumns(s) ++
                   [bit_shamt |-> k % LimbBits, byte_shamt |-> k \div LimbBits,
                    is_bs |-> b, shifted_bytes |-> f, carry_bytes |-> g]
  OBVIOUS
<1>6. a = ShiftColumns(s, k, ShiftRight)
  BY <1>1, <1>2, <1>4, <1>5 DEF ShiftColumns
<1>7. HasPc(a, s) /\ HasValues(a, s)
  BY <1>5, RegisterPart
<1>8. /\ a.bit_shamt = k % LimbBits /\ a.byte_shamt = k \div LimbBits
      /\ a.is_bs = b /\ a.shifted_bytes = f /\ a.carry_bytes = g
  BY <1>5 DEF RegisterColumns, PcColumns, ValueColumns, ++
<1>9. DOMAIN a = ShiftNames
  BY <1>5 DEF RegisterColumns, PcColumns, ValueColumns, ShiftNames, ++
<1>10. HasShift(a, k) /\ HasRightParts(a, s.rs1_value, k)
  BY <1>3, <1>4, <1>8 DEF HasShift, HasRightParts
<1> QED
  BY <1>6, <1>7, <1>9, <1>10

LEMMA LeftAccepted ==
  ASSUME NEW s, HonestStep(s), NEW k \in 0 .. XLEN - 1, NEW r, HasPc(r, s), HasValues(r, s),
         HasShift(r, k), HasLeftParts(r, s.rs1_value, k),
         s.rd_val = (s.rs1_value * 2 ^ k) % Size
  PROVE  PcPlusFour(r) /\ ShiftsLeft(r)
<1>1. PcPlusFour(r)
  BY PcAccepted
<1>2. PICK x \in 0 .. Size - 1 : x = s.rs1_value
  BY HonestOperands
<1>3. HasLeft(r, x, k)
  BY <1>2 DEF HasLeft, HasLeftParts, HasValues
<1> QED
  BY <1>1, <1>3, LeftGadget

LEMMA RightAccepted ==
  ASSUME NEW s, HonestStep(s), NEW k \in 0 .. XLEN - 1, NEW g \in {0, 1}, NEW r,
         HasPc(r, s), HasValues(r, s), HasShift(r, k), HasRightParts(r, s.rs1_value, k),
         LimbsOf(s.rd_val) = LimbsOf((s.rs1_value - g * Size) \div 2 ^ k)
  PROVE  PcPlusFour(r) /\ ShiftsRight(r, IntoTop(g, k), g * (Base - 1))
<1>1. PcPlusFour(r)
  BY PcAccepted
<1>2. PICK x \in 0 .. Size - 1 : x = s.rs1_value
  BY HonestOperands
<1>3. HasRight(r, x, g, k)
  BY <1>2 DEF HasRight, HasRightParts, HasValues
<1> QED
  BY <1>1, <1>3, RightGadget

\* Nothing is filled in without a sign.
LEMMA NoFill ==
  ASSUME NEW k \in 0 .. XLEN - 1
  PROVE  \A w \in Int : \E g \in {0, 1} :
           g = 0 /\ IntoTop(g, k) = 0 /\ g * (Base - 1) = 0 /\ w - g * Size = w
<1>1. PICK g \in {0, 1} : g = 0
  OBVIOUS
<1>2. PICK c \in Nat \ {0} : c = 2 ^ (LimbBits - (k % LimbBits))
  BY ShiftAmount
<1>3. PICK t \in Int : t = ((Base - 1) * c) % Base
  BY SignFills
<1>4. g * t = 0
  BY <1>1
<1>5. IntoTop(g, k) = 0
  BY <1>2, <1>3, <1>4 DEF IntoTop
<1>6. PICK m \in Int : m = Size
  BY Weights, Geometry
<1>7. PICK b \in Int : b = Base - 1
  BY Weights
<1>8. g * b = 0
  BY <1>1
<1>9. g * m = 0
  BY <1>1
<1>10. ASSUME NEW w \in Int
       PROVE  w - g * m = w
  BY <1>9
<1> QED
  BY <1>1, <1>5, <1>6, <1>7, <1>8, <1>10

LEMMA SllAccepted ==
  ASSUME NEW s, HonestStep(s), s.op = "Sll"
  PROVE  SllAir(SllRow(s))
<1>1. PICK k \in 0 .. XLEN - 1 : k = Shamt(s.rs2_value) /\ k = s.rs2_value % XLEN
  BY Amounts
<1>2. PICK a : a = ShiftColumns(s, k, ShiftLeft)
  OBVIOUS
<1>3. /\ HasPc(a, s) /\ HasValues(a, s) /\ HasShift(a, k)
      /\ HasLeftParts(a, s.rs1_value, k) /\ DOMAIN a = ShiftNames
  BY <1>2, LeftPart
<1>4. PICK r : r = a ++ ShamtHigh(s)
  OBVIOUS
<1>5. HasPc(r, s) /\ HasValues(r, s) /\ HasShift(r, k)
  BY <1>3, <1>4 DEF HasPc, HasValues, HasShift, ShiftNames, ++
<1>6. HasLeftParts(r, s.rs1_value, k)
  BY <1>3, <1>4 DEF HasLeftParts, ShiftNames, ++
<1>7. r.rs2_shamt_high = LimbsOf(s.rs2_value)[0] \div XLEN
  BY <1>3, <1>4 DEF ShamtHigh, ShiftNames, ++
<1>8. s.rd_val = (s.rs1_value * 2 ^ k) % Size
  BY <1>1 DEF HonestStep, Logged, RvAlu, Shifted, RegisterOps
<1>9. PcPlusFour(r) /\ ShiftsLeft(r)
  BY <1>5, <1>6, <1>8, LeftAccepted
<1>10. ShamtFromRs2(r)
  <2>1. PICK w \in 0 .. Size - 1 : w = s.rs2_value
    BY HonestOperands
  <2> QED
    BY <1>1, <1>5, <1>7, <2>1, ShamtGadget DEF HasValues
<1> QED
  BY <1>1, <1>2, <1>4, <1>9, <1>10 DEF SllAir, SllRow

LEMMA SrlAccepted ==
  ASSUME NEW s, HonestStep(s), s.op = "Srl"
  PROVE  SrlAir(SrlRow(s))
<1>1. PICK k \in 0 .. XLEN - 1 : k = Shamt(s.rs2_value) /\ k = s.rs2_value % XLEN
  BY Amounts
<1>2. PICK a : a = ShiftColumns(s, k, ShiftRight)
  OBVIOUS
<1>3. /\ HasPc(a, s) /\ HasValues(a, s) /\ HasShift(a, k)
      /\ HasRightParts(a, s.rs1_value, k) /\ DOMAIN a = ShiftNames
  BY <1>2, RightPart
<1>4. PICK r : r = a ++ ShamtHigh(s)
  OBVIOUS
<1>5. HasPc(r, s) /\ HasValues(r, s) /\ HasShift(r, k)
  BY <1>3, <1>4 DEF HasPc, HasValues, HasShift, ShiftNames, ++
<1>6. HasRightParts(r, s.rs1_value, k)
  BY <1>3, <1>4 DEF HasRightParts, ShiftNames, ++
<1>7. r.rs2_shamt_high = LimbsOf(s.rs2_value)[0] \div XLEN
  BY <1>3, <1>4 DEF ShamtHigh, ShiftNames, ++
<1>8. s.rd_val = s.rs1_value \div 2 ^ k
  BY <1>1 DEF HonestStep, Logged, RvAlu, Shifted, RegisterOps
<1>9. PICK g \in {0, 1} : /\ g = 0 /\ IntoTop(g, k) = 0 /\ g * (Base - 1) = 0
                          /\ s.rs1_value - g * Size = s.rs1_value
  BY HonestOperands, NoFill
<1>10. PcPlusFour(r) /\ ShiftsRight(r, IntoTop(g, k), g * (Base - 1))
  BY <1>5, <1>6, <1>8, <1>9, RightAccepted
<1>11. ShamtFromRs2(r)
  <2>1. PICK w \in 0 .. Size - 1 : w = s.rs2_value
    BY HonestOperands
  <2> QED
    BY <1>1, <1>5, <1>7, <2>1, ShamtGadget DEF HasValues
<1> QED
  BY <1>1, <1>2, <1>4, <1>9, <1>10, <1>11 DEF SrlAir, SrlRow

LEMMA SlliAccepted ==
  ASSUME NEW s, HonestStep(s), s.op = "SlliI"
  PROVE  SlliIAir(SlliIRow(s))
<1>1. PICK k \in 0 .. XLEN - 1 : k = Shamt(s.imm)
  BY Amounts
<1>2. PICK a : a = ShiftColumns(s, k, ShiftLeft)
  OBVIOUS
<1>3. /\ HasPc(a, s) /\ HasValues(a, s) /\ HasShift(a, k)
      /\ HasLeftParts(a, s.rs1_value, k) /\ DOMAIN a = ShiftNames
  BY <1>2, LeftPart
<1>4. PICK r : r = a ++ [imm |-> k]
  OBVIOUS
<1>5. HasPc(r, s) /\ HasValues(r, s) /\ HasShift(r, k)
  BY <1>3, <1>4 DEF HasPc, HasValues, HasShift, ShiftNames, ++
<1>6. HasLeftParts(r, s.rs1_value, k)
  BY <1>3, <1>4 DEF HasLeftParts, ShiftNames, ++
<1>7. r.imm = k
  BY <1>3, <1>4 DEF ShiftNames, ++
<1>8. s.rd_val = (s.rs1_value * 2 ^ k) % Size
  BY <1>1 DEF HonestStep, Logged, RvAlu, Shifted, RegisterOps
<1>9. PcPlusFour(r) /\ ShiftsLeft(r)
  BY <1>5, <1>6, <1>8, LeftAccepted
<1>10. ShamtFromImm(r)
  BY <1>5, <1>7, ShamtImmGadget
<1> QED
  BY <1>1, <1>2, <1>4, <1>9, <1>10 DEF SlliIAir, SlliIRow

LEMMA SrliAccepted ==
  ASSUME NEW s, HonestStep(s), s.op = "SrliI"
  PROVE  SrliIAir(SrliIRow(s))
<1>1. PICK k \in 0 .. XLEN - 1 : k = Shamt(s.imm)
  BY Amounts
<1>2. PICK a : a = ShiftColumns(s, k, ShiftRight)
  OBVIOUS
<1>3. /\ HasPc(a, s) /\ HasValues(a, s) /\ HasShift(a, k)
      /\ HasRightParts(a, s.rs1_value, k) /\ DOMAIN a = ShiftNames
  BY <1>2, RightPart
<1>4. PICK r : r = a ++ [imm |-> k]
  OBVIOUS
<1>5. HasPc(r, s) /\ HasValues(r, s) /\ HasShift(r, k)
  BY <1>3, <1>4 DEF HasPc, HasValues, HasShift, ShiftNames, ++
<1>6. HasRightParts(r, s.rs1_value, k)
  BY <1>3, <1>4 DEF HasRightParts, ShiftNames, ++
<1>7. r.imm = k
  BY <1>3, <1>4 DEF ShiftNames, ++
<1>8. s.rd_val = s.rs1_value \div 2 ^ k
  BY <1>1 DEF HonestStep, Logged, RvAlu, Shifted, RegisterOps
<1>9. PICK g \in {0, 1} : /\ g = 0 /\ IntoTop(g, k) = 0 /\ g * (Base - 1) = 0
                          /\ s.rs1_value - g * Size = s.rs1_value
  BY HonestOperands, NoFill
<1>10. PcPlusFour(r) /\ ShiftsRight(r, IntoTop(g, k), g * (Base - 1))
  BY <1>5, <1>6, <1>8, <1>9, RightAccepted
<1>11. ShamtFromImm(r)
  BY <1>5, <1>7, ShamtImmGadget
<1> QED
  BY <1>1, <1>2, <1>4, <1>9, <1>10, <1>11 DEF SrliIAir, SrliIRow

\* The columns of an arithmetic shift, and what it writes.
HasFill(r, s, k) ==
  /\ r.sign_bit = SignOf(s.rs1_value) /\ r.fill_byte = SignOf(s.rs1_value) * (Base - 1)
  /\ r.rs1_byte3_low7 = TopLow(s.rs1_value)
  /\ r.srl_ff_carry = s.is_dummy * (((Base - 1) * 2 ^ (LimbBits - (k % LimbBits))) % Base)

LEMMA ArithmeticAccepted ==
  ASSUME NEW s, HonestStep(s), NEW k \in 0 .. XLEN - 1, NEW r,
         HasPc(r, s), HasValues(r, s), HasShift(r, k), HasRightParts(r, s.rs1_value, k),
         HasFill(r, s, k), s.rd_val = (Signed(s.rs1_value) \div 2 ^ k) % Size
  PROVE  PcPlusFour(r) /\ FillsWithSign(r)
<1>1. PICK w \in 0 .. Size - 1 : w = s.rs1_value
  BY HonestOperands
<1>2. PICK g \in {0, 1} : g = SignOf(w)
  BY SignSplits
<1>3. Signed(w) = w - g * Size
  BY <1>2, SignSplits
<1>4. LimbsOf(s.rd_val) = LimbsOf((s.rs1_value - g * Size) \div 2 ^ k)
  <2>1. PICK m \in Int : m = Size
    BY Weights, Geometry
  <2>2. PICK x \in Int : x = w - g * m
    <3>1. w \in Int
      BY <2>1
    <3>2. w - g * m \in Int
      BY <3>1
    <3> QED
      BY <3>2
  <2>3. PICK n \in Nat \ {0} : n = 2 ^ k
    <3>1. k \in Nat
      BY Geometry
    <3> QED
      BY <3>1, Power
  <2>4. PICK v \in Int : v = x \div n
    <3>1. x \div n \in Int
      BY Division
    <3> QED
      BY <3>1
  <2>5. LimbsOf(v % Size) = LimbsOf(v)
    BY LimbsOfWrapped
  <2> QED
    BY <1>1, <1>3, <2>1, <2>2, <2>3, <2>4, <2>5
<1>5. PcPlusFour(r) /\ ShiftsRight(r, IntoTop(g, k), g * (Base - 1))
  BY <1>4, RightAccepted
<1>6. r.sign_bit * r.srl_ff_carry = IntoTop(g, k)
  <2>1. PICK c \in Nat \ {0} : c = 2 ^ (LimbBits - (k % LimbBits))
    BY ShiftAmount
  <2>2. PICK t \in Int : t = ((Base - 1) * c) % Base
    BY SignFills
  <2>3. PICK d \in {0, 1} : d = s.is_dummy
    BY DEF HonestStep
  <2>4. d = 0 => g = 0
    <3>1. ASSUME d = 0
          PROVE  g = 0
      <4>1. w = 0
        BY <1>1, <2>3, <3>1 DEF HonestStep
      <4>2. w < Half
        BY <4>1, Halves
      <4>3. SignOf(w) = (IF w < Half THEN 0 ELSE 1)
        BY SignSplits
      <4> QED
        BY <1>2, <4>2, <4>3
    <3> QED
      BY <3>1
  <2>5. g * (d * t) = g * t
    BY <2>4
  <2> QED
    BY <1>1, <1>2, <2>1, <2>2, <2>3, <2>5 DEF HasFill, IntoTop
<1>7. SplitsSign(r.rs1_value[Top], r.sign_bit, r.rs1_byte3_low7)
  BY <1>1, SignAccepted DEF HasFill, HasValues
<1>8. r.sign_bit = g /\ r.fill_byte = g * (Base - 1)
  BY <1>1, <1>2 DEF HasFill
<1> QED
  BY <1>5, <1>6, <1>7, <1>8 DEF FillsWithSign

LEMMA SraAccepted ==
  ASSUME NEW s, HonestStep(s), s.op = "Sra"
  PROVE  SraAir(SraRow(s))
<1>1. PICK k \in 0 .. XLEN - 1 : k = Shamt(s.rs2_value) /\ k = s.rs2_value % XLEN
  BY Amounts
<1>2. PICK a : a = ShiftColumns(s, k, ShiftRight)
  OBVIOUS
<1>3. /\ HasPc(a, s) /\ HasValues(a, s) /\ HasShift(a, k)
      /\ HasRightParts(a, s.rs1_value, k) /\ DOMAIN a = ShiftNames
  BY <1>2, RightPart
<1>4. PICK b : b = a ++ ShamtHigh(s)
  OBVIOUS
<1>5. HasPc(b, s) /\ HasValues(b, s) /\ HasShift(b, k)
  BY <1>3, <1>4 DEF HasPc, HasValues, HasShift, ShiftNames, ++
<1>6. HasRightParts(b, s.rs1_value, k)
  BY <1>3, <1>4 DEF HasRightParts, ShiftNames, ++
<1>7. /\ b.rs2_shamt_high = LimbsOf(s.rs2_value)[0] \div XLEN
      /\ DOMAIN b = ShiftNames \cup {"rs2_shamt_high"}
  BY <1>3, <1>4 DEF ShamtHigh, ShiftNames, ++
<1>8. PICK r : r = b ++ SignFillColumns(s, k)
  OBVIOUS
<1>9. HasPc(r, s) /\ HasValues(r, s) /\ HasShift(r, k)
  BY <1>5, <1>7, <1>8 DEF HasPc, HasValues, HasShift, ShiftNames, ++
<1>10. HasRightParts(r, s.rs1_value, k) /\ r.rs2_shamt_high = LimbsOf(s.rs2_value)[0] \div XLEN
  BY <1>6, <1>7, <1>8 DEF HasRightParts, ShiftNames, ++
<1>11. HasFill(r, s, k)
  BY <1>7, <1>8 DEF HasFill, ShiftRight, SignFillColumns, ShiftNames, ++
<1>12. s.rd_val = (Signed(s.rs1_value) \div 2 ^ k) % Size
  BY <1>1 DEF HonestStep, Logged, RvAlu, Shifted, RegisterOps
<1>13. PcPlusFour(r) /\ FillsWithSign(r)
  BY <1>9, <1>10, <1>11, <1>12, ArithmeticAccepted
<1>14. ShamtFromRs2(r)
  <2>1. PICK w \in 0 .. Size - 1 : w = s.rs2_value
    BY HonestOperands
  <2> QED
    BY <1>1, <1>9, <1>10, <2>1, ShamtGadget DEF HasValues
<1> QED
  BY <1>1, <1>2, <1>4, <1>8, <1>13, <1>14 DEF SraAir, SraRow

LEMMA SraiAccepted ==
  ASSUME NEW s, HonestStep(s), s.op = "SraiI"
  PROVE  SraiIAir(SraiIRow(s))
<1>1. PICK k \in 0 .. XLEN - 1 : k = Shamt(s.imm)
  BY Amounts
<1>2. PICK a : a = ShiftColumns(s, k, ShiftRight)
  OBVIOUS
<1>3. /\ HasPc(a, s) /\ HasValues(a, s) /\ HasShift(a, k)
      /\ HasRightParts(a, s.rs1_value, k) /\ DOMAIN a = ShiftNames
  BY <1>2, RightPart
<1>4. PICK b : b = a ++ [imm |-> k]
  OBVIOUS
<1>5. HasPc(b, s) /\ HasValues(b, s) /\ HasShift(b, k)
  BY <1>3, <1>4 DEF HasPc, HasValues, HasShift, ShiftNames, ++
<1>6. HasRightParts(b, s.rs1_value, k)
  BY <1>3, <1>4 DEF HasRightParts, ShiftNames, ++
<1>7. b.imm = k /\ DOMAIN b = ShiftNames \cup {"imm"}
  BY <1>3, <1>4 DEF ShiftNames, ++
<1>8. PICK r : r = b ++ SignFillColumns(s, k)
  OBVIOUS
<1>9. HasPc(r, s) /\ HasValues(r, s) /\ HasShift(r, k)
  BY <1>5, <1>7, <1>8 DEF HasPc, HasValues, HasShift, ShiftNames, ++
<1>10. HasRightParts(r, s.rs1_value, k) /\ r.imm = k
  BY <1>6, <1>7, <1>8 DEF HasRightParts, ShiftNames, ++
<1>11. HasFill(r, s, k)
  BY <1>7, <1>8 DEF HasFill, ShiftRight, SignFillColumns, ShiftNames, ++
<1>12. s.rd_val = (Signed(s.rs1_value) \div 2 ^ k) % Size
  BY <1>1 DEF HonestStep, Logged, RvAlu, Shifted, RegisterOps
<1>13. PcPlusFour(r) /\ FillsWithSign(r)
  BY <1>9, <1>10, <1>11, <1>12, ArithmeticAccepted
<1>14. ShamtFromImm(r)
  BY <1>9, <1>10, ShamtImmGadget
<1> QED
  BY <1>1, <1>2, <1>4, <1>8, <1>13, <1>14 DEF SraiIAir, SraiIRow

(***************************************************************************)
(* Upper immediates and jumps.                                             *)
(***************************************************************************)
LEMMA UpperAccepted ==
  ASSUME NEW s, HonestStep(s), s.op \in {"Lui", "Auipc"}, NEW r,
         r.imm_low8 = s.imm % Base, r.imm_high12 = s.imm \div Base
  PROVE  Upper(s.imm) \in Int /\ MovesUp(r, LimbsOf(Upper(s.imm)))
<1>1. s.imm \in 0 .. 2 ^ (XLEN - UpperShift) - 1
  BY DEF HonestStep, Immediates, RegisterOps
<1>2. PICK v \in 0 .. 2 ^ (XLEN - UpperShift) - 1 : v = s.imm
  BY <1>1
<1>3. Upper(v) \in 0 .. Size - 1 /\ MovesUp(r, LimbsOf(Upper(v)))
  BY <1>2, UpperGadget
<1>4. PICK m \in Nat \ {0} : m = Size
  BY Weights, Geometry
<1>5. Upper(v) \in Int
  BY <1>3, <1>4
<1> QED
  BY <1>2, <1>3, <1>5

LEMMA LuiAccepted ==
  ASSUME NEW s, HonestStep(s), s.op = "Lui"
  PROVE  LuiAir(LuiRow(s))
<1> DEFINE r == LuiRow(s)
<1>1. HasPc(r, s) /\ HasValues(r, s)
  BY RegisterPart DEF LuiRow
<1>2. r.imm_low8 = s.imm % Base /\ r.imm_high12 = s.imm \div Base
  BY DEF LuiRow, RegisterColumns, PcColumns, ValueColumns, UpperColumns, ++
<1>3. s.rd_val = Upper(s.imm)
  BY DEF HonestStep, Logged, RvAlu, RegisterOps
<1> HIDE DEF r
<1>4. MovesUp(r, r.rd_new_value)
  BY <1>1, <1>2, <1>3, UpperAccepted DEF HasValues
<1> QED
  BY <1>1, <1>4, PcAccepted DEF LuiAir, r

LEMMA AuipcAccepted ==
  ASSUME NEW s, HonestStep(s), s.op = "Auipc"
  PROVE  AuipcAir(AuipcRow(s))
<1>1. PICK u \in Int : u = Upper(s.imm)
  <2>1. PICK r : r = [imm_low8 |-> s.imm % Base, imm_high12 |-> s.imm \div Base]
    OBVIOUS
  <2>2. r.imm_low8 = s.imm % Base /\ r.imm_high12 = s.imm \div Base
    BY <2>1
  <2> QED
    BY <2>2, UpperAccepted
<1>2. PICK a : a = RegisterColumns(s) ++ UpperColumns(s)
  OBVIOUS
<1>3. HasPc(a, s) /\ HasValues(a, s)
  BY <1>2, RegisterPart
<1>4. a.imm_low8 = s.imm % Base /\ a.imm_high12 = s.imm \div Base
  BY <1>2 DEF RegisterColumns, PcColumns, ValueColumns, UpperColumns, ++
<1>5. DOMAIN a = {"pc", "next_pc", "next_pc_carries", "is_dummy", "rs1_value", "rs2_value",
                  "rd_new_value", "imm_low8", "imm_high12"}
  BY <1>2 DEF RegisterColumns, PcColumns, ValueColumns, UpperColumns, ++
<1>6. PICK r : r = a ++ [imm_u |-> LimbsOf(u), add_carries |-> AddCarries(s.pc, u)]
  OBVIOUS
<1>7. HasPc(r, s) /\ HasValues(r, s)
  BY <1>3, <1>5, <1>6 DEF HasPc, HasValues, ++
<1>8. /\ r.imm_low8 = s.imm % Base /\ r.imm_high12 = s.imm \div Base
      /\ r.imm_u = LimbsOf(u) /\ r.add_carries = AddCarries(s.pc, u)
  BY <1>4, <1>5, <1>6 DEF ++
<1>9. s.rd_val = (s.pc + u) % Size
  BY <1>1 DEF HonestStep, Logged, RvAlu, RegisterOps
<1>10. MovesUp(r, r.imm_u)
  BY <1>1, <1>8, UpperAccepted
<1>11. U32Add(r.pc, r.imm_u, r.rd_new_value, r.add_carries)
  <2>1. PICK p \in Int : p = s.pc
    BY HonestOperands
  <2>2. U32Add(LimbsOf(p), LimbsOf(u), LimbsOf((p + u) % Size), AddCarries(p, u))
    BY AddGadget
  <2> QED
    BY <1>7, <1>8, <1>9, <2>1, <2>2 DEF HasPc, HasValues
<1> QED
  BY <1>1, <1>2, <1>6, <1>7, <1>10, <1>11, PcAccepted DEF AuipcAir, AuipcRow

\* The columns of a jump to target.
HasLink(r, s, target) ==
  /\ r.pc = LimbsOf(s.pc) /\ r.next_pc = LimbsOf(target)
  /\ r.rd_val_carries = PlusFourCarries(s.pc) /\ r.is_dummy = s.is_dummy

LEMMA JumpPart ==
  ASSUME NEW s, NEW target, NEW g
  PROVE  /\ HasLink(JumpColumns(s, target) ++ g, s, target)
         /\ HasValues(JumpColumns(s, target) ++ g, s)
BY DEF JumpColumns, ValueColumns, HasLink, HasValues, ++

LEMMA LinkAccepted ==
  ASSUME NEW s, NEW r, HonestStep(s), s.op \in {"Jal", "Jalr"}, NEW target,
         HasLink(r, s, target), HasValues(r, s)
  PROVE  LinksPcPlusFour(r)
<1>1. s.pc \in 0 .. Size - 5 /\ s.is_dummy \in {0, 1} /\ s.rd_val = s.pc + 4
  BY DEF HonestStep
<1>2. U32PlusFour(LimbsOf(s.pc), LimbsOf(s.pc + 4), PlusFourCarries(s.pc))
  BY <1>1, FourGadget
<1> QED
  BY <1>1, <1>2 DEF LinksPcPlusFour, HasLink, HasValues, Boolean

LEMMA JalAccepted ==
  ASSUME NEW s, HonestStep(s), s.op = "Jal"
  PROVE  JalAir(JalRow(s))
<1>1. JumpBits \in Nat /\ s.imm \in Extended(JumpSign) /\ s.imm % 2 = 0 /\ s.rd \in Nat
  BY DEF HonestStep, Immediates, RegisterOps
<1>2. PICK v \in Extended(JumpSign) : v = s.imm
  BY <1>1
<1>3. PICK f : f = JumpFields(v)
  OBVIOUS
<1>4. PICK t : t = (s.pc + s.imm) % Size
  OBVIOUS
<1>5. PICK a : a = [i \in 0 .. UpperShift - 1 |-> Bit(f.high12, i)]
  OBVIOUS
<1>6. PICK b : b = [i \in 0 .. JumpBits - 1 |-> Bit(f.lo8, i)]
  OBVIOUS
<1>7. PICK g : g = [imm_high12 |-> f.high12, imm_lo8 |-> f.lo8,
                    imm_high12_bits |-> a, imm_lo8_bits |-> b,
                    imm_j |-> LimbsOf(s.imm), jmp_carries |-> AddCarries(s.pc, s.imm),
                    rd |-> s.rd, rd_is_zero |-> Truth(s.rd = 0), rd_times_inv |-> Truth(s.rd # 0)]
  OBVIOUS
<1>8. PICK r : r = JumpColumns(s, t) ++ g
  OBVIOUS
<1>9. HasLink(r, s, t) /\ HasValues(r, s)
  BY <1>8, JumpPart
<1>10. DOMAIN JumpColumns(s, t) = {"rs1_value", "rs2_value", "rd_new_value", "pc", "next_pc",
                                   "rd_val_carries", "is_dummy"}
  BY DEF JumpColumns, ValueColumns, ++
<1>11. /\ r.imm_high12 = f.high12 /\ r.imm_lo8 = f.lo8
       /\ r.imm_high12_bits = a /\ r.imm_lo8_bits = b
  BY <1>7, <1>8, <1>10 DEF ++
<1>12. r.imm_j = LimbsOf(s.imm) /\ r.jmp_carries = AddCarries(s.pc, s.imm)
  BY <1>7, <1>8, <1>10 DEF ++
<1>13. r.rd = s.rd /\ r.rd_is_zero = Truth(s.rd = 0) /\ r.rd_times_inv = Truth(s.rd # 0)
  BY <1>7, <1>8, <1>10 DEF ++
<1>14. HasJump(r, v)
  BY <1>3, <1>5, <1>6, <1>11 DEF HasJump
<1>15. v % 2 = 0
  BY <1>1, <1>2
<1>16. /\ AllBits(r.imm_high12_bits) /\ r.imm_high12 = BitsValue(r.imm_high12_bits, UpperShift)
       /\ AllBits(r.imm_lo8_bits) /\ r.imm_lo8 = BitsValue(r.imm_lo8_bits, JumpBits)
       /\ JumpOffset(r.imm_high12_bits, r.imm_lo8_bits) = v
  BY <1>1, <1>14, <1>15, JumpGadget
<1>17. U32Add(r.pc, r.imm_j, r.next_pc, r.jmp_carries)
  <2>1. PICK p \in Int : p = s.pc
    BY HonestOperands
  <2>2. PICK i \in Int : i = s.imm
    BY HonestOperands
  <2>3. U32Add(LimbsOf(p), LimbsOf(i), LimbsOf((p + i) % Size), AddCarries(p, i))
    BY AddGadget
  <2> QED
    BY <1>4, <1>9, <1>12, <2>1, <2>2, <2>3 DEF HasLink
<1>18. IsZeroTest(r)
  <2>1. PICK d \in Nat : d = s.rd
    BY <1>1
  <2> QED
    BY <1>13, <2>1 DEF IsZeroTest, Truth, Boolean
<1>19. LinksPcPlusFour(r)
  BY <1>9, LinkAccepted
<1>20. r = JalRow(s)
  BY <1>2, <1>3, <1>4, <1>5, <1>6, <1>7, <1>8 DEF JalRow
<1>21. JalAir(r)
  BY <1>2, <1>12, <1>16, <1>17, <1>18, <1>19 DEF JalAir
<1> QED
  BY <1>20, <1>21

\* Clearing the lowest bit of a word changes its low limb alone.
LEMMA LowestBit ==
  ASSUME NEW v \in Int, NEW e \in Int, e = v % 2
  PROVE  /\ e \in {0, 1}
         /\ LimbsOf(v)[0] = LimbsOf(v - e)[0] + e
         /\ \A i \in Limb \ {0} : LimbsOf(v - e)[i] = LimbsOf(v)[i]
<1>1. PICK b \in Nat \ {0} : b = Base
  BY Weights
<1>2. PICK h \in Nat \ {0} : b = 2 * h
  BY <1>1, Halves
<1>3. PICK q \in Int, m \in Int : q = v \div b /\ m = v % b /\ m \in 0 .. b - 1 /\ v = b * q + m
  BY DivisionParts
<1>4. PICK t \in Nat \ {0} : t = 2
  OBVIOUS
<1>5. PICK k \in Int, f \in Int : k = v \div t /\ f = v % t /\ f \in 0 .. t - 1 /\ v = t * k + f
  BY DivisionParts
<1>6. e = f /\ e \in {0, 1}
  BY <1>4, <1>5
<1>7. PICK n \in Int : n = h * q
  OBVIOUS
<1>8. b * q = 2 * n
  BY <1>2, <1>7
<1>9. m - e \in 0 .. b - 1
  <2>1. PICK u \in Int : u = k - n
    OBVIOUS
  <2>2. m = 2 * u + e
    BY <1>3, <1>4, <1>5, <1>6, <1>8, <2>1
  <2> QED
    BY <1>3, <1>6, <2>2
<1>10. PICK w \in Int : w = v - e
  OBVIOUS
<1>11. PICK o \in Int : o = m - e /\ o \in 0 .. b - 1
  BY <1>9
<1>12. w = b * q + o
  BY <1>3, <1>10, <1>11
<1>13. w \div b = q /\ w % b = o
  BY <1>12, <1>11, DivisionUnique
<1>14. LimbsOf(v)[0] = m /\ LimbsOf(w)[0] = o
  <2>1. PICK z \in Limb : z = 0
    BY Geometry
  <2>2. /\ LimbsOf(v)[z] = (v \div Weight(z)) % Base
        /\ LimbsOf(w)[z] = (w \div Weight(z)) % Base
    BY <2>1, LimbStep
  <2>3. v \div Weight(0) = v /\ w \div Weight(0) = w
    BY QuotientEnds
  <2> QED
    BY <1>1, <1>3, <1>13, <2>1, <2>2, <2>3
<1>15. ASSUME NEW i \in Limb \ {0}
       PROVE  LimbsOf(w)[i] = LimbsOf(v)[i]
  <2>0. i \in Limb
    OBVIOUS
  <2>1. PICK j \in Nat : i = j + 1
    <3>1. i - 1 \in Nat /\ i = (i - 1) + 1
      BY Geometry
    <3> QED
      BY <3>1
  <2>2. PICK d \in Nat \ {0} : d = Weight(j)
    BY <2>1, Weights
  <2>3. Weight(i) = b * d
    <3>1. Weight(j + 1) = Weight(j) * Base
      BY Weights
    <3>2. d * b = b * d
      OBVIOUS
    <3> QED
      BY <1>1, <2>1, <2>2, <3>1, <3>2
  <2>4. (v \div b) \div d = v \div (b * d) /\ (w \div b) \div d = w \div (b * d)
    BY QuotientOfQuotient
  <2>5. v \div Weight(i) = w \div Weight(i)
    BY <1>3, <1>13, <2>3, <2>4
  <2>6. /\ LimbsOf(v)[i] = (v \div Weight(i)) % Base
        /\ LimbsOf(w)[i] = (w \div Weight(i)) % Base
    BY <2>0, LimbStep
  <2> QED
    BY <2>5, <2>6
<1>16. m = o + e
  BY <1>11
<1>17. LimbsOf(v)[0] = LimbsOf(w)[0] + e
  BY <1>14, <1>16
<1> HIDE DEF LimbsOf
<1> QED
  BY <1>6, <1>10, <1>15, <1>17

LEMMA JalrAccepted ==
  ASSUME NEW s, HonestStep(s), s.op = "Jalr"
  PROVE  JalrAir(JalrRow(s))
<1>1. PICK x \in Int : x = s.rs1_value
  BY HonestOperands
<1>2. PICK y \in Int : y = s.imm
  BY HonestOperands
<1>3. PICK sum \in Int : sum = (x + y) % Size
  <2>1. PICK m \in Nat \ {0} : m = Size
    BY Weights, Geometry
  <2>2. PICK z \in Int : z = x + y
    OBVIOUS
  <2>3. z % m \in Int
    BY Division
  <2> QED
    BY <2>1, <2>2, <2>3
<1>4. PICK e \in Int : e = sum % 2
  OBVIOUS
<1>5. PICK a : a = JumpColumns(s, sum - e)
  OBVIOUS
<1>6. PICK b : b = a ++ ImmColumns(s)
  OBVIOUS
<1>7. HasLink(b, s, sum - e) /\ HasValues(b, s)
  BY <1>5, <1>6, JumpPart
<1>8. HasImm(b, s.imm)
  BY <1>5, <1>6 DEF JumpColumns, ValueColumns, ImmColumns, HasImm, ++
<1>9. DOMAIN b = {"rs1_value", "rs2_value", "rd_new_value", "pc", "next_pc", "rd_val_carries",
                  "is_dummy", "imm", "imm_high_bits", "imm_se_bytes"}
  BY <1>5, <1>6 DEF JumpColumns, ValueColumns, ImmColumns, ++
<1>10. PICK r : r = b ++ [sum |-> LimbsOf(sum), sum_carries |-> AddCarries(x, y), sum_lsb |-> e]
  OBVIOUS
<1>11. HasLink(r, s, sum - e) /\ HasValues(r, s)
  BY <1>7, <1>9, <1>10 DEF HasLink, HasValues, ++
<1>12. HasImm(r, s.imm)
  BY <1>8, <1>9, <1>10 DEF HasImm, ++
<1>13. r.sum = LimbsOf(sum) /\ r.sum_carries = AddCarries(x, y) /\ r.sum_lsb = e
  BY <1>9, <1>10 DEF ++
<1>14. U32Add(r.rs1_value, r.imm_se_bytes, r.sum, r.sum_carries)
  <2>1. U32Add(LimbsOf(x), LimbsOf(y), LimbsOf((x + y) % Size), AddCarries(x, y))
    BY AddGadget
  <2> QED
    BY <1>1, <1>2, <1>3, <1>11, <1>12, <1>13, <2>1 DEF HasValues, HasImm
<1>15. /\ e \in {0, 1}
       /\ LimbsOf(sum)[0] = LimbsOf(sum - e)[0] + e
       /\ \A i \in Limb \ {0} : LimbsOf(sum - e)[i] = LimbsOf(sum)[i]
  BY <1>4, LowestBit
<1>16. /\ Boolean(r.sum_lsb) /\ r.sum[0] = r.next_pc[0] + r.sum_lsb
       /\ \A i \in Limb \ {0} : r.next_pc[i] = r.sum[i]
  BY <1>11, <1>13, <1>15 DEF HasLink, Boolean
<1>17. LinksPcPlusFour(r)
  BY <1>11, LinkAccepted
<1>18. SignExtendsImm(r)
  BY <1>12, ImmAccepted DEF ImmOps
<1>19. r = JalrRow(s)
  BY <1>1, <1>2, <1>3, <1>4, <1>5, <1>6, <1>10 DEF JalrRow
<1>20. JalrAir(r)
  BY <1>14, <1>16, <1>17, <1>18 DEF JalrAir
<1> QED
  BY <1>19, <1>20

(***************************************************************************)
(* Every instruction.                                                      *)
(***************************************************************************)
LEMMA RowAccepted ==
  ASSUME NEW s, HonestStep(s)
  PROVE  Accepts(s.op, Row(s))
<1>1. s.op \in Ops
  BY DEF HonestStep
<1>2. CASE s.op \in {"Xor", "Or", "And", "XorI", "OriI", "AndiI"}
  BY <1>2, LogicAccepted
<1>3. CASE s.op = "Add"
  BY <1>3, AddAccepted DEF Accepts, Row
<1>4. CASE s.op = "Sub"
  BY <1>4, SubAccepted DEF Accepts, Row
<1>5. CASE s.op = "AddI"
  BY <1>5, AddIAccepted DEF Accepts, Row
<1>6. CASE s.op = "Slt"
  BY <1>6, SltAccepted DEF Accepts, Row
<1>7. CASE s.op = "Sltu"
  BY <1>7, SltuAccepted DEF Accepts, Row
<1>8. CASE s.op = "SltiI"
  BY <1>8, SltiAccepted DEF Accepts, Row
<1>9. CASE s.op = "SltiuI"
  BY <1>9, SltiuAccepted DEF Accepts, Row
<1>10. CASE s.op = "Sll"
  BY <1>10, SllAccepted DEF Accepts, Row
<1>11. CASE s.op = "Srl"
  BY <1>11, SrlAccepted DEF Accepts, Row
<1>12. CASE s.op = "Sra"
  BY <1>12, SraAccepted DEF Accepts, Row
<1>13. CASE s.op = "SlliI"
  BY <1>13, SlliAccepted DEF Accepts, Row
<1>14. CASE s.op = "SrliI"
  BY <1>14, SrliAccepted DEF Accepts, Row
<1>15. CASE s.op = "SraiI"
  BY <1>15, SraiAccepted DEF Accepts, Row
<1>16. CASE s.op = "Lui"
  BY <1>16, LuiAccepted DEF Accepts, Row
<1>17. CASE s.op = "Auipc"
  BY <1>17, AuipcAccepted DEF Accepts, Row
<1>18. CASE s.op = "Jal"
  BY <1>18, JalAccepted DEF Accepts, Row
<1>19. CASE s.op = "Jalr"
  BY <1>19, JalrAccepted DEF Accepts, Row
<1> QED
  BY <1>1, <1>2, <1>3, <1>4, <1>5, <1>6, <1>7, <1>8, <1>9, <1>10, <1>11, <1>12, <1>13, <1>14,
     <1>15, <1>16, <1>17, <1>18, <1>19 DEF Ops

\* The columns of the row of a step that go to other tables.
LEMMA MergeAssociates ==
  ASSUME NEW f, NEW g, NEW h
  PROVE  (f ++ g) ++ h = f ++ (g ++ h)
BY DEF ++

LEMMA RowStarts ==
  ASSUME NEW s, s.op \in Ops \ {"Jal", "Jalr"}
  PROVE  Row(s) = RegisterColumns(s) \/ \E g : Row(s) = RegisterColumns(s) ++ g
<1>1. CASE s.op \in {"Xor", "Or", "And"}
  BY <1>1 DEF Row, XorRow, OrRow, AndRow
<1>2. CASE s.op \in {"Add", "Sub", "Sltu", "Lui", "XorI", "OriI", "AndiI"}
  BY <1>2 DEF Row, AddRow, SubRow, SltuRow, LuiRow, XorIRow, OriIRow, AndiIRow
<1>3. CASE s.op \in {"AddI", "Slt", "SltiuI", "Auipc"}
  BY <1>3, MergeAssociates DEF Row, AddIRow, SltRow, SltiuIRow, AuipcRow
<1>4. CASE s.op = "SltiI"
  BY <1>4, MergeAssociates DEF Row, SltiIRow
<1>5. ASSUME NEW k
      PROVE  /\ \E g : ShiftColumns(s, k, ShiftLeft) = RegisterColumns(s) ++ g
             /\ \E g : ShiftColumns(s, k, ShiftRight) = RegisterColumns(s) ++ g
  BY DEF ShiftColumns
<1>6. CASE s.op \in {"Sll", "Srl"}
  BY <1>5, <1>6, MergeAssociates DEF Row, SllRow, SrlRow
<1>7. CASE s.op \in {"SlliI", "SrliI"}
  BY <1>5, <1>7, MergeAssociates DEF Row, SlliIRow, SrliIRow
<1>8. CASE s.op = "Sra"
  BY <1>5, <1>8, MergeAssociates DEF Row, SraRow
<1>9. CASE s.op = "SraiI"
  BY <1>5, <1>9, MergeAssociates DEF Row, SraiIRow
<1> QED
  BY <1>1, <1>2, <1>3, <1>4, <1>6, <1>7, <1>8, <1>9 DEF Ops

LEMMA RowColumns ==
  ASSUME NEW s, s.op \in Ops
  PROVE  /\ HasValues(Row(s), s)
         /\ s.op \notin {"Jal", "Jalr"} => HasPc(Row(s), s)
         /\ s.op = "Jal" => HasLink(Row(s), s, (s.pc + s.imm) % Size)
         /\ s.op = "Jalr" =>
              LET sum == (s.rs1_value + s.imm) % Size IN HasLink(Row(s), s, sum - (sum % 2))
<1>1. CASE s.op \in Ops \ {"Jal", "Jalr"}
  <2>1. HasPc(RegisterColumns(s), s) /\ HasValues(RegisterColumns(s), s)
    BY DEF RegisterColumns, PcColumns, ValueColumns, HasPc, HasValues, ++
  <2> QED
    BY <1>1, <2>1, RowStarts, RegisterPart
<1>2. CASE s.op = "Jal"
  <2>1. PICK t : t = (s.pc + s.imm) % Size
    OBVIOUS
  <2>2. \E g : Row(s) = JumpColumns(s, t) ++ g
    BY <1>2, <2>1 DEF Row, JalRow
  <2> QED
    BY <1>2, <2>1, <2>2, JumpPart
<1>3. CASE s.op = "Jalr"
  <2>1. PICK sum : sum = (s.rs1_value + s.imm) % Size
    OBVIOUS
  <2>2. PICK t : t = sum - (sum % 2)
    OBVIOUS
  <2>3. \E g : Row(s) = JumpColumns(s, t) ++ g
    BY <1>3, <2>1, <2>2, MergeAssociates DEF Row, JalrRow
  <2> QED
    BY <1>3, <2>1, <2>2, <2>3, JumpPart
<1> QED
  BY <1>1, <1>2, <1>3

LEMMA RowCompares ==
  ASSUME NEW s, HonestStep(s), s.op \in Comparisons
  PROVE  Row(s).lt_result = s.rd_val /\ s.rd_val \in {0, 1}
<1>1. CASE s.op = "Sltu"
  <2>1. Row(s).lt_result = Truth(s.rs1_value < s.rs2_value)
    BY <1>1 DEF Row, SltuRow, RegisterColumns, PcColumns, ValueColumns, CompareColumns, ++
  <2>2. s.rd_val = Truth(s.rs1_value < s.rs2_value)
    BY <1>1 DEF HonestStep, Logged, RvAlu, Compared, RegisterOps
  <2> QED
    BY <2>1, <2>2 DEF Truth
<1>2. CASE s.op = "SltiuI"
  <2>1. PICK a : a = RegisterColumns(s) ++ ImmColumns(s)
    OBVIOUS
  <2>2. "lt_result" \notin DOMAIN a
    BY <2>1 DEF RegisterColumns, PcColumns, ValueColumns, ImmColumns, ++
  <2>3. PICK t : t = Truth(s.rs1_value < s.imm)
    OBVIOUS
  <2>4. (a ++ CompareColumns(s.rs1_value, s.imm, s.rs1_value < s.imm)).lt_result = t
    BY <2>2, <2>3 DEF CompareColumns, ++
  <2>5. s.rd_val = t
    BY <1>2, <2>3 DEF HonestStep, Logged, RvAlu, Compared, RegisterOps
  <2>6. Row(s) = a ++ CompareColumns(s.rs1_value, s.imm, s.rs1_value < s.imm)
    BY <1>2, <2>1 DEF Row, SltiuIRow
  <2> QED
    BY <2>3, <2>4, <2>5, <2>6 DEF Truth
<1>3. CASE s.op = "Slt"
  <2> DEFINE less == Signed(s.rs1_value) < Signed(s.rs2_value)
  <2>1. PICK a : a = RegisterColumns(s) ++ CompareColumns(s.rs1_value, s.rs2_value, less)
    OBVIOUS
  <2>2. "lt_result" \in DOMAIN a /\ a.lt_result = Truth(less)
    BY <2>1 DEF RegisterColumns, PcColumns, ValueColumns, CompareColumns, ++
  <2>3. PICK g : Row(s) = a ++ g
    BY <1>3, <2>1 DEF Row, SltRow
  <2>4. (a ++ g).lt_result = a.lt_result
    BY <2>2 DEF ++
  <2>5. s.rd_val = Truth(less)
    BY <1>3 DEF HonestStep, Logged, RvAlu, Compared, RegisterOps
  <2> QED
    BY <2>2, <2>3, <2>4, <2>5 DEF Truth
<1>4. CASE s.op = "SltiI"
  <2> DEFINE less == Signed(s.rs1_value) < Signed(s.imm)
  <2>1. PICK i : i = RegisterColumns(s) ++ ImmColumns(s)
    OBVIOUS
  <2>2. "lt_result" \notin DOMAIN i
    BY <2>1 DEF RegisterColumns, PcColumns, ValueColumns, ImmColumns, ++
  <2>3. PICK a : a = i ++ CompareColumns(s.rs1_value, s.imm, less)
    OBVIOUS
  <2>4. "lt_result" \in DOMAIN a /\ a.lt_result = Truth(less)
    BY <2>2, <2>3 DEF CompareColumns, ++
  <2>5. PICK g : Row(s) = a ++ g
    BY <1>4, <2>1, <2>3 DEF Row, SltiIRow
  <2>6. (a ++ g).lt_result = a.lt_result
    BY <2>4 DEF ++
  <2>7. s.rd_val = Truth(less)
    BY <1>4 DEF HonestStep, Logged, RvAlu, Compared, RegisterOps
  <2> QED
    BY <2>4, <2>5, <2>6, <2>7 DEF Truth
<1> QED
  BY <1>1, <1>2, <1>3, <1>4 DEF Comparisons

(***************************************************************************)
(* The state: the steps of a run, and the tables generated from them.      *)
(***************************************************************************)
Generated ==
  /\ trace # <<>>
  /\ tables = [op \in {trace[i].op : i \in DOMAIN trace} |-> Table(op)]
  /\ received = Received

TableInv ==
  /\ trace \in Seq(StepsFrom(Inputs))
  /\ (tables = <<>> /\ received = <<>>) \/ Generated

\* A step of a run is a step of Inputs with the VM's value.
LEMMA StepFields ==
  ASSUME NEW s \in StepsFrom(Inputs)
  PROVE  /\ s.op \in Ops /\ s.pc \in 0 .. Size - 5 /\ s.rd \in Nat
         /\ s.rs1_value \in 0 .. Size - 1 /\ s.rs2_value \in 0 .. Size - 1
         /\ s.imm \in 0 .. Size - 1 /\ s.imm \in Immediates(s.op)
         /\ s.op = "Jal" => JumpBits \in Nat
         /\ s.is_dummy = 1 /\ s.rd_val = Logged(s)
<1>1. PICK x \in Inputs : s = [rd_val |-> Logged(x), is_dummy |-> 1] ++ x
  BY DEF StepsFrom
<1>2. /\ x \in [op : Ops, pc : 0 .. Size - 5, rd : Nat, imm : 0 .. Size - 1,
                rs1_value : 0 .. Size - 1, rs2_value : 0 .. Size - 1]
      /\ x.imm \in Immediates(x.op) /\ (x.op = "Jal" => JumpBits \in Nat)
  BY InputsAssumption
<1>3. DOMAIN x = {"op", "pc", "rd", "imm", "rs1_value", "rs2_value"}
  BY <1>2
<1>4. /\ x.op \in Ops /\ x.pc \in 0 .. Size - 5 /\ x.rd \in Nat /\ x.imm \in 0 .. Size - 1
      /\ x.rs1_value \in 0 .. Size - 1 /\ x.rs2_value \in 0 .. Size - 1
  BY <1>2
<1>5. /\ s.op = x.op /\ s.pc = x.pc /\ s.rd = x.rd /\ s.imm = x.imm
      /\ s.rs1_value = x.rs1_value /\ s.rs2_value = x.rs2_value
      /\ s.rd_val = Logged(x) /\ s.is_dummy = 1
  BY <1>1, <1>3 DEF ++
<1>6. Logged(s) = Logged(x)
  BY <1>5 DEF Logged
<1> QED
  BY <1>2, <1>4, <1>5, <1>6

\* A step whose value is its AIR's is honest: all but the jumps to x0.
LEMMA StepHonest ==
  ASSUME NEW s \in StepsFrom(Inputs), ~(s.op = "Jalr" /\ s.rd = 0)
  PROVE  HonestStep(s)
<1>1. PICK m \in Nat \ {0} : m = Size
  BY Weights, Geometry
<1>2. s.op \in {"Jal", "Jalr"} => s.rd_val = s.pc + 4
  <2>1. PICK p \in Int : p = s.pc + 4 /\ p \in 0 .. m - 1
    BY <1>1, StepFields
  <2>2. PICK o \in Int : o = 0
    OBVIOUS
  <2>3. p = m * o + p
    BY <2>2
  <2>4. p % m = p
    BY <2>1, <2>3, DivisionUnique
  <2>5. s.op \in {"Jal", "Jalr"} => s.rd_val = (s.pc + 4) % Size
    BY StepFields DEF Logged, RegisterOps
  <2> QED
    BY <1>1, <2>1, <2>4, <2>5
<1> QED
  BY <1>2, StepFields DEF HonestStep

\* The steps of an instruction are those of the trace, in their order.
LEMMA StepsSelected ==
  ASSUME trace \in Seq(StepsFrom(Inputs)), NEW op
  PROVE  /\ StepsOf(op) \in Seq(StepsFrom(Inputs))
         /\ \A j \in 1 .. Len(StepsOf(op)) : StepsOf(op)[j].op = op
         /\ \E p \in Bijection({i \in DOMAIN trace : trace[i].op = op}, 1 .. Len(StepsOf(op))) :
              \A i \in DOMAIN trace : trace[i].op = op => StepsOf(op)[p[i]] = trace[i]
<1>1. PICK n \in Nat : n = Len(trace)
  OBVIOUS
<1>2. DOMAIN trace = 1 .. n /\ trace \in [1 .. n -> StepsFrom(Inputs)]
  BY <1>1
<1>3. PICK G \in SUBSET (1 .. n) : G = {i \in DOMAIN trace : trace[i].op = op}
  BY <1>2
<1>4. PICK ss : ss = [i \in DOMAIN trace |-> IF trace[i].op = op THEN <<trace[i]>> ELSE <<>>]
  OBVIOUS
<1>5. Selects(ss, n, trace, G)
  BY <1>2, <1>3, <1>4 DEF Selects
<1>6. StepsOf(op) = FlattenSeq(ss)
  BY <1>4 DEF StepsOf
<1>7. PICK S : S = StepsFrom(Inputs)
  OBVIOUS
<1>8. /\ FlattenSeq(ss) \in Seq(S)
      /\ \E p \in Bijection(G, 1 .. Len(FlattenSeq(ss))) : \A i \in G : FlattenSeq(ss)[p[i]] = trace[i]
  <2>1. PICK u : u = trace
    OBVIOUS
  <2>2. u \in [1 .. n -> S] /\ Selects(ss, n, u, G)
    BY <1>2, <1>5, <1>7, <2>1
  <2>3. /\ FlattenSeq(ss) \in Seq(S)
        /\ \E p \in Bijection(G, 1 .. Len(FlattenSeq(ss))) : \A i \in G : FlattenSeq(ss)[p[i]] = u[i]
    BY ONLY <2>2, n \in Nat, G \in SUBSET (1 .. n), FlattenSelected
  <2> QED
    BY <2>1, <2>3
<1>9. PICK p \in Bijection(G, 1 .. Len(FlattenSeq(ss))) : \A i \in G : FlattenSeq(ss)[p[i]] = trace[i]
  BY <1>8
<1>10. \A j \in 1 .. Len(FlattenSeq(ss)) : \E i \in G : p[i] = j
  BY <1>9 DEF Bijection, Surjection
<1>11. \A j \in 1 .. Len(FlattenSeq(ss)) : FlattenSeq(ss)[j].op = op
  BY <1>3, <1>9, <1>10
<1>12. \E q \in Bijection({i \in DOMAIN trace : trace[i].op = op}, 1 .. Len(FlattenSeq(ss))) :
         \A i \in DOMAIN trace : trace[i].op = op => FlattenSeq(ss)[q[i]] = trace[i]
  BY <1>3, <1>9
<1> QED
  BY <1>6, <1>7, <1>8, <1>11, <1>12

LEMMA TableInvInductive == ListSpec => []TableInv
<1>1. ListInit => TableInv
  BY DEF ListInit, TablesInit, TableInv
<1>2. TableInv /\ [ListNext]_listVars => TableInv'
  <2> SUFFICES ASSUME TableInv, [ListNext]_listVars
               PROVE  TableInv'
    OBVIOUS
  <2>1. CASE UNCHANGED tvars
    <3>1. trace' = trace /\ tables' = tables /\ received' = received
      BY <2>1 DEF tvars
    <3>2. StepsFrom(Inputs)' = StepsFrom(Inputs)
      OBVIOUS
    <3>3. \A op : Table(op)' = Table(op)
      BY <3>1 DEF Table, StepsOf
    <3>4. Received' = Received
      BY <3>1 DEF Received
    <3>5. Generated => Generated'
      BY <3>1, <3>3, <3>4 DEF Generated
    <3> QED
      BY <3>1, <3>2, <3>5 DEF TableInv
  <2>2. CASE Execute
    <3>1. tables = <<>> /\ received = <<>>
      <4>1. tables = <<>>
        BY <2>2 DEF Execute
      <4>2. ASSUME Generated
            PROVE  FALSE
        <5>1. Len(trace) # 0
          BY <4>2 DEF TableInv, Generated
        <5>2. DOMAIN tables = {trace[i].op : i \in DOMAIN trace}
          BY <4>2 DEF Generated
        <5>3. 1 \in DOMAIN trace
          BY <5>1 DEF TableInv
        <5>4. trace[1].op \in DOMAIN tables
          BY <5>2, <5>3
        <5>5. DOMAIN tables = {}
          BY <4>1
        <5> QED
          BY <5>4, <5>5
      <4> QED
        BY <4>1, <4>2 DEF TableInv
    <3>2. MixedInputs \subseteq Inputs
      BY InputsAssumption
    <3>3. PICK s \in StepsFrom(Inputs) : trace' = Append(trace, s)
      BY <2>2, <3>2 DEF Execute, StepsFrom
    <3>4. trace' \in Seq(StepsFrom(Inputs))
      BY <3>3 DEF TableInv
    <3>5. tables' = <<>> /\ received' = <<>>
      BY <2>2, <3>1 DEF Execute
    <3> QED
      BY <3>4, <3>5 DEF TableInv, StepsFrom, Logged
  <2>3. CASE GenerateTraces
    <3>1. Generated'
      BY <2>3 DEF GenerateTraces, Generated, Table, StepsOf, Received
    <3> QED
      BY <2>3, <3>1 DEF GenerateTraces, TableInv
  <2>4. CASE UNCHANGED listVars
    BY <2>1, <2>4 DEF listVars
  <2>5. CASE ExecuteStep
    BY <2>2, <2>5 DEF ExecuteStep
  <2>6. CASE GenerateAllTraces
    BY <2>3, <2>6 DEF GenerateAllTraces
  <2>7. CASE IntoVecs \/ DoProve
    BY <2>1, <2>7 DEF IntoVecs, DoProve
  <2> QED
    BY <2>4, <2>5, <2>6, <2>7 DEF ListNext, Proved
<1> QED
  BY <1>1, <1>2, PTL DEF ListSpec

(***************************************************************************)
(* Padding rows.                                                           *)
(***************************************************************************)
LEMMA ZeroParts ==
  ASSUME NEW n \in Nat \ {0}, NEW o \in Int, o = 0
  PROVE  o \div n = 0 /\ o % n = 0
<1>1. o = n * o + o /\ o \in 0 .. n - 1
  OBVIOUS
<1>2. o \div n = o /\ o % n = o
  BY <1>1, DivisionUnique
<1> QED
  BY <1>2

\* All bits are 0.
NoBits(a) == \A i \in 0 .. XLEN - 1 : a[i] = 0

LEMMA BitsOfZero ==
  ASSUME NEW a, NoBits(a)
  PROVE  Digits(a, 2, XLEN)[0] = 0
<1>1. PICK n \in Nat : n = XLEN
  BY Geometry
<1>2. PICK q : q = [i \in 0 .. n |-> 0]
  OBVIOUS
<1>3. PICK b \in Int : b = 2
  OBVIOUS
<1>4. SuffixesAre(q, a, b, n)
  BY <1>1, <1>2, <1>3 DEF SuffixesAre, NoBits
<1>5. \A i \in 0 .. n : Digits(a, b, n)[i] = q[i]
  BY <1>4, DigitsUnique
<1> QED
  BY <1>1, <1>2, <1>3, <1>5

LEMMA PaddingValue ==
  ASSUME NEW s, s.op \in Ops \ {"Jal", "Jalr"}, s.pc = 0, s.imm = 0,
         s.rs1_value = 0, s.rs2_value = 0
  PROVE  Logged(s) = 0
<1>1. PICK o \in Int : o = 0
  OBVIOUS
<1>2. PICK m \in Nat \ {0} : m = Size
  BY Weights, Geometry
<1>3. PICK x \in Nat \ {0} : x = XLEN
  BY Geometry
<1>4. PICK z \in Nat : z = o
  BY <1>1
<1>5. PICK e \in Nat \ {0} : e = 2 ^ z
  BY Power
<1>6. o % m = o /\ o % x = o /\ o \div e = o
  BY <1>1, ZeroParts
<1>7. Shamt(o) = o /\ 2 ^ o = e
  BY <1>3, <1>4, <1>5, <1>6 DEF Shamt
<1>8. Signed(o) = o
  <2>1. o \in 0 .. Size - 1
    BY <1>1, <1>2
  <2>2. /\ SignOf(o) = (IF o < Half THEN 0 ELSE 1)
        /\ Signed(o) = o - SignOf(o) * Size
    BY <2>1, SignSplits
  <2>3. SignOf(o) = 0
    BY <1>1, <2>2, Halves
  <2>4. 0 * m = 0
    OBVIOUS
  <2> QED
    BY <1>1, <1>2, <2>2, <2>3, <2>4
<1>9. ASSUME NEW i \in Nat
      PROVE  Bit(o, i) = 0
  <2>1. PICK d \in Nat \ {0} : d = 2 ^ i
    BY Power
  <2>2. PICK t \in Nat \ {0} : t = 2
    OBVIOUS
  <2>3. o \div d = o /\ o % t = o
    BY <1>1, ZeroParts
  <2> QED
    BY <1>1, <2>1, <2>2, <2>3 DEF Bit
<1>10. /\ Bitwise(BitXor, o, o) = 0 /\ Bitwise(BitAnd, o, o) = 0 /\ Bitwise(BitOr, o, o) = 0
  <2>0. \A i \in 0 .. XLEN - 1 : i \in Nat
    BY Geometry
  <2>1. PICK a : a = [i \in 0 .. XLEN - 1 |-> BitXor(Bit(o, i), Bit(o, i))]
    OBVIOUS
  <2>2. PICK b : b = [i \in 0 .. XLEN - 1 |-> BitAnd(Bit(o, i), Bit(o, i))]
    OBVIOUS
  <2>3. PICK c : c = [i \in 0 .. XLEN - 1 |-> BitOr(Bit(o, i), Bit(o, i))]
    OBVIOUS
  <2>4. NoBits(a)
    BY <1>9, <2>0, <2>1 DEF NoBits, BitXor
  <2>5. NoBits(b)
    BY <1>9, <2>0, <2>2 DEF NoBits, BitAnd
  <2>6. NoBits(c)
    BY <1>9, <2>0, <2>3 DEF NoBits, BitOr
  <2> QED
    BY <2>1, <2>2, <2>3, <2>4, <2>5, <2>6, BitsOfZero DEF Bitwise
<1>11. PICK u \in Nat \ {0} : u = 2 ^ UpperShift
  BY ImmWeights
<1>12. Upper(o) = o
  <2>1. o * u = o
    BY <1>1
  <2> QED
    BY <1>2, <1>6, <1>11, <2>1 DEF Upper
<1>13. /\ s.pc = o /\ s.imm = o /\ s.rs1_value = o /\ s.rs2_value = o
  BY <1>1
<1>14. CASE s.op \in {"Add", "AddI", "Sub"}
  <2>1. o + o = o /\ o - o = o
    BY <1>1
  <2> QED
    BY <1>1, <1>2, <1>6, <1>13, <1>14, <2>1 DEF Logged, RvAlu, Arithmetic, RegisterOps
<1>15. CASE s.op \in {"Xor", "XorI", "And", "AndiI", "Or", "OriI"}
  BY <1>10, <1>13, <1>15 DEF Logged, RvAlu, Logical, RegisterOps
<1>16. CASE s.op \in {"Sll", "SlliI", "Srl", "SrliI", "Sra", "SraiI"}
  <2>1. o * e = o
    BY <1>1
  <2> QED
    BY <1>1, <1>2, <1>6, <1>7, <1>8, <1>13, <1>16, <2>1 DEF Logged, RvAlu, Shifted, RegisterOps
<1>17. CASE s.op \in {"Slt", "SltiI", "Sltu", "SltiuI"}
  BY <1>8, <1>13, <1>17, <1>1 DEF Logged, RvAlu, Compared, Truth, RegisterOps
<1>18. CASE s.op \in {"Lui", "Auipc"}
  <2>1. o + o = o
    BY <1>1
  <2> QED
    BY <1>1, <1>2, <1>6, <1>12, <1>13, <1>18, <2>1 DEF Logged, RvAlu, RegisterOps
<1> QED
  BY <1>14, <1>15, <1>16, <1>17, <1>18 DEF Ops

LEMMA PaddingHonest ==
  ASSUME NEW op \in Ops, op = "Jal" => JumpBits \in Nat
  PROVE  \E s : HonestStep(s) /\ s.op = op /\ PaddingRow(op) = Row(s)
<1>1. PICK s : s = [op |-> op, pc |-> 0, rd |-> 0, imm |-> 0, rs1_value |-> 0, rs2_value |-> 0,
                    rd_val |-> IF op \in {"Jal", "Jalr"} THEN 4 ELSE 0, is_dummy |-> 0]
  OBVIOUS
<1>2. /\ s.op = op /\ s.pc = 0 /\ s.rd = 0 /\ s.imm = 0 /\ s.rs1_value = 0 /\ s.rs2_value = 0
      /\ s.is_dummy = 0 /\ s.rd_val = IF op \in {"Jal", "Jalr"} THEN 4 ELSE 0
  BY <1>1
<1>3. PICK m \in Nat \ {0} : m = Size /\ m >= 16
  <2>1. PICK k \in Nat : k = XLEN - 4
    BY Geometry
  <2>2. PICK f \in Nat : f = 4
    OBVIOUS
  <2>3. PICK x \in Nat : x = XLEN /\ x = k + f
    BY <2>1, <2>2, Geometry
  <2>4. 2 ^ (k + f) = 2 ^ k * 2 ^ f
    BY PowersMultiply
  <2>5. PICK a \in Nat \ {0} : a = 2 ^ k
    BY Power
  <2>6. 2 ^ f = 16
    BY <2>2
  <2>7. Size = a * 16
    BY <2>3, <2>4, <2>5, <2>6 DEF Size
  <2> QED
    BY <2>7
<1>4. 0 \in Immediates(op)
  <2>1. /\ 2 ^ (XLEN - UpperShift) \in Nat \ {0} /\ 2 ^ (UpperShift - 1) \in Nat \ {0}
    BY ImmWeights
  <2>2. op = "Jal" => 2 ^ JumpSign \in Nat \ {0}
    <3>1. ASSUME op = "Jal"
          PROVE  2 ^ JumpSign \in Nat \ {0}
      <4>1. JumpSign \in Nat
        BY <3>1, Geometry DEF JumpSign
      <4> QED
        BY <4>1, Power
    <3> QED
      BY <3>1
  <2>3. 0 \in 0 .. XLEN - 1 /\ 0 \in 0 .. Size - 1
    BY <1>3, Geometry
  <2>4. PICK o \in Int : o = 0 /\ o % 2 = 0
    OBVIOUS
  <2>5. o \in 0 .. 2 ^ (XLEN - UpperShift) - 1 /\ o \in Extended(UpperShift - 1)
    BY <2>1, <2>4 DEF Extended
  <2>6. op = "Jal" => o \in Extended(JumpSign)
    BY <2>2, <2>4 DEF Extended
  <2> QED
    BY <2>3, <2>4, <2>5, <2>6 DEF Immediates
<1>5. op \notin {"Jal", "Jalr"} => Logged(s) = 0
  BY <1>2, PaddingValue
<1>6. /\ 0 \in 0 .. Size - 5 /\ 0 \in 0 .. Size - 1
  BY <1>3
<1>7. HonestStep(s)
  BY <1>2, <1>4, <1>5, <1>6 DEF HonestStep
<1> QED
  BY <1>1, <1>2, <1>7 DEF PaddingRow

(***************************************************************************)
(* The tables generated.                                                   *)
(***************************************************************************)
LEMMA TableShape ==
  ASSUME TableInv, NEW op \in DOMAIN tables
  PROVE  /\ op \in Ops /\ (op = "Jal" => JumpBits \in Nat)
         /\ RealRows(op) = 1 .. Len(StepsOf(op)) /\ RealRows(op) \subseteq DOMAIN tables[op]
         /\ \A i \in RealRows(op) :
              /\ StepAt(op, i) \in StepsFrom(Inputs) /\ StepAt(op, i).op = op
              /\ tables[op][i] = Row(StepAt(op, i))
         /\ \A i \in DOMAIN tables[op] : i \notin RealRows(op) => tables[op][i] = PaddingRow(op)
<1>1. Generated
  <2>1. ASSUME tables = <<>>
        PROVE  FALSE
    BY <2>1
  <2> QED
    BY <2>1 DEF TableInv
<1>2. PICK k \in DOMAIN trace : op = trace[k].op
  BY <1>1 DEF Generated
<1>3. trace[k] \in StepsFrom(Inputs)
  BY DEF TableInv
<1>4. op \in Ops /\ (op = "Jal" => JumpBits \in Nat)
  BY <1>2, <1>3, StepFields
<1>5. /\ StepsOf(op) \in Seq(StepsFrom(Inputs))
      /\ \A j \in 1 .. Len(StepsOf(op)) : StepsOf(op)[j].op = op
  BY StepsSelected DEF TableInv
<1>6. PICK n \in Nat : n = Len(StepsOf(op))
  BY <1>5
<1>7. NumRows(n) \in Nat /\ NumRows(n) >= n
  BY NumRowsFit
<1>8. tables[op] = [i \in 1 .. NumRows(n) |-> IF i <= n THEN Row(StepsOf(op)[i]) ELSE PaddingRow(op)]
  BY <1>1, <1>6 DEF Generated, Table
<1>9. RealRows(op) = 1 .. n /\ \A i \in 1 .. n : StepsOf(op)[i] \in StepsFrom(Inputs)
  BY <1>5, <1>6 DEF RealRows
<1> QED
  BY <1>4, <1>5, <1>6, <1>7, <1>8, <1>9 DEF StepAt

LEMMA RowsAccepted ==
  ASSUME TableInv
  PROVE  RowsSatisfyAirs
<1> SUFFICES ASSUME NEW op \in DOMAIN tables, NEW i \in DOMAIN tables[op], ~LinksNothing(op, i)
             PROVE  Accepts(op, tables[op][i])
  BY DEF RowsSatisfyAirs
<1>1. CASE i \in RealRows(op)
  <2>1. PICK s \in StepsFrom(Inputs) : s = StepAt(op, i) /\ s.op = op /\ tables[op][i] = Row(s)
    BY <1>1, TableShape
  <2>2. HonestStep(s)
    BY <1>1, <2>1, StepHonest DEF LinksNothing
  <2> QED
    BY <2>1, <2>2, RowAccepted
<1>2. CASE i \notin RealRows(op)
  <2>1. op \in Ops /\ (op = "Jal" => JumpBits \in Nat) /\ tables[op][i] = PaddingRow(op)
    BY <1>2, TableShape
  <2>2. PICK s : HonestStep(s) /\ s.op = op /\ PaddingRow(op) = Row(s)
    BY <2>1, PaddingHonest
  <2> QED
    BY <2>1, <2>2, RowAccepted
<1> QED
  BY <1>1, <1>2

\* Every row the builders fill, for a step or for none, satisfies the AIR of
\* its instruction, for words and limbs of any size and any operands.
THEOREM RowsAlwaysSatisfyAirs == ListSpec => []RowsSatisfyAirs
<1>1. TableInv => RowsSatisfyAirs
  BY RowsAccepted
<1> QED
  BY <1>1, TableInvInductive, PTL

\* The limbs of a bit.
LEMMA LimbsOfBit ==
  ASSUME NEW t \in {0, 1}
  PROVE  LimbsOf(t) = [i \in Limb |-> IF i = 0 THEN t ELSE 0]
<1>1. PICK b \in Nat \ {0} : b = Base /\ b >= 4
  BY Weights
<1>2. PICK o \in Int : o = 0
  OBVIOUS
<1>3. PICK v \in Int : v = t
  OBVIOUS
<1>4. ASSUME NEW i \in Limb
      PROVE  LimbsOf(v)[i] = IF i = 0 THEN v ELSE 0
  <2>1. LimbsOf(v)[i] = (v \div Weight(i)) % Base
    BY LimbStep
  <2>2. CASE i = 0
    <3>1. v = b * o + v /\ v \in 0 .. b - 1
      BY <1>1, <1>2, <1>3
    <3>2. v % b = v
      BY <3>1, DivisionUnique
    <3>3. v \div Weight(0) = v
      BY QuotientEnds
    <3> QED
      BY <1>1, <2>1, <2>2, <3>2, <3>3
  <2>3. CASE i # 0
    <3>1. PICK j \in Nat : i = j + 1
      <4>1. i - 1 \in Nat /\ i = (i - 1) + 1
        BY <2>3, Geometry
      <4> QED
        BY <4>1
    <3>2. PICK w \in Nat \ {0} : w = Weight(i) /\ w >= 2
      <4>1. PICK d \in Nat \ {0} : d = Weight(j)
        BY Weights
      <4>2. Weight(j + 1) = d * b
        BY <1>1, <4>1, Weights
      <4>3. d * b >= 2 /\ d * b \in Nat \ {0}
        BY <1>1
      <4> QED
        BY <3>1, <4>2, <4>3
    <3>3. v = w * o + v /\ v \in 0 .. w - 1
      BY <1>2, <1>3, <3>2
    <3>4. v \div w = o
      BY <3>3, DivisionUnique
    <3>5. o % b = 0
      BY <1>2, ZeroParts
    <3> QED
      BY <1>1, <1>2, <2>1, <2>3, <3>2, <3>4, <3>5
  <2> QED
    BY <2>2, <2>3
<1>5. LimbsOf(v) = [i \in Limb |-> LimbsOf(v)[i]]
  BY DEF LimbsOf
<1> QED
  BY <1>3, <1>4, <1>5

\* The next pc of a step depends on its fields alone.
LEMMA RowsWrite ==
  ASSUME NEW s \in StepsFrom(Inputs)
  PROVE  /\ WrittenBy(s.op, Row(s)) = LimbsOf(s.rd_val)
         /\ Row(s).next_pc = LimbsOf(NextPc(s))
<1>1. s.op \in Ops
  BY StepFields
<1>2. Row(s).next_pc = LimbsOf(NextPc(s))
  BY <1>1, RowColumns DEF NextPc, HasPc, HasLink
<1>3. CASE s.op \in Comparisons
  <2>1. HonestStep(s)
    BY <1>3, StepHonest DEF Comparisons
  <2>2. PICK t \in {0, 1} : t = s.rd_val /\ Row(s).lt_result = t
    BY <1>3, <2>1, RowCompares
  <2>3. LimbsOf(t) = [i \in Limb |-> IF i = 0 THEN t ELSE 0]
    BY LimbsOfBit
  <2> QED
    BY <1>2, <1>3, <2>2, <2>3 DEF WrittenBy
<1>4. CASE s.op \notin Comparisons
  BY <1>1, <1>2, <1>4, RowColumns DEF WrittenBy, HasValues
<1> QED
  BY <1>3, <1>4

\* A row writes to rd what the VM logged, and continues where the VM did.
THEOREM RowsAlwaysAgreeWithVm == ListSpec => []RowsAgreeWithVm
<1>1. TableInv => RowsAgreeWithVm
  <2> SUFFICES ASSUME TableInv, NEW op \in DOMAIN tables, NEW i \in RealRows(op)
               PROVE  /\ WrittenBy(op, tables[op][i]) = LimbsOf(StepAt(op, i).rd_val)
                      /\ tables[op][i].next_pc = LimbsOf(NextPc(StepAt(op, i)))
    BY DEF RowsAgreeWithVm
  <2>1. PICK s \in StepsFrom(Inputs) : s = StepAt(op, i) /\ s.op = op /\ tables[op][i] = Row(s)
    BY TableShape
  <2> QED
    BY <2>1, RowsWrite
<1> QED
  BY <1>1, TableInvInductive, PTL

(***************************************************************************)
(* The limbs of a word put together from bits.                             *)
(***************************************************************************)
\* The bits of a limb are bits of the word.
LEMMA BitOfLimb ==
  ASSUME NEW v \in Int, NEW i \in Limb, NEW k \in Nat
  PROVE  Bit(LimbsOf(v)[i], k) = IF k < LimbBits THEN Bit(v, LimbBits * i + k) ELSE 0
<1>1. PICK b \in Nat \ {0} : b = Base
  BY Weights
<1>0. i \in Nat
  BY Geometry
<1>2. PICK w \in Nat \ {0} : w = Weight(i)
  BY <1>0, Weights
<1>3. PICK u \in Int : u = v \div w
  <2>1. v \div w \in Int
    BY Division
  <2> QED
    BY <2>1
<1>4. PICK q \in Int, m \in Int : q = u \div b /\ m = u % b /\ m \in 0 .. b - 1 /\ u = b * q + m
  BY DivisionParts
<1>5. LimbsOf(v)[i] = m
  BY <1>1, <1>2, <1>3, <1>4, LimbStep
<1>6. PICK p \in Nat \ {0} : p = 2 ^ k
  BY Power
<1>7. CASE k < LimbBits
  <2>1. PICK n \in Nat : LimbBits = k + (n + 1)
    <3>1. LimbBits - k - 1 \in Nat /\ LimbBits = k + ((LimbBits - k - 1) + 1)
      BY <1>7, Geometry
    <3> QED
      BY <3>1
  <2>2. PICK l \in Nat : l = n + 1
    OBVIOUS
  <2>3. 2 ^ (k + l) = 2 ^ k * 2 ^ l
    BY PowersMultiply
  <2>4. PICK h \in Nat \ {0} : 2 ^ l = 2 * h
    <3>1. 2 ^ (n + 1) = 2 * 2 ^ n
      BY TwoPowers
    <3>2. 2 ^ n \in Nat \ {0}
      BY Power
    <3> QED
      BY <2>2, <3>1, <3>2
  <2>5. b = p * (2 * h)
    BY <1>1, <1>6, <2>1, <2>2, <2>3, <2>4 DEF Base
  <2>6. PICK d \in Int : d = m \div p
    <3>1. m \div p \in Int
      BY Division
    <3> QED
      BY <3>1
  <2>7. PICK g \in Int : g = h * q
    OBVIOUS
  <2>8. PICK e \in Int : e = 2 * g
    OBVIOUS
  <2>9. u = p * e + m
    <3>1. b * q = p * e
      <4>1. (p * (2 * h)) * q = p * (2 * (h * q))
        OBVIOUS
      <4> QED
        BY <2>5, <2>7, <2>8, <4>1
    <3> QED
      BY <1>4, <3>1
  <2>10. u \div p = e + d
    <3>1. (p * e + m) \div p = e + (m \div p)
      BY AddMultiple
    <3> QED
      BY <2>6, <2>9, <3>1
  <2>11. PICK t \in Nat \ {0} : t = 2
    OBVIOUS
  <2>12. (t * g + d) % t = d % t
    BY AddMultiple
  <2>13. (e + d) % 2 = d % 2
    BY <2>8, <2>11, <2>12
  <2>14. Bit(m, k) = d % 2
    BY <1>6, <2>6 DEF Bit
  <2>15. Bit(v, LimbBits * i + k) = (u \div p) % 2
    <3>1. PICK j \in Nat : j = LimbBits * i
      BY <1>0, Weights
    <3>2. 2 ^ (j + k) = 2 ^ j * 2 ^ k
      BY PowersMultiply
    <3>3. 2 ^ (LimbBits * i + k) = w * p
      BY <1>2, <1>6, <3>1, <3>2 DEF Weight
    <3>4. (v \div w) \div p = v \div (w * p)
      BY QuotientOfQuotient
    <3> QED
      BY <1>3, <3>3, <3>4 DEF Bit
  <2> QED
    BY <1>5, <1>7, <2>10, <2>13, <2>14, <2>15
<1>8. CASE ~(k < LimbBits)
  <2>1. PICK n \in Nat : k = LimbBits + n
    <3>1. k - LimbBits \in Nat /\ k = LimbBits + (k - LimbBits)
      BY <1>8, Geometry
    <3> QED
      BY <3>1
  <2>2. PICK c \in Nat \ {0} : c = 2 ^ n
    BY Power
  <2>3. 2 ^ (LimbBits + n) = 2 ^ LimbBits * 2 ^ n
    BY Geometry, PowersMultiply
  <2>4. p = b * c
    BY <1>1, <1>6, <2>1, <2>2, <2>3 DEF Base
  <2>5. p >= b
    BY <2>4
  <2>6. PICK o \in Int : o = 0
    OBVIOUS
  <2>7. m = p * o + m /\ m \in 0 .. p - 1
    BY <1>4, <2>5, <2>6
  <2>8. m \div p = o
    BY <2>7, DivisionUnique
  <2>9. o % 2 = 0
    BY <2>6
  <2> QED
    BY <1>5, <1>6, <1>8, <2>8, <2>9 DEF Bit
<1> QED
  BY <1>7, <1>8

\* a is an array of bits.
WordBits(a) == \A j \in 0 .. XLEN - 1 : a[j] \in {0, 1}

\* A number has the bits it was put together from.
LEMMA BitsRecovered ==
  ASSUME NEW a, WordBits(a)
  PROVE  /\ Digits(a, 2, XLEN)[0] \in Int
         /\ \A j \in 0 .. XLEN - 1 : Bit(Digits(a, 2, XLEN)[0], j) = a[j]
<1>1. PICK n \in Nat : n = XLEN /\ n > 0
  BY Geometry
<1>2. PICK t \in Nat \ {0} : t = 2
  OBVIOUS
<1>3. PICK D : D = Digits(a, t, n)
  OBVIOUS
<1>4. D \in [0 .. n -> Int] /\ \A j \in 0 .. n - 1 : D[j] = a[j] + t * D[j + 1]
  <2>1. t \in Int /\ \A j \in 0 .. n - 1 : a[j] \in Int
    BY <1>1, <1>2 DEF WordBits
  <2> QED
    BY <1>3, <2>1, DigitsStep
<1>5. PICK v \in Int : v = D[0]
  BY <1>4
<1>6. ASSUME NEW j \in 0 .. n - 1
      PROVE  D[j] \div t = D[j + 1] /\ D[j] % t = a[j] /\ D[j] \in Int /\ D[j + 1] \in Int
  <2>1. PICK x \in Int : x = D[j]
    BY <1>4
  <2>2. PICK y \in Int : y = D[j + 1]
    BY <1>4
  <2>3. PICK r \in 0 .. t - 1 : r = a[j]
    BY <1>1, <1>2 DEF WordBits
  <2>4. x = t * y + r
    BY <1>4, <2>1, <2>2, <2>3
  <2>5. x \div t = y /\ x % t = r
    BY <2>4, DivisionUnique
  <2> QED
    BY <2>1, <2>2, <2>3, <2>5
<1> DEFINE S == {j \in 0 .. n : D[j] = v \div 2 ^ j}
<1>7. 0 \in S
  <2>1. v \div 1 = v
    OBVIOUS
  <2>2. 2 ^ 0 = 1
    BY PowerZero
  <2> QED
    BY <1>1, <1>5, <2>1, <2>2
<1>8. ASSUME NEW j \in 0 .. n - 1, j \in S
      PROVE  j + 1 \in S
  <2>1. PICK p \in Nat \ {0} : p = 2 ^ j
    BY Power
  <2>2. 2 ^ (j + 1) = p * t
    <3>1. 2 ^ (j + 1) = 2 * 2 ^ j
      BY TwoPowers
    <3> QED
      BY <1>2, <2>1, <3>1
  <2>3. (v \div p) \div t = v \div (p * t)
    BY QuotientOfQuotient
  <2>4. D[j] = v \div p
    BY <1>8, <2>1
  <2>5. D[j + 1] = v \div 2 ^ (j + 1)
    BY <1>6, <2>2, <2>3, <2>4
  <2> QED
    BY <1>1, <2>5
<1>9. \A j \in 0 .. n : j \in S
  <2> HIDE DEF S
  <2>1. 0 .. n \subseteq S
    BY <1>7, <1>8, InductionTo
  <2> QED
    BY <2>1
<1>10. ASSUME NEW j \in 0 .. n - 1
       PROVE  Bit(v, j) = a[j]
  <2>1. D[j] = v \div 2 ^ j
    BY <1>9
  <2>2. D[j] % 2 = a[j]
    BY <1>2, <1>6
  <2> QED
    BY <2>1, <2>2 DEF Bit
<1> QED
  BY <1>1, <1>2, <1>3, <1>5, <1>10

\* b has the bits of limb i of a.
LimbPart(a, b, i) ==
  \A k \in 0 .. XLEN - 1 : b[k] = IF k < LimbBits THEN a[LimbBits * i + k] ELSE 0

LEMMA LimbOfBits ==
  ASSUME NEW a, WordBits(a), NEW i \in Limb, NEW b, LimbPart(a, b, i)
  PROVE  LimbsOf(Digits(a, 2, XLEN)[0])[i] = Digits(b, 2, XLEN)[0]
<1>1. PICK v \in Int : v = Digits(a, 2, XLEN)[0] /\ \A j \in 0 .. XLEN - 1 : Bit(v, j) = a[j]
  BY BitsRecovered
<1>2. PICK m \in Int : m = LimbsOf(v)[i] /\ m \in 0 .. Base - 1
  BY LimbStep, LimbInt
<1>3. i \in Nat /\ i <= NumLimbs - 1
  BY Geometry
<1>4. ASSUME NEW k \in 0 .. XLEN - 1
      PROVE  b[k] = Bit(m, k)
  <2>1. k \in Nat
    BY Geometry
  <2>2. Bit(m, k) = IF k < LimbBits THEN Bit(v, LimbBits * i + k) ELSE 0
    BY <1>2, <2>1, BitOfLimb
  <2>3. k < LimbBits => LimbBits * i + k \in 0 .. XLEN - 1
    <3>1. ASSUME k < LimbBits
          PROVE  LimbBits * i + k \in 0 .. XLEN - 1
      <4>1. PICK l \in Nat : l = LimbBits
        BY Geometry
      <4>2. PICK n \in Nat : n = NumLimbs /\ i + 1 <= n /\ XLEN = l * n
        BY <1>3, <4>1, Geometry
      <4>3. l * (i + 1) <= l * n
        BY <1>3, <4>1, <4>2
      <4>4. l * (i + 1) = l * i + l
        BY <1>3, <4>1
      <4>5. l * i \in Nat /\ l * n \in Nat
        BY <1>3, <4>1, <4>2
      <4> QED
        BY <2>1, <3>1, <4>1, <4>2, <4>3, <4>4, <4>5
    <3> QED
      BY <3>1
  <2> QED
    BY <1>1, <2>2, <2>3 DEF LimbPart
<1>5. PICK o \in Nat : o = 0
  OBVIOUS
<1>6. PICK n \in Nat : n = XLEN
  BY Geometry
<1>7. BitsFrom(b, m, o, n)
  <2>1. \A k \in 0 .. n - 1 : o + k = k
    BY <1>5
  <2> QED
    BY <1>4, <1>6, <2>1 DEF BitsFrom
<1>8. Digits(b, 2, n)[0] = (m \div 2 ^ o) % 2 ^ n
  BY <1>7, BitsOfQuotient
<1>9. (m \div 2 ^ o) % 2 ^ n = m
  <2>1. m \div 1 = m
    OBVIOUS
  <2>2. 2 ^ o = 1
    BY <1>5, PowerZero
  <2>3. PICK s \in Nat \ {0} : s = 2 ^ n
    BY Power
  <2>4. m \in 0 .. s - 1
    <3>1. PICK c \in Nat \ {0} : c = Base
      BY Weights
    <3>2. PICK j \in Nat : XLEN = LimbBits + j
      <4>1. PICK l \in Nat : l = LimbBits
        BY Geometry
      <4>2. PICK k \in Nat : NumLimbs = 1 + k
        <5>1. NumLimbs - 1 \in Nat /\ NumLimbs = 1 + (NumLimbs - 1)
          BY Geometry
        <5> QED
          BY <5>1
      <4>3. l * (1 + k) = l + l * k /\ l * k \in Nat
        BY <4>1
      <4> QED
        BY <4>1, <4>2, <4>3, Geometry
    <3>3. 2 ^ (LimbBits + j) = 2 ^ LimbBits * 2 ^ j
      BY Geometry, PowersMultiply
    <3>4. PICK d \in Nat \ {0} : d = 2 ^ j
      BY Power
    <3>5. s = c * d
      BY <1>6, <2>3, <3>1, <3>2, <3>3, <3>4 DEF Base
    <3>6. s >= c
      BY <3>5
    <3> QED
      BY <1>2, <3>1, <3>6
  <2>5. m % s = m
    <3>1. PICK z \in Int : z = 0
      OBVIOUS
    <3>2. m = s * z + m
      BY <3>1
    <3> QED
      BY <2>4, <3>2, DivisionUnique
  <2> QED
    BY <2>1, <2>2, <2>3, <2>5
<1> QED
  BY <1>1, <1>2, <1>6, <1>8, <1>9

\* A limb of a logic result is the result on the limbs.
LEMMA BitwiseLimb ==
  ASSUME NEW x \in Int, NEW y \in Int, NEW i \in Limb
  PROVE  /\ LimbsOf(Bitwise(BitXor, x, y))[i] = Bitwise(BitXor, LimbsOf(x)[i], LimbsOf(y)[i])
         /\ LimbsOf(Bitwise(BitOr, x, y))[i] = Bitwise(BitOr, LimbsOf(x)[i], LimbsOf(y)[i])
         /\ LimbsOf(Bitwise(BitAnd, x, y))[i] = Bitwise(BitAnd, LimbsOf(x)[i], LimbsOf(y)[i])
<1>1. PICK l : l = LimbsOf(x)[i]
  OBVIOUS
<1>2. PICK m : m = LimbsOf(y)[i]
  OBVIOUS
<1>3. ASSUME NEW v \in Int, NEW k \in Nat
      PROVE  Bit(v, k) \in {0, 1}
  <2>1. PICK p \in Nat \ {0} : p = 2 ^ k
    BY Power
  <2>2. PICK q \in Int : q = v \div p
    <3>1. v \div p \in Int
      BY Division
    <3> QED
      BY <3>1
  <2>3. q % 2 \in {0, 1}
    OBVIOUS
  <2> QED
    BY <2>1, <2>2, <2>3 DEF Bit
<1>4. ASSUME NEW k \in 0 .. XLEN - 1
      PROVE  /\ k \in Nat
             /\ Bit(l, k) = IF k < LimbBits THEN Bit(x, LimbBits * i + k) ELSE 0
             /\ Bit(m, k) = IF k < LimbBits THEN Bit(y, LimbBits * i + k) ELSE 0
             /\ k < LimbBits => LimbBits * i + k \in 0 .. XLEN - 1
  <2>1. k \in Nat
    BY Geometry
  <2>3. k < LimbBits => LimbBits * i + k \in 0 .. XLEN - 1
    <3>1. ASSUME k < LimbBits
          PROVE  LimbBits * i + k \in 0 .. XLEN - 1
      <4>0. i \in Nat /\ i <= NumLimbs - 1
        BY Geometry
      <4>1. PICK c \in Nat : c = LimbBits
        BY Geometry
      <4>2. PICK n \in Nat : n = NumLimbs /\ i + 1 <= n /\ XLEN = c * n
        BY <4>0, <4>1, Geometry
      <4>3. c * (i + 1) <= c * n
        BY <4>0, <4>1, <4>2
      <4>4. c * (i + 1) = c * i + c
        BY <4>0, <4>1
      <4>5. c * i \in Nat /\ c * n \in Nat
        BY <4>0, <4>1, <4>2
      <4> QED
        BY <2>1, <3>1, <4>1, <4>2, <4>3, <4>4, <4>5
    <3> QED
      BY <3>1
  <2> QED
    BY <1>1, <1>2, <2>1, <2>3, BitOfLimb
<1>5. ASSUME NEW k \in 0 .. XLEN - 1
      PROVE  Bit(x, k) \in {0, 1} /\ Bit(y, k) \in {0, 1}
  BY <1>3, <1>4
<1>6. LimbsOf(Bitwise(BitXor, x, y))[i] = Bitwise(BitXor, l, m)
  <2>1. PICK a : a = [k \in 0 .. XLEN - 1 |-> BitXor(Bit(x, k), Bit(y, k))]
    OBVIOUS
  <2>2. PICK b : b = [k \in 0 .. XLEN - 1 |-> BitXor(Bit(l, k), Bit(m, k))]
    OBVIOUS
  <2>3. WordBits(a)
    BY <1>5, <2>1 DEF WordBits, BitXor
  <2>4. LimbPart(a, b, i)
    BY <1>4, <2>1, <2>2 DEF LimbPart, BitXor
  <2> QED
    BY <2>1, <2>2, <2>3, <2>4, LimbOfBits DEF Bitwise
<1>7. LimbsOf(Bitwise(BitOr, x, y))[i] = Bitwise(BitOr, l, m)
  <2>1. PICK a : a = [k \in 0 .. XLEN - 1 |-> BitOr(Bit(x, k), Bit(y, k))]
    OBVIOUS
  <2>2. PICK b : b = [k \in 0 .. XLEN - 1 |-> BitOr(Bit(l, k), Bit(m, k))]
    OBVIOUS
  <2>3. WordBits(a)
    BY <1>5, <2>1 DEF WordBits, BitOr
  <2>4. LimbPart(a, b, i)
    BY <1>4, <2>1, <2>2 DEF LimbPart, BitOr
  <2> QED
    BY <2>1, <2>2, <2>3, <2>4, LimbOfBits DEF Bitwise
<1>8. LimbsOf(Bitwise(BitAnd, x, y))[i] = Bitwise(BitAnd, l, m)
  <2>1. PICK a : a = [k \in 0 .. XLEN - 1 |-> BitAnd(Bit(x, k), Bit(y, k))]
    OBVIOUS
  <2>2. PICK b : b = [k \in 0 .. XLEN - 1 |-> BitAnd(Bit(l, k), Bit(m, k))]
    OBVIOUS
  <2>3. WordBits(a)
    BY <1>5, <2>1 DEF WordBits, BitAnd
  <2>4. LimbPart(a, b, i)
    BY <1>4, <2>1, <2>2 DEF LimbPart, BitAnd
  <2> QED
    BY <2>1, <2>2, <2>3, <2>4, LimbOfBits DEF Bitwise
<1> QED
  BY <1>1, <1>2, <1>6, <1>7, <1>8

(***************************************************************************)
(* The result of an accepted row is the only one.                          *)
(***************************************************************************)
IntLimbs(x)  == \A i \in Limb : x[i] \in Int
ByteLimbs(x) == \A i \in Limb : x[i] \in 0 .. Base - 1
SameLimbs(x, y) == \A i \in Limb : x[i] = y[i]

LEMMA BytesAreInts ==
  ASSUME NEW x, ByteLimbs(x)
  PROVE  IntLimbs(x)
<1>1. PICK b \in Nat : b = Base
  BY Weights
<1> QED
  BY <1>1 DEF ByteLimbs, IntLimbs

\* A limb and a carry are what their sum says.
LEMMA LimbAndCarry ==
  ASSUME NEW x \in 0 .. Base - 1, NEW y \in 0 .. Base - 1, NEW c \in {0, 1}, NEW d \in {0, 1},
         NEW p \in Int, NEW q \in Int, p = c * Base, q = d * Base, x + p = y + q
  PROVE  x = y /\ c = d
<1>1. PICK b \in Nat : b = Base
  BY Weights
<1>2. p = (IF c = 1 THEN b ELSE 0) /\ q = (IF d = 1 THEN b ELSE 0)
  BY <1>1
<1> QED
  BY <1>1, <1>2

\* Sums and carries are forced, from the low limb up.
LEMMA SumForced ==
  ASSUME NEW x, NEW y, NEW z, NEW c, NEW w, NEW d, IntLimbs(x), IntLimbs(y),
         ByteLimbs(z), ByteLimbs(w), U32Add(x, y, z, c), U32Add(x, y, w, d)
  PROVE  SameLimbs(z, w)
<1>1. PICK n \in Nat : n = NumLimbs /\ n >= 1 /\ Limb = 0 .. n - 1
  BY Geometry
<1> DEFINE S == {i \in 0 .. n : i = n \/ (z[i] = w[i] /\ c[i] = d[i])}
<1>2. ASSUME NEW i \in Limb, i = 0 \/ c[i - 1] = d[i - 1]
      PROVE  z[i] = w[i] /\ c[i] = d[i]
  <2>1. PICK u \in Int : u = x[i] + y[i]
    BY DEF IntLimbs
  <2>2. PICK k \in Int : k = CarryIn(c, i, 0) /\ k = CarryIn(d, i, 0)
    <3>1. i # 0 => i - 1 \in Limb
      BY <1>1
    <3>2. i # 0 => c[i - 1] \in {0, 1}
      BY <3>1 DEF U32Add, Boolean
    <3> QED
      BY <1>2, <3>2 DEF CarryIn
  <2>3. PICK e \in {0, 1} : e = c[i]
    BY DEF U32Add, Boolean
  <2>4. PICK f \in {0, 1} : f = d[i]
    BY DEF U32Add, Boolean
  <2>5. PICK p \in Int : p = e * Base
    BY Weights
  <2>6. PICK q \in Int : q = f * Base
    BY Weights
  <2>7. PICK zi \in 0 .. Base - 1 : zi = z[i]
    BY DEF ByteLimbs
  <2>8. PICK wi \in 0 .. Base - 1 : wi = w[i]
    BY DEF ByteLimbs
  <2>9. z[i] + c[i] * Base = x[i] + y[i] + CarryIn(c, i, 0)
    BY DEF U32Add
  <2>10. w[i] + d[i] * Base = x[i] + y[i] + CarryIn(d, i, 0)
    BY DEF U32Add
  <2>11. zi + p = u + k
    BY <2>1, <2>2, <2>3, <2>5, <2>7, <2>9
  <2>12. wi + q = u + k
    BY <2>1, <2>2, <2>4, <2>6, <2>8, <2>10
  <2>13. zi = wi /\ e = f
    BY <2>5, <2>6, <2>11, <2>12, LimbAndCarry
  <2> QED
    BY <2>3, <2>4, <2>7, <2>8, <2>13
<1>3. 0 \in S
  BY <1>1, <1>2
<1>4. ASSUME NEW i \in 0 .. n - 1, i \in S
      PROVE  i + 1 \in S
  <2>1. z[i] = w[i] /\ c[i] = d[i]
    BY <1>1, <1>4
  <2>2. CASE i + 1 = n
    BY <1>1, <2>2
  <2>3. CASE i + 1 # n
    <3>1. PICK j \in Limb : j = i + 1 /\ j - 1 = i
      BY <1>1, <2>3
    <3>2. z[j] = w[j] /\ c[j] = d[j]
      BY <1>2, <2>1, <3>1
    <3> QED
      BY <1>1, <3>1, <3>2
  <2> QED
    BY <2>2, <2>3
<1>5. 0 .. n \subseteq S
  <2> HIDE DEF S
  <2> QED
    BY <1>3, <1>4, InductionTo
<1> QED
  BY <1>1, <1>5 DEF SameLimbs

\* Differences and borrows are, too.
LEMMA DifferenceForced ==
  ASSUME NEW x, NEW y, NEW z, NEW c, NEW w, NEW d, IntLimbs(x), IntLimbs(y),
         ByteLimbs(z), ByteLimbs(w), U32Sub(x, y, z, c), U32Sub(x, y, w, d)
  PROVE  SameLimbs(z, w) /\ SameLimbs(c, d)
<1>1. PICK n \in Nat : n = NumLimbs /\ n >= 1 /\ Limb = 0 .. n - 1
  BY Geometry
<1> DEFINE S == {i \in 0 .. n : i = n \/ (z[i] = w[i] /\ c[i] = d[i])}
<1>2. ASSUME NEW i \in Limb, i = 0 \/ c[i - 1] = d[i - 1]
      PROVE  z[i] = w[i] /\ c[i] = d[i]
  <2>1. PICK u \in Int : u = x[i]
    BY DEF IntLimbs
  <2>a. PICK v \in Int : v = y[i]
    BY DEF IntLimbs
  <2>2. PICK k \in Int : k = CarryIn(c, i, 0) /\ k = CarryIn(d, i, 0)
    <3>1. i # 0 => i - 1 \in Limb
      BY <1>1
    <3>2. i # 0 => c[i - 1] \in {0, 1}
      BY <3>1 DEF U32Sub, Boolean
    <3> QED
      BY <1>2, <3>2 DEF CarryIn
  <2>3. PICK e \in {0, 1} : e = c[i]
    BY DEF U32Sub, Boolean
  <2>4. PICK f \in {0, 1} : f = d[i]
    BY DEF U32Sub, Boolean
  <2>5. PICK p \in Int : p = e * Base
    BY Weights
  <2>6. PICK q \in Int : q = f * Base
    BY Weights
  <2>7. PICK zi \in 0 .. Base - 1 : zi = z[i]
    BY DEF ByteLimbs
  <2>8. PICK wi \in 0 .. Base - 1 : wi = w[i]
    BY DEF ByteLimbs
  <2>9. x[i] + c[i] * Base = y[i] + CarryIn(c, i, 0) + z[i]
    BY DEF U32Sub
  <2>10. x[i] + d[i] * Base = y[i] + CarryIn(d, i, 0) + w[i]
    BY DEF U32Sub
  <2>11. u + p = v + k + zi
    BY <2>1, <2>a, <2>2, <2>3, <2>5, <2>7, <2>9
  <2>12. u + q = v + k + wi
    BY <2>1, <2>a, <2>2, <2>4, <2>6, <2>8, <2>10
  <2>13. zi + q = wi + p
    <3>1. zi \in Int /\ wi \in Int
      BY Weights
    <3> QED
      BY <2>11, <2>12, <3>1
  <2>14. zi = wi /\ f = e
    BY <2>5, <2>6, <2>13, LimbAndCarry
  <2> QED
    BY <2>3, <2>4, <2>7, <2>8, <2>14
<1>3. 0 \in S
  BY <1>1, <1>2
<1>4. ASSUME NEW i \in 0 .. n - 1, i \in S
      PROVE  i + 1 \in S
  <2>1. z[i] = w[i] /\ c[i] = d[i]
    BY <1>1, <1>4
  <2>2. CASE i + 1 = n
    BY <1>1, <2>2
  <2>3. CASE i + 1 # n
    <3>1. PICK j \in Limb : j = i + 1 /\ j - 1 = i
      BY <1>1, <2>3
    <3>2. z[j] = w[j] /\ c[j] = d[j]
      BY <1>2, <2>1, <3>1
    <3> QED
      BY <1>1, <3>1, <3>2
  <2> QED
    BY <2>2, <2>3
<1>5. 0 .. n \subseteq S
  <2> HIDE DEF S
  <2> QED
    BY <1>3, <1>4, InductionTo
<1> QED
  BY <1>1, <1>5 DEF SameLimbs

\* So is the link of a jump.
LEMMA LinkForced ==
  ASSUME NEW x, NEW z, NEW c, NEW w, NEW d, IntLimbs(x), ByteLimbs(z), ByteLimbs(w),
         U32PlusFour(x, z, c), U32PlusFour(x, w, d)
  PROVE  SameLimbs(z, w)
<1>1. PICK n \in Nat : n = NumLimbs /\ n >= 2 /\ Limb = 0 .. n - 1 /\ Top = n - 1
  BY Geometry
<1> DEFINE S == {i \in 0 .. n : i = n \/ (z[i] = w[i] /\ (i # Top => c[i] = d[i]))}
<1>2. ASSUME NEW i \in Limb, i = 0 \/ c[i - 1] = d[i - 1]
      PROVE  z[i] = w[i] /\ (i # Top => c[i] = d[i])
  <2>1. PICK u \in Int : u = x[i]
    BY DEF IntLimbs
  <2>2. PICK k \in Int : k = CarryIn(c, i, 4) /\ k = CarryIn(d, i, 4)
    <3>1. i # 0 => i - 1 \in Limb /\ i - 1 # Top
      BY <1>1
    <3>2. i # 0 => c[i - 1] \in {0, 1}
      BY <3>1 DEF U32PlusFour, Boolean
    <3> QED
      BY <1>2, <3>2 DEF CarryIn
  <2>3. PICK zi \in 0 .. Base - 1 : zi = z[i]
    BY DEF ByteLimbs
  <2>4. PICK wi \in 0 .. Base - 1 : wi = w[i]
    BY DEF ByteLimbs
  <2>5. CASE i = Top
    BY <2>1, <2>2, <2>5 DEF U32PlusFour
  <2>6. CASE i # Top
    <3>1. PICK e \in {0, 1} : e = c[i]
      BY <2>6 DEF U32PlusFour, Boolean
    <3>2. PICK f \in {0, 1} : f = d[i]
      BY <2>6 DEF U32PlusFour, Boolean
    <3>3. PICK p \in Int : p = e * Base
      BY Weights
    <3>4. PICK q \in Int : q = f * Base
      BY Weights
    <3>5. z[i] + c[i] * Base = x[i] + CarryIn(c, i, 4)
      BY <2>6 DEF U32PlusFour
    <3>6. w[i] + d[i] * Base = x[i] + CarryIn(d, i, 4)
      BY <2>6 DEF U32PlusFour
    <3>7. zi + p = u + k
      BY <2>1, <2>2, <2>3, <3>1, <3>3, <3>5
    <3>8. wi + q = u + k
      BY <2>1, <2>2, <2>4, <3>2, <3>4, <3>6
    <3>9. zi = wi /\ e = f
      BY <3>3, <3>4, <3>7, <3>8, LimbAndCarry
    <3> QED
      BY <2>3, <2>4, <3>1, <3>2, <3>9
  <2> QED
    BY <2>5, <2>6
<1>3. 0 \in S
  BY <1>1, <1>2
<1>4. ASSUME NEW i \in 0 .. n - 1, i \in S
      PROVE  i + 1 \in S
  <2>1. CASE i + 1 = n
    BY <1>1, <2>1
  <2>2. CASE i + 1 # n
    <3>1. PICK j \in Limb : j = i + 1 /\ j - 1 = i /\ i # Top
      BY <1>1, <2>2
    <3>2. c[i] = d[i]
      BY <1>1, <1>4, <3>1
    <3>3. z[j] = w[j] /\ (j # Top => c[j] = d[j])
      BY <1>2, <3>1, <3>2
    <3> QED
      BY <1>1, <3>1, <3>3
  <2> QED
    BY <2>1, <2>2
<1>5. 0 .. n \subseteq S
  <2> HIDE DEF S
  <2> QED
    BY <1>3, <1>4, InductionTo
<1> QED
  BY <1>1, <1>5 DEF SameLimbs

\* Only the limbs of an operand count.
LEMMA SameOperand ==
  ASSUME NEW x, NEW y, NEW z, SameLimbs(y, z)
  PROVE  \A w, c : /\ U32Add(x, y, w, c) => U32Add(x, z, w, c)
                   /\ U32Sub(x, y, w, c) => U32Sub(x, z, w, c)
BY DEF SameLimbs, U32Add, U32Sub

\* The n digits of a number in base b, from digit k on.
AreDigits(a, b, n) == \A i \in 0 .. n - 1 : a[i] \in 0 .. b - 1

LEMMA DigitsForced ==
  ASSUME NEW n \in Nat, NEW b \in Nat \ {0}, NEW k \in 0 .. n, NEW y, NEW z,
         AreDigits(y, b, n), AreDigits(z, b, n), Digits(y, b, n)[k] = Digits(z, b, n)[k]
  PROVE  \A i \in k .. n - 1 : y[i] = z[i]
<1>1. PICK D : D = Digits(y, b, n)
  OBVIOUS
<1>2. PICK E : E = Digits(z, b, n)
  OBVIOUS
<1>3. D \in [0 .. n -> Int] /\ \A i \in 0 .. n - 1 : D[i] = y[i] + b * D[i + 1]
  <2>1. b \in Int /\ \A i \in 0 .. n - 1 : y[i] \in Int
    BY DEF AreDigits
  <2> QED
    BY <1>1, <2>1, DigitsStep
<1>4. E \in [0 .. n -> Int] /\ \A i \in 0 .. n - 1 : E[i] = z[i] + b * E[i + 1]
  <2>1. b \in Int /\ \A i \in 0 .. n - 1 : z[i] \in Int
    BY DEF AreDigits
  <2> QED
    BY <1>2, <2>1, DigitsStep
<1>5. ASSUME NEW i \in 0 .. n - 1, D[i] = E[i]
      PROVE  y[i] = z[i] /\ D[i + 1] = E[i + 1]
  <2>1. PICK v \in Int : v = D[i] /\ v = E[i]
    BY <1>3, <1>5
  <2>2. PICK p \in Int : p = D[i + 1]
    BY <1>3
  <2>3. PICK q \in Int : q = E[i + 1]
    BY <1>4
  <2>4. PICK r \in 0 .. b - 1 : r = y[i]
    BY DEF AreDigits
  <2>5. PICK s \in 0 .. b - 1 : s = z[i]
    BY DEF AreDigits
  <2>6. v = b * p + r /\ v = b * q + s
    <3>1. D[i] = y[i] + b * D[i + 1]
      BY <1>3
    <3>2. E[i] = z[i] + b * E[i + 1]
      BY <1>4
    <3>3. v = r + b * p /\ v = s + b * q
      BY <2>1, <2>2, <2>3, <2>4, <2>5, <3>1, <3>2
    <3>4. b * p \in Int /\ b * q \in Int
      BY <2>2, <2>3
    <3> QED
      BY <2>4, <2>5, <3>3, <3>4
  <2>7. v \div b = p /\ v % b = r
    BY <2>6, DivisionUnique
  <2>8. v \div b = q /\ v % b = s
    BY <2>6, DivisionUnique
  <2> QED
    BY <2>2, <2>3, <2>4, <2>5, <2>7, <2>8
<1> DEFINE S == {i \in 0 .. n : i < k \/ D[i] = E[i]}
<1>6. 0 \in S
  <2>1. D[k] = E[k]
    BY <1>1, <1>2
  <2> QED
    BY <2>1
<1>7. ASSUME NEW i \in 0 .. n - 1, i \in S
      PROVE  i + 1 \in S
  <2>1. CASE i + 1 < k
    BY <2>1
  <2>2. CASE i + 1 = k
    BY <1>1, <1>2, <2>2
  <2>3. CASE i + 1 > k
    BY <1>5, <1>7, <2>3
  <2> QED
    BY <2>1, <2>2, <2>3
<1>8. 0 .. n \subseteq S
  <2> HIDE DEF S
  <2> QED
    BY <1>6, <1>7, InductionTo
<1> QED
  BY <1>5, <1>8

\* The limbs of an upper immediate, below Base and all of one number.
LEMMA UpperForced ==
  ASSUME NEW y, NEW z, ByteLimbs(y), ByteLimbs(z), y[0] = 0, z[0] = 0,
         Digits(y, Base, NumLimbs)[1] = Digits(z, Base, NumLimbs)[1]
  PROVE  SameLimbs(y, z)
<1>1. PICK n \in Nat : n = NumLimbs /\ n >= 2 /\ Limb = 0 .. n - 1
  BY Geometry
<1>2. PICK b \in Nat \ {0} : b = Base
  BY Weights
<1>3. PICK k \in 0 .. n : k = 1
  BY <1>1
<1>4. AreDigits(y, b, n) /\ AreDigits(z, b, n)
  BY <1>1, <1>2 DEF AreDigits, ByteLimbs
<1>5. \A i \in k .. n - 1 : y[i] = z[i]
  BY <1>1, <1>2, <1>3, <1>4, DigitsForced
<1>6. ASSUME NEW i \in Limb
      PROVE  y[i] = z[i]
  <2>1. i = 0 \/ i \in k .. n - 1
    BY <1>1, <1>3
  <2> QED
    BY <1>5, <2>1
<1> QED
  BY <1>6 DEF SameLimbs

\* The lookups of a row all find a tuple in a table.
AllIn(seq) == \A k \in DOMAIN seq : InTable(seq[k])

LEMMA BytesListed ==
  ASSUME NEW x
  PROVE  Listed(Bytes(x)) /\ (AllIn(Bytes(x)) => ByteLimbs(x))
<1>1. PICK n \in Nat : n = NumLimbs /\ n >= 1 /\ Limb = 0 .. n - 1
  BY Geometry
<1>2. Bytes(x) = [i \in 1 .. n |-> <<"bytes", x[i - 1]>>]
  BY <1>1 DEF Bytes, LimbwiseSeq
<1>3. Listed(Bytes(x))
  BY <1>2 DEF Listed
<1>4. ASSUME AllIn(Bytes(x)), NEW i \in Limb
      PROVE  x[i] \in 0 .. Base - 1
  <2>1. PICK k \in 1 .. n : k = i + 1 /\ k - 1 = i
    BY <1>1
  <2>2. Bytes(x)[k] = <<"bytes", x[i]>> /\ k \in DOMAIN Bytes(x)
    BY <1>2, <2>1
  <2>3. InTable(<<"bytes", x[i]>>)
    BY <1>4, <2>2 DEF AllIn
  <2> QED
    BY <2>3 DEF InTable, IsLimb
<1> QED
  BY <1>3, <1>4 DEF ByteLimbs

LEMMA ByteListed ==
  ASSUME NEW b
  PROVE  Listed(Byte(b)) /\ (AllIn(Byte(b)) => b \in 0 .. Base - 1)
<1>1. PICK n \in Nat : n = 1
  OBVIOUS
<1>2. PICK t : t = <<"bytes", b>>
  OBVIOUS
<1>3. PICK u : u = <<t>>
  OBVIOUS
<1>4. DOMAIN u = 1 .. n /\ u = [k \in 1 .. n |-> u[k]]
  BY <1>1, <1>3
<1>5. Listed(u)
  BY <1>4 DEF Listed
<1>6. ASSUME AllIn(u)
      PROVE  b \in 0 .. Base - 1
  <2>1. n \in DOMAIN u /\ u[n] = t
    BY <1>1, <1>3
  <2>2. InTable(t)
    BY <1>6, <2>1 DEF AllIn
  <2> QED
    BY <1>2, <2>2 DEF InTable, IsLimb
<1>7. u = Byte(b)
  BY <1>2, <1>3 DEF Byte
<1> QED
  BY <1>5, <1>6, <1>7

LEMMA ListsJoin ==
  ASSUME NEW s, NEW t, Listed(s), Listed(t)
  PROVE  Listed(s \o t) /\ (AllIn(s \o t) => AllIn(s) /\ AllIn(t))
<1>1. PICK n \in Nat : DOMAIN s = 1 .. n /\ s = [k \in 1 .. n |-> s[k]]
  BY DEF Listed
<1>2. PICK m \in Nat : DOMAIN t = 1 .. m /\ t = [k \in 1 .. m |-> t[k]]
  BY DEF Listed
<1>3. PICK S : S = {s[k] : k \in 1 .. n} \cup {t[k] : k \in 1 .. m}
  OBVIOUS
<1>4. s \in Seq(S) /\ Len(s) = n
  BY <1>1, <1>3
<1>5. t \in Seq(S) /\ Len(t) = m
  BY <1>2, <1>3
<1>6. s \o t \in Seq(S) /\ Len(s \o t) = n + m
  BY <1>4, <1>5
<1>7. Listed(s \o t)
  <2>1. PICK u : u = s \o t
    OBVIOUS
  <2>2. PICK l \in Nat : l = n + m
    OBVIOUS
  <2>3. u \in Seq(S) /\ Len(u) = l
    BY <1>6, <2>1, <2>2
  <2>4. DOMAIN u = 1 .. l /\ u = [k \in 1 .. l |-> u[k]]
    BY <2>3
  <2> QED
    BY <2>1, <2>4 DEF Listed
<1>8. ASSUME AllIn(s \o t), NEW k \in DOMAIN s
      PROVE  InTable(s[k])
  <2>1. k \in DOMAIN (s \o t) /\ (s \o t)[k] = s[k]
    BY <1>1, <1>4, <1>5, <1>6
  <2>2. InTable((s \o t)[k])
    BY <1>8, <2>1 DEF AllIn
  <2> QED
    BY <2>1, <2>2
<1>9. ASSUME AllIn(s \o t), NEW k \in DOMAIN t
      PROVE  InTable(t[k])
  <2>1. PICK j \in 1 .. n + m : j = n + k
    BY <1>2
  <2>2. j \in DOMAIN (s \o t) /\ (s \o t)[j] = t[k]
    BY <1>2, <1>4, <1>5, <1>6, <2>1
  <2>3. InTable((s \o t)[j])
    BY <1>9, <2>2 DEF AllIn
  <2> QED
    BY <2>2, <2>3
<1> QED
  BY <1>7, <1>8, <1>9 DEF AllIn

\* The columns that other tables fix; the rest is the prover's choice.
OperandColumns ==
  {"pc", "is_dummy", "rs1_value", "rs2_value", "imm", "imm_low8", "imm_high12"}
Keeps(r, R) ==
  DOMAIN r = DOMAIN R /\ \A c \in DOMAIN R \cap OperandColumns : r[c] = R[c]

Shifts == {"Sll", "Srl", "Sra", "SlliI", "SrliI", "SraiI"}
ShortImmOps == ImmOps \ {"Jalr"}

\* The columns that hold a list hold all of it.
HasLists(op, r) ==
  /\ "rd_new_value" \in DOMAIN r
  /\ op \in ShortImmOps => "imm_high_bits" \in DOMAIN r
  /\ op \in Shifts => "is_bs" \in DOMAIN r
IsWord(x) == x = [i \in Limb |-> x[i]]
Shaped(op, r) ==
  /\ op \notin Comparisons => IsWord(r["rd_new_value"])
  /\ op \in ShortImmOps => DOMAIN r["imm_high_bits"] = 0 .. HighBits - 1
  /\ op \in Shifts => DOMAIN r["is_bs"] = Limb

\* Columns for a row of op that leave the operands and the shape alone.
Fits(op, columns) ==
  /\ DOMAIN columns \cap OperandColumns = {}
  /\ "rd_new_value" \in DOMAIN columns => IsWord(columns["rd_new_value"])
  /\ "imm_high_bits" \in DOMAIN columns => DOMAIN columns["imm_high_bits"] = 0 .. HighBits - 1
  /\ "is_bs" \in DOMAIN columns => DOMAIN columns["is_bs"] = Limb

\* A row for the operands of R, whatever its other columns.
ForOperands(op, r, R) == Keeps(r, R) /\ HasLists(op, r) /\ Shaped(op, r)

LEMMA RefillFits ==
  ASSUME NEW op, NEW r, NEW R, NEW columns, ForOperands(op, r, R), Fits(op, columns)
  PROVE  ForOperands(op, Refill(r, columns), R)
<1>1. PICK q : q = Refill(r, columns)
  OBVIOUS
<1>2. /\ DOMAIN q = DOMAIN r
      /\ \A c \in DOMAIN r : q[c] = IF c \in DOMAIN columns THEN columns[c] ELSE r[c]
  BY <1>1 DEF Refill
<1>3. Keeps(q, R)
  <2>1. DOMAIN q = DOMAIN R
    BY <1>2 DEF ForOperands, Keeps
  <2>2. ASSUME NEW c \in DOMAIN R \cap OperandColumns
        PROVE  q[c] = R[c]
    <3>1. c \in DOMAIN r /\ r[c] = R[c]
      BY DEF ForOperands, Keeps
    <3>2. c \notin DOMAIN columns
      BY DEF Fits
    <3> QED
      BY <1>2, <3>1, <3>2
  <2> QED
    BY <2>1, <2>2 DEF Keeps
<1>4. HasLists(op, q)
  BY <1>2 DEF ForOperands, HasLists
<1>5. Shaped(op, q)
  <2>1. op \notin Comparisons => IsWord(q["rd_new_value"])
    BY <1>2 DEF ForOperands, HasLists, Shaped, Fits
  <2>2. op \in ShortImmOps => DOMAIN q["imm_high_bits"] = 0 .. HighBits - 1
    BY <1>2 DEF ForOperands, HasLists, Shaped, Fits
  <2>3. op \in Shifts => DOMAIN q["is_bs"] = Limb
    BY <1>2 DEF ForOperands, HasLists, Shaped, Fits
  <2> QED
    BY <2>1, <2>2, <2>3 DEF Shaped
<1> QED
  BY <1>1, <1>3, <1>4, <1>5 DEF ForOperands

LEMMA ResplitFits ==
  ASSUME NEW op, NEW R, ForOperands(op, R, R), IsWord(R["rd_new_value"]), NEW q \in Resplit(op, R)
  PROVE  ForOperands(op, q, R)
<1>1. ASSUME NEW r, NEW g, NEW h, ForOperands(op, r, R)
      PROVE  ForOperands(op, WithSigns(r, g, h), R)
  <2>1. PICK columns : columns =
          [sign_rs1 |-> g, rs1_byte3_low7 |-> r.rs1_value[Top] - g * LowHalf,
           sign_rs2 |-> h, rs2_byte3_low7 |-> r.rs2_value[Top] - h * LowHalf]
    OBVIOUS
  <2>2. Fits(op, columns)
    BY <2>1 DEF Fits, OperandColumns
  <2> QED
    BY <1>1, <2>1, <2>2, RefillFits DEF WithSigns
<1>2. ASSUME NEW bits \in [0 .. HighBits - 1 -> {0, 1}]
      PROVE  ForOperands(op, WithImm(R, bits), R)
  <2>1. PICK limbs : WithImm(R, bits) = Refill(R, [imm_high_bits |-> bits, imm_se_bytes |-> limbs])
    BY DEF WithImm
  <2>2. Fits(op, [imm_high_bits |-> bits, imm_se_bytes |-> limbs])
    BY DEF Fits, OperandColumns
  <2> QED
    BY <2>1, <2>2, RefillFits
<1>3. ASSUME NEW n, NEW g
      PROVE  ForOperands(op, WithShift(op, R, n, g), R)
  <2>1. PICK bs : bs = [i \in Limb |-> Truth(i = n \div LimbBits)]
    OBVIOUS
  <2>2. PICK part : part = [i \in Limb |-> IF op \in LeftShift
                                           THEN ShiftLeft(R.rs1_value[i], n % LimbBits)
                                           ELSE ShiftRight(R.rs1_value[i], n % LimbBits)]
    OBVIOUS
  <2>a. PICK ones : ones = ShiftRight(Base - 1, n % LimbBits)
    OBVIOUS
  <2>b. PICK w : w = LET word == Digits(R.rs1_value, Base, NumLimbs)[0]
                     IN  IF op \in LeftShift THEN word * 2 ^ n
                         ELSE (word - (IF op \in {"Sra", "SraiI"} THEN g * Size ELSE 0)) \div 2 ^ n
    OBVIOUS
  <2>c. PICK f : f = [i \in Limb |-> part[i].shifted]
    OBVIOUS
  <2>d. PICK h : h = [i \in Limb |-> part[i].carry]
    OBVIOUS
  <2>3. PICK columns : columns =
              [bit_shamt |-> n % LimbBits, byte_shamt |-> n \div LimbBits, is_bs |-> bs,
               rs2_shamt_high |-> (R.rs2_value[0] - n) \div XLEN,
               shifted_bytes |-> f, carry_bytes |-> h,
               sign_bit |-> g, fill_byte |-> g * (Base - 1),
               rs1_byte3_low7 |-> R.rs1_value[Top] - g * LowHalf,
               srl_ff_shifted |-> ones.shifted, srl_ff_carry |-> ones.carry,
               rd_new_value |-> LimbsOf(w)]
    OBVIOUS
  <2>e. /\ f = [i \in Limb |-> (IF op \in LeftShift
                                THEN ShiftLeft(R.rs1_value[i], n % LimbBits)
                                ELSE ShiftRight(R.rs1_value[i], n % LimbBits)).shifted]
        /\ h = [i \in Limb |-> (IF op \in LeftShift
                                THEN ShiftLeft(R.rs1_value[i], n % LimbBits)
                                ELSE ShiftRight(R.rs1_value[i], n % LimbBits)).carry]
    BY <2>2, <2>c, <2>d
  <2>f. WithShift(op, R, n, g) = Refill(R, columns)
    BY <2>1, <2>a, <2>b, <2>3, <2>e DEF WithShift
  <2>4. IsWord(LimbsOf(w))
    BY DEF IsWord, LimbsOf
  <2>5. Fits(op, columns)
    BY <2>1, <2>3, <2>4 DEF Fits, OperandColumns
  <2> QED
    BY <2>5, <2>f, RefillFits
<1>4. ASSUME NEW b
      PROVE  ForOperands(op, WithLowestBit(R, b), R)
  <2>1. PICK w : WithLowestBit(R, b) = Refill(R, [sum_lsb |-> b, next_pc |-> w])
    BY DEF WithLowestBit
  <2>2. Fits(op, [sum_lsb |-> b, next_pc |-> w])
    BY DEF Fits, OperandColumns
  <2> QED
    BY <2>1, <2>2, RefillFits
<1>5. ASSUME NEW x \in Respelled(R.rd_new_value)
      PROVE  ForOperands(op, Refill(R, [rd_new_value |-> x]), R)
  <2>1. IsWord(x)
    BY DEF Respelled, IsWord
  <2>2. Fits(op, [rd_new_value |-> x])
    BY <2>1 DEF Fits, OperandColumns
  <2> QED
    BY <2>2, RefillFits
<1>6. ASSUME NEW x
      PROVE  ForOperands(op, Refill(R, [imm_u |-> x]), R)
  <2>1. Fits(op, [imm_u |-> x])
    BY DEF Fits, OperandColumns
  <2> QED
    BY <2>1, RefillFits
<1>7. \/ \E g, h : q = WithSigns(R, g, h)
      \/ \E g, h : \E bits \in [0 .. HighBits - 1 -> {0, 1}] : q = WithSigns(WithImm(R, bits), g, h)
      \/ \E bits \in [0 .. HighBits - 1 -> {0, 1}] : q = WithImm(R, bits)
      \/ \E n, g : q = WithShift(op, R, n, g)
      \/ \E x \in Respelled(R.rd_new_value) : q = Refill(R, [rd_new_value |-> x])
      \/ q = R
      \/ \E x : q = Refill(R, [imm_u |-> x])
      \/ \E b : q = WithLowestBit(R, b)
  <2>1. CASE op = "Slt"
    BY <2>1 DEF Resplit
  <2>2. CASE op = "SltiI"
    BY <2>2 DEF Resplit
  <2>3. CASE op \in {"AddI", "XorI", "OriI", "AndiI", "SltiuI"}
    BY <2>3 DEF Resplit
  <2>4. CASE op \in {"Sll", "Srl", "Sra", "SlliI", "SrliI", "SraiI"}
    BY <2>4 DEF Resplit
  <2>5. CASE op = "Lui"
    <3>1. Resplit(op, R) = {Refill(R, [rd_new_value |-> x]) : x \in Respelled(R.rd_new_value)}
      BY <2>5 DEF Resplit
    <3> QED
      BY <3>1
  <2>6. CASE op = "Auipc"
    <3>1. Resplit(op, R) = {R} \cup {Refill(R, [imm_u |-> x]) : x \in Respelled(R.imm_u)}
      BY <2>6 DEF Resplit
    <3> QED
      BY <3>1
  <2>7. CASE op = "Jalr"
    BY <2>7 DEF Resplit
  <2>8. CASE op \notin {"Slt", "SltiI", "AddI", "XorI", "OriI", "AndiI", "SltiuI", "Sll", "Srl", "Sra",
                        "SlliI", "SrliI", "SraiI", "Lui", "Auipc", "Jalr"}
    BY <2>8 DEF Resplit
  <2> QED
    BY <2>1, <2>2, <2>3, <2>4, <2>5, <2>6, <2>7, <2>8
<1> QED
  BY <1>1, <1>2, <1>3, <1>4, <1>5, <1>6, <1>7

LEMMA RecarriedFits ==
  ASSUME NEW op, NEW R, NEW q, ForOperands(op, q, R), NEW r \in Recarried(op, q)
  PROVE  ForOperands(op, r, R)
<1>1. ASSUME NEW x, NEW y, NEW c
      PROVE  IsWord(SumFor(x, y, c)) /\ IsWord(DiffFor(x, y, c)) /\ IsWord(LinkFor(x, c))
  BY DEF IsWord, SumFor, DiffFor, LinkFor
<1>2. ASSUME NEW x, NEW c, IsWord(x)
      PROVE  /\ Fits(op, [add_carries |-> c, rd_new_value |-> x])
             /\ Fits(op, [sub_borrows |-> c, rd_new_value |-> x])
             /\ Fits(op, [rd_val_carries |-> c, rd_new_value |-> x])
  BY <1>2 DEF Fits, OperandColumns
<1>3. ASSUME NEW x, NEW c, NEW lt
      PROVE  Fits(op, [borrow |-> c, lt_result |-> lt, diff_bytes |-> x])
  BY DEF Fits, OperandColumns
<1>4. \/ \E x, y, c : r = WithSum(q, x, y, c)
      \/ \E x, y, c : r = WithDifference(q, x, y, c)
      \/ \E x, c : r = WithLink(q, x, c)
      \/ \E x, y, c, lt : r = WithBorrows(q, x, y, c, lt)
  <2>1. CASE op \in {"Add", "AddI", "Auipc"}
    BY <2>1 DEF Recarried
  <2>2. CASE op = "Sub"
    BY <2>2 DEF Recarried
  <2>3. CASE op \in Comparisons
    BY <2>3 DEF Recarried, Comparisons
  <2>4. CASE op \in {"Jal", "Jalr"}
    BY <2>4 DEF Recarried, Comparisons
  <2> QED
    BY <2>1, <2>2, <2>3, <2>4 DEF Recarried
<1> QED
  BY <1>1, <1>2, <1>3, <1>4, RefillFits DEF WithSum, WithDifference, WithLink, WithBorrows

\* The rows the property alters are such rows.
LEMMA AlteredFits ==
  ASSUME NEW op, NEW R, ForOperands(op, R, R), IsWord(R["rd_new_value"]), NEW r \in Altered(op, R)
  PROVE  ForOperands(op, r, R) /\ WrittenBy(op, r) # WrittenBy(op, R)
<1>1. r \in Rows(op, R) /\ WrittenBy(op, r) # WrittenBy(op, R)
  BY DEF Altered
<1>2. \/ \E q \in Resplit(op, R) : r = q \/ r \in Recarried(op, q)
      \/ \E i \in Limb, v \in 0 .. 2 * Base : r = WithLimb(R, i, v)
  BY <1>1 DEF Rows
<1>3. CASE \E q \in Resplit(op, R) : r = q \/ r \in Recarried(op, q)
  BY <1>1, <1>3, ResplitFits, RecarriedFits
<1>4. CASE \E i \in Limb, v \in 0 .. 2 * Base : r = WithLimb(R, i, v)
  <2>1. PICK i \in Limb, v \in 0 .. 2 * Base : r = WithLimb(R, i, v)
    BY <1>4
  <2>2. PICK x : x = [R.rd_new_value EXCEPT ![i] = v]
    OBVIOUS
  <2>3. IsWord(x)
    BY <2>2 DEF IsWord
  <2>4. Fits(op, [rd_new_value |-> x])
    BY <2>3 DEF Fits, OperandColumns
  <2> QED
    BY <1>1, <2>1, <2>2, <2>4, RefillFits DEF WithLimb
<1> QED
  BY <1>2, <1>3, <1>4

\* Columns of the rows of steps.
LEMMA RowDomain ==
  ASSUME NEW s, s.op \in Ops
  PROVE  {"pc", "is_dummy", "rs1_value", "rs2_value", "rd_new_value"} \subseteq DOMAIN Row(s)
<1>1. CASE s.op \in Ops \ {"Jal", "Jalr"}
  <2>1. {"pc", "is_dummy", "rs1_value", "rs2_value", "rd_new_value"} \subseteq DOMAIN RegisterColumns(s)
    BY DEF RegisterColumns, PcColumns, ValueColumns, ++
  <2>2. ASSUME NEW g
        PROVE  DOMAIN RegisterColumns(s) \subseteq DOMAIN (RegisterColumns(s) ++ g)
    BY DEF ++
  <2> QED
    BY <1>1, <2>1, <2>2, RowStarts
<1>2. CASE s.op \in {"Jal", "Jalr"}
  <2>1. ASSUME NEW t, NEW g
        PROVE  {"pc", "is_dummy", "rs1_value", "rs2_value", "rd_new_value"}
                 \subseteq DOMAIN (JumpColumns(s, t) ++ g)
    BY DEF JumpColumns, ValueColumns, ++
  <2>2. s.op = "Jal" => \E g : Row(s) = JumpColumns(s, (s.pc + s.imm) % Size) ++ g
    BY DEF Row, JalRow
  <2>3. PICK sum : sum = (s.rs1_value + s.imm) % Size
    OBVIOUS
  <2>4. PICK t : t = sum - (sum % 2)
    OBVIOUS
  <2>5. s.op = "Jalr" => \E g : Row(s) = JumpColumns(s, t) ++ g
    BY <2>3, <2>4, MergeAssociates DEF Row, JalrRow
  <2> QED
    BY <1>2, <2>1, <2>2, <2>5
<1> QED
  BY <1>1, <1>2

LEMMA RowImmediate ==
  ASSUME NEW s, s.op \in ImmOps \ {"Jalr"}
  PROVE  HasImm(Row(s), s.imm) /\ {"imm", "imm_high_bits", "imm_se_bytes"} \subseteq DOMAIN Row(s)
<1>1. PICK a : a = RegisterColumns(s) ++ ImmColumns(s)
  OBVIOUS
<1>2. HasImm(a, s.imm)
  BY <1>1 DEF RegisterColumns, PcColumns, ValueColumns, ImmColumns, HasImm, ++
<1>3. {"imm", "imm_high_bits", "imm_se_bytes"} \subseteq DOMAIN a
  BY <1>1 DEF RegisterColumns, PcColumns, ValueColumns, ImmColumns, ++
<1>4. ASSUME NEW g
      PROVE  /\ HasImm(a ++ g, s.imm)
             /\ {"imm", "imm_high_bits", "imm_se_bytes"} \subseteq DOMAIN (a ++ g)
  BY <1>2, <1>3 DEF HasImm, ++
<1>5. Row(s) = a \/ \E g : Row(s) = a ++ g
  <2>1. CASE s.op \in {"XorI", "OriI", "AndiI"}
    BY <1>1, <2>1 DEF Row, XorIRow, OriIRow, AndiIRow
  <2>2. CASE s.op \in {"AddI", "SltiuI"}
    BY <1>1, <2>2 DEF Row, AddIRow, SltiuIRow
  <2>3. CASE s.op = "SltiI"
    BY <1>1, <2>3, MergeAssociates DEF Row, SltiIRow
  <2> QED
    BY <2>1, <2>2, <2>3 DEF ImmOps
<1> QED
  BY <1>2, <1>3, <1>4, <1>5

LEMMA LimbsAreBytes ==
  ASSUME NEW w \in Int
  PROVE  ByteLimbs(LimbsOf(w)) /\ IntLimbs(LimbsOf(w))
BY LimbStep, BytesAreInts DEF ByteLimbs

\* Another row for the operands of a step, accepted and looked up.
Rivals(s, r) ==
  /\ HonestStep(s) /\ s.is_dummy = 1 /\ ForOperands(s.op, r, Row(s))
  /\ WrittenBy(s.op, r) # WrittenBy(s.op, Row(s))
  /\ Accepts(s.op, r) /\ AllIn(Lookups(s.op, r)) /\ InRange(s.op, r)

LEMMA RivalKeeps ==
  ASSUME NEW s, NEW r, Rivals(s, r), NEW c \in OperandColumns, c \in DOMAIN Row(s)
  PROVE  r[c] = Row(s)[c]
BY DEF Rivals, ForOperands, Keeps

LEMMA RivalColumns ==
  ASSUME NEW s, NEW r, Rivals(s, r)
  PROVE  /\ r.rs1_value = LimbsOf(s.rs1_value) /\ r.rs2_value = LimbsOf(s.rs2_value)
         /\ r.pc = LimbsOf(s.pc)
         /\ IntLimbs(r.rs1_value) /\ IntLimbs(r.rs2_value) /\ IntLimbs(r.pc)
         /\ IntLimbs(LimbsOf(s.imm))
<1>1. s.op \in Ops /\ HonestStep(s)
  BY DEF Rivals, HonestStep
<1>2. PICK R : R = Row(s)
  OBVIOUS
<1>3. {"pc", "rs1_value", "rs2_value"} \subseteq DOMAIN R
  BY <1>1, <1>2, RowDomain
<1>4. {"pc", "rs1_value", "rs2_value"} \subseteq OperandColumns
  BY DEF OperandColumns
<1>5. r["pc"] = R["pc"] /\ r["rs1_value"] = R["rs1_value"] /\ r["rs2_value"] = R["rs2_value"]
  BY <1>2, <1>3, <1>4, RivalKeeps
<1>6. r.pc = R.pc /\ r.rs1_value = R.rs1_value /\ r.rs2_value = R.rs2_value
  BY <1>5
<1>7. /\ R.rs1_value = LimbsOf(s.rs1_value) /\ R.rs2_value = LimbsOf(s.rs2_value)
      /\ R.pc = LimbsOf(s.pc)
  BY <1>1, <1>2, RowColumns DEF HasValues, HasPc, HasLink
<1>8. s.rs1_value \in Int /\ s.rs2_value \in Int /\ s.imm \in Int /\ s.pc \in Int
  BY <1>1, HonestOperands
<1>9. PICK x \in Int : x = s.rs1_value
  BY <1>8
<1>10. PICK y \in Int : y = s.rs2_value
  BY <1>8
<1>11. PICK z \in Int : z = s.imm
  BY <1>8
<1>12. PICK p \in Int : p = s.pc
  BY <1>8
<1>13. IntLimbs(LimbsOf(x)) /\ IntLimbs(LimbsOf(y)) /\ IntLimbs(LimbsOf(z)) /\ IntLimbs(LimbsOf(p))
  BY LimbsAreBytes
<1> QED
  BY <1>2, <1>6, <1>7, <1>9, <1>10, <1>11, <1>12, <1>13

\* It differs in the value it writes.
LEMMA RivalDiffers ==
  ASSUME NEW s, NEW r, Rivals(s, r)
  PROVE  /\ s.op \in Comparisons => r.lt_result # Row(s).lt_result
         /\ s.op \notin Comparisons => ~SameLimbs(r.rd_new_value, Row(s).rd_new_value)
<1>1. PICK op : op = s.op
  OBVIOUS
<1>2. PICK R : R = Row(s)
  OBVIOUS
<1>3. WrittenBy(op, r) # WrittenBy(op, R) /\ Shaped(op, r) /\ op \in Ops
  BY <1>1, <1>2 DEF Rivals, ForOperands, HonestStep
<1>4. op \in Comparisons => r.lt_result # R.lt_result
  BY <1>3 DEF WrittenBy
<1>5. ASSUME op \notin Comparisons, SameLimbs(r.rd_new_value, R.rd_new_value)
      PROVE  FALSE
  <2>1. PICK v : v = r["rd_new_value"] /\ v = r.rd_new_value
    OBVIOUS
  <2>2. v = [i \in Limb |-> v[i]]
    BY <1>3, <1>5, <2>1 DEF Shaped, IsWord
  <2>3. PICK w : w = R.rd_new_value /\ w = LimbsOf(s.rd_val)
    BY <1>1, <1>2, <1>3, RowColumns DEF HasValues
  <2>4. w = [i \in Limb |-> w[i]]
    BY <2>3 DEF LimbsOf
  <2>5. \A i \in Limb : v[i] = w[i]
    BY <1>5, <2>1, <2>3 DEF SameLimbs
  <2>6. v = w
    BY <2>2, <2>4, <2>5
  <2> QED
    BY <1>3, <1>5, <2>1, <2>3, <2>6 DEF WrittenBy
<1> QED
  BY <1>1, <1>2, <1>4, <1>5

\* The limbs of a logic instruction are looked up.
LEMMA LogicLimb ==
  ASSUME NEW r, NEW y, NEW bus, NEW i \in Limb, AllIn(BytesLogic(bus, r, y))
  PROVE  InTable(<<bus, r.rs1_value[i], y[i], r.rd_new_value[i]>>)
<1>1. PICK n \in Nat : n = NumLimbs /\ n >= 1 /\ Limb = 0 .. n - 1
  BY Geometry
<1>2. BytesLogic(bus, r, y)
        = [k \in 1 .. n |-> <<bus, r.rs1_value[k - 1], y[k - 1], r.rd_new_value[k - 1]>>]
  BY <1>1 DEF BytesLogic, LimbwiseSeq
<1>3. PICK k \in 1 .. n : k = i + 1 /\ k - 1 = i
  BY <1>1
<1> QED
  BY <1>2, <1>3 DEF AllIn

LEMMA LogicListed ==
  ASSUME NEW r, NEW y, NEW bus
  PROVE  Listed(BytesLogic(bus, r, y))
<1>1. PICK n \in Nat : n = NumLimbs
  BY Geometry
<1>2. BytesLogic(bus, r, y)
        = [k \in 1 .. n |-> <<bus, r.rs1_value[k - 1], y[k - 1], r.rd_new_value[k - 1]>>]
  BY <1>1 DEF BytesLogic, LimbwiseSeq
<1> QED
  BY <1>2 DEF Listed

\* The limbs of the second operand a logic instruction looks up.
LEMMA LogicLookups ==
  ASSUME NEW s, NEW r, Rivals(s, r), s.op \in {"Xor", "Or", "And", "XorI", "OriI", "AndiI"}
  PROVE  AllIn(BytesLogic(CASE s.op \in {"Xor", "XorI"} -> "bytes_xor"
                            [] s.op \in {"Or", "OriI"} -> "bytes_or"
                            [] s.op \in {"And", "AndiI"} -> "bytes_and",
                          r, IF s.op \in RegisterOps THEN r.rs2_value ELSE r.imm_se_bytes))
<1>1. AllIn(Lookups(s.op, r))
  BY DEF Rivals
<1>2. CASE s.op = "Xor"
  <2>1. PICK a : a = BytesLogic("bytes_xor", r, r.rs2_value) /\ Listed(a)
    BY LogicListed
  <2>2. PICK b : b = Bytes(r.rs1_value) /\ Listed(b)
    BY BytesListed
  <2>3. PICK c : c = Bytes(r.rs2_value) /\ Listed(c)
    BY BytesListed
  <2>4. AllIn((a \o b) \o c)
    BY <1>1, <1>2, <2>1, <2>2, <2>3 DEF Lookups, XorLookups
  <2>5. Listed(a \o b)
    BY <2>1, <2>2, ListsJoin
  <2>6. AllIn(a \o b)
    BY <2>3, <2>4, <2>5, ListsJoin
  <2>7. AllIn(a)
    BY <2>1, <2>2, <2>6, ListsJoin
  <2> QED
    BY <1>2, <2>1, <2>7 DEF RegisterOps
<1>3. CASE s.op = "XorI"
  BY <1>1, <1>3 DEF Lookups, XorILookups, RegisterOps
<1>4. CASE s.op = "Or"
  BY <1>1, <1>4 DEF Lookups, OrLookups, RegisterOps
<1>5. CASE s.op = "OriI"
  BY <1>1, <1>5 DEF Lookups, OriILookups, RegisterOps
<1>6. CASE s.op = "And"
  BY <1>1, <1>6 DEF Lookups, AndLookups, RegisterOps
<1>7. CASE s.op = "AndiI"
  BY <1>1, <1>7 DEF Lookups, AndiILookups, RegisterOps
<1> QED
  BY <1>2, <1>3, <1>4, <1>5, <1>6, <1>7

\* With a limb below its bits, an immediate splits in one way.
LEMMA ImmForced ==
  ASSUME NEW s, NEW r, Rivals(s, r), s.op \in ShortImmOps
  PROVE  /\ SameLimbs(r.imm_se_bytes, LimbsOf(s.imm))
         /\ r.imm_high_bits[HighBits - 1] = Row(s).imm_high_bits[HighBits - 1]
<1>1. HonestStep(s) /\ Accepts(s.op, r) /\ InRange(s.op, r) /\ Shaped(s.op, r)
  BY DEF Rivals, ForOperands
<1>2. PICK R : R = Row(s)
  OBVIOUS
<1>3. HasImm(R, s.imm) /\ "imm" \in DOMAIN R
  BY <1>2, RowImmediate DEF ShortImmOps
<1>4. SignExtendsImm(R)
  BY <1>1, <1>3, ImmAccepted DEF ShortImmOps
<1>5. SignExtendsImm(r)
  BY <1>1 DEF Accepts, AddIAir, XorIAir, OriIAir, AndiIAir, SltiIAir, SltiuIAir, ShortImmOps, ImmOps
<1>6. r.imm = R.imm
  <2>1. "imm" \in OperandColumns
    BY DEF OperandColumns
  <2>2. r["imm"] = R["imm"]
    BY <1>2, <1>3, <2>1, RivalKeeps
  <2> QED
    BY <2>2
<1>7. PICK b \in Nat \ {0} : b = Base
  BY Weights
<1>8. PICK z \in Int : z = s.imm
  BY <1>1, HonestOperands
<1>9. PICK y \in 0 .. b - 1 : y = R.imm_se_bytes[0]
  <2>1. ByteLimbs(LimbsOf(z)) /\ 0 \in Limb
    BY LimbsAreBytes, Geometry
  <2> QED
    BY <1>3, <1>7, <1>8, <2>1 DEF HasImm, ByteLimbs
<1>10. PICK x \in 0 .. b - 1 : x = r.imm_se_bytes[0]
  <2>1. CASE s.op \in {"AddI", "SltiI", "SltiuI"}
    BY <1>1, <1>7, <2>1 DEF InRange
  <2>2. CASE s.op \in {"XorI", "OriI", "AndiI"}
    <3>1. PICK bus : /\ AllIn(BytesLogic(bus, r, r.imm_se_bytes))
                     /\ bus \in {"bytes_xor", "bytes_or", "bytes_and"}
      <4>1. s.op \notin RegisterOps
        BY <2>2 DEF RegisterOps
      <4> QED
        BY <2>2, <4>1, LogicLookups
    <3>2. PICK i \in Limb : i = 0
      BY Geometry
    <3>3. InTable(<<bus, r.rs1_value[i], r.imm_se_bytes[i], r.rd_new_value[i]>>)
      BY <3>1, LogicLimb
    <3>4. r.imm_se_bytes[i] \in 0 .. Base - 1
      BY <3>1, <3>3 DEF InTable, IsLimb
    <3> QED
      BY <1>7, <3>2, <3>4
  <2> QED
    BY <2>1, <2>2 DEF ShortImmOps, ImmOps
<1>11. PICK n \in Nat : n = HighBits /\ n >= 1
  BY Geometry
<1>12. PICK two \in Nat \ {0} : two = 2
  OBVIOUS
<1>13. PICK B : B = R.imm_high_bits /\ AreDigits(B, two, n)
  <2>1. AllBits(R.imm_high_bits) /\ DOMAIN R.imm_high_bits = 0 .. n - 1
    BY <1>3, <1>4, <1>11 DEF HasImm, SignExtendsImm
  <2> QED
    BY <1>12, <2>1 DEF AllBits, Boolean, AreDigits
<1>14. PICK A : A = r.imm_high_bits /\ AreDigits(A, two, n)
  <2>1. AllBits(r.imm_high_bits) /\ DOMAIN r.imm_high_bits = 0 .. n - 1
    BY <1>1, <1>5, <1>11 DEF SignExtendsImm, Shaped
  <2> QED
    BY <1>12, <2>1 DEF AllBits, Boolean, AreDigits
<1>15. PICK h \in Int : h = Digits(A, two, n)[0] /\ h = BitsValue(r.imm_high_bits, HighBits)
  <2>1. \A i \in 0 .. n - 1 : A[i] \in Int
    BY <1>12, <1>14 DEF AreDigits
  <2>2. Digits(A, two, n) \in [0 .. n -> Int]
    BY <1>12, <2>1, DigitsStep
  <2> QED
    BY <1>11, <1>12, <1>14, <2>2 DEF BitsValue
<1>16. PICK g \in Int : g = Digits(B, two, n)[0] /\ g = BitsValue(R.imm_high_bits, HighBits)
  <2>1. \A i \in 0 .. n - 1 : B[i] \in Int
    BY <1>12, <1>13 DEF AreDigits
  <2>2. Digits(B, two, n) \in [0 .. n -> Int]
    BY <1>12, <2>1, DigitsStep
  <2> QED
    BY <1>11, <1>12, <1>13, <2>2 DEF BitsValue
<1>17. x = y /\ h = g
  <2>1. PICK v \in Int : v = b * h + x
    OBVIOUS
  <2>2. v = b * g + y
    <3>1. r.imm = x + h * b /\ R.imm = y + g * b
      BY <1>4, <1>5, <1>7, <1>9, <1>10, <1>15, <1>16 DEF SignExtendsImm
    <3>2. h * b = b * h /\ g * b = b * g
      OBVIOUS
    <3>3. x + b * h = y + b * g
      BY <1>6, <3>1, <3>2
    <3> QED
      BY <2>1, <3>3
  <2>3. v \div b = h /\ v % b = x
    BY <2>1, DivisionUnique
  <2>4. v \div b = g /\ v % b = y
    BY <2>2, DivisionUnique
  <2> QED
    BY <2>3, <2>4
<1>18. A[n - 1] = B[n - 1]
  <2>1. PICK k \in 0 .. n : k = 0
    OBVIOUS
  <2>2. Digits(A, two, n)[k] = Digits(B, two, n)[k]
    BY <1>15, <1>16, <1>17, <2>1
  <2>3. \A i \in k .. n - 1 : A[i] = B[i]
    BY <1>13, <1>14, <2>2, DigitsForced
  <2> QED
    BY <1>11, <2>1, <2>3
<1>19. PICK t : t = r.imm_high_bits[HighBits - 1] /\ t = R.imm_high_bits[HighBits - 1]
  BY <1>11, <1>13, <1>14, <1>18
<1>20. ASSUME NEW i \in Limb
       PROVE  r.imm_se_bytes[i] = R.imm_se_bytes[i]
  <2>1. i = 0 \/ i = 1 \/ i \in 2 .. Top
    BY Geometry
  <2>2. CASE i = 0
    BY <1>9, <1>10, <1>17, <2>2
  <2>3. CASE i = 1
    <3>1. r.imm_se_bytes[1] = h + t * (Base - 2 ^ HighBits)
      BY <1>5, <1>15, <1>19 DEF SignExtendsImm
    <3>2. R.imm_se_bytes[1] = g + t * (Base - 2 ^ HighBits)
      BY <1>4, <1>16, <1>19 DEF SignExtendsImm
    <3> QED
      BY <1>17, <2>3, <3>1, <3>2
  <2>4. CASE i \in 2 .. Top
    <3>1. r.imm_se_bytes[i] = t * (Base - 1)
      BY <1>5, <1>19, <2>4 DEF SignExtendsImm
    <3>2. R.imm_se_bytes[i] = t * (Base - 1)
      BY <1>4, <1>19, <2>4 DEF SignExtendsImm
    <3> QED
      BY <3>1, <3>2
  <2> QED
    BY <2>1, <2>2, <2>3, <2>4
<1> QED
  BY <1>2, <1>3, <1>19, <1>20 DEF HasImm, SameLimbs

LEMMA SumsForced ==
  ASSUME NEW s, NEW r, Rivals(s, r), s.op \in {"Add", "AddI", "Sub"}
  PROVE  FALSE
<1>1. HonestStep(s) /\ Accepts(s.op, r) /\ AllIn(Lookups(s.op, r))
  BY DEF Rivals
<1>2. PICK R : R = Row(s) /\ Accepts(s.op, R)
  BY <1>1, RowAccepted
<1>3. R.rs1_value = r.rs1_value /\ R.rs2_value = r.rs2_value /\ R.rd_new_value = LimbsOf(s.rd_val)
  BY <1>1, <1>2, RivalColumns, RowColumns DEF HasValues, HonestStep
<1>4. PICK x : x = r.rs1_value /\ IntLimbs(x)
  BY RivalColumns
<1>5. PICK y : y = (IF s.op = "AddI" THEN LimbsOf(s.imm) ELSE r.rs2_value) /\ IntLimbs(y)
  BY RivalColumns
<1>6. s.op = "AddI" => R.imm_se_bytes = y /\ SameLimbs(r.imm_se_bytes, y)
  <2>1. ASSUME s.op = "AddI"
        PROVE  HasImm(R, s.imm) /\ SameLimbs(r.imm_se_bytes, LimbsOf(s.imm))
    BY <1>2, <2>1, ImmForced, RowImmediate DEF ShortImmOps, ImmOps
  <2> QED
    BY <1>5, <2>1 DEF HasImm
<1>7. PICK v \in Int : v = s.rd_val
  <2>1. PICK m \in Nat \ {0} : m = Size
    BY Weights, Geometry
  <2>2. s.rs1_value \in Int /\ s.rs2_value \in Int /\ s.imm \in Int
    BY <1>1, HonestOperands
  <2>3. \E w \in Int : s.rd_val = w % m
    BY <1>1, <2>1, <2>2 DEF HonestStep, Logged, RvAlu, Arithmetic, RegisterOps
  <2> QED
    BY <2>3, Division
<1>8. ByteLimbs(R.rd_new_value)
  BY <1>3, <1>7, LimbsAreBytes
<1>9. ByteLimbs(r.rd_new_value)
  <2>1. AllIn(Bytes(r.rd_new_value))
    <3>1. /\ Listed(Bytes(r.rs1_value)) /\ Listed(Bytes(r.rs2_value)) /\ Listed(Bytes(r.rd_new_value))
      BY BytesListed
    <3>2. Listed(Bytes(r.rs1_value) \o Bytes(r.rs2_value))
      BY <3>1, ListsJoin
    <3>3. \E t : Listed(t) /\ AllIn(t \o Bytes(r.rd_new_value))
      BY <1>1, <3>1, <3>2 DEF Lookups, AddLookups, SubLookups, AddILookups
    <3> QED
      BY <3>1, <3>3, ListsJoin
  <2> QED
    BY <2>1, BytesListed
<1>10. SameLimbs(r.rd_new_value, R.rd_new_value)
  <2>1. CASE s.op \in {"Add", "AddI"}
    <3>1. U32Add(x, y, r.rd_new_value, r.add_carries)
      <4>1. CASE s.op = "Add"
        BY <1>1, <1>4, <1>5, <4>1 DEF Accepts, AddAir
      <4>2. CASE s.op = "AddI"
        <5>1. U32Add(x, r.imm_se_bytes, r.rd_new_value, r.add_carries)
          BY <1>1, <1>4, <4>2 DEF Accepts, AddIAir
        <5> QED
          BY <1>6, <4>2, <5>1, SameOperand
      <4> QED
        BY <2>1, <4>1, <4>2
    <3>2. U32Add(x, y, R.rd_new_value, R.add_carries)
      BY <1>2, <1>3, <1>4, <1>5, <1>6, <2>1 DEF Accepts, AddAir, AddIAir
    <3> QED
      BY <1>4, <1>5, <1>8, <1>9, <3>1, <3>2, SumForced
  <2>2. CASE s.op = "Sub"
    <3>1. U32Sub(x, y, r.rd_new_value, r.sub_borrows)
      BY <1>1, <1>4, <1>5, <2>2 DEF Accepts, SubAir
    <3>2. U32Sub(x, y, R.rd_new_value, R.sub_borrows)
      BY <1>2, <1>3, <1>4, <1>5, <2>2 DEF Accepts, SubAir
    <3> QED
      BY <1>4, <1>5, <1>8, <1>9, <3>1, <3>2, DifferenceForced
  <2> QED
    BY <2>1, <2>2
<1>11. s.op \notin Comparisons
  BY DEF Comparisons
<1> QED
  BY <1>2, <1>10, <1>11, RivalDiffers

LEMMA LogicForced ==
  ASSUME NEW s, NEW r, Rivals(s, r), s.op \in {"Xor", "Or", "And", "XorI", "OriI", "AndiI"}
  PROVE  FALSE
<1>1. HonestStep(s) /\ Accepts(s.op, r) /\ AllIn(Lookups(s.op, r))
  BY DEF Rivals
<1>2. PICK w : w = Row(s).rd_new_value /\ w = LimbsOf(s.rd_val)
  BY <1>1, RowColumns DEF HasValues, HonestStep
<1>3. PICK x \in Int : x = s.rs1_value
  BY <1>1, HonestOperands
<1>4. PICK y \in Int : y = IF s.op \in RegisterOps THEN s.rs2_value ELSE s.imm
  BY <1>1, HonestOperands
<1>5. PICK z : z = IF s.op \in RegisterOps THEN r.rs2_value ELSE r.imm_se_bytes
  OBVIOUS
<1>6. r.rs1_value = LimbsOf(x) /\ \A i \in Limb : z[i] = LimbsOf(y)[i]
  <2>1. r.rs1_value = LimbsOf(x) /\ r.rs2_value = LimbsOf(s.rs2_value)
    BY <1>3, RivalColumns
  <2>2. s.op \notin RegisterOps => SameLimbs(r.imm_se_bytes, LimbsOf(s.imm))
    BY ImmForced DEF RegisterOps, ShortImmOps, ImmOps
  <2> QED
    BY <1>4, <1>5, <2>1, <2>2 DEF SameLimbs
<1>7. ASSUME NEW i \in Limb
      PROVE  r.rd_new_value[i] = w[i]
  <2>1. CASE s.op \in {"Xor", "XorI"}
    <3>1. AllIn(BytesLogic("bytes_xor", r, z))
      BY <1>5, <2>1, LogicLookups
    <3>2. InTable(<<"bytes_xor", r.rs1_value[i], z[i], r.rd_new_value[i]>>)
      BY <3>1, LogicLimb
    <3>3. r.rd_new_value[i] = Bitwise(BitXor, r.rs1_value[i], z[i])
      BY <3>2 DEF InTable, XorTableRow, LogicRow
    <3>4. s.rd_val = Bitwise(BitXor, x, y)
      BY <1>1, <1>3, <1>4, <2>1 DEF HonestStep, Logged, RvAlu, Logical, RegisterOps
    <3> QED
      BY <1>2, <1>6, <3>3, <3>4, BitwiseLimb
  <2>2. CASE s.op \in {"Or", "OriI"}
    <3>1. AllIn(BytesLogic("bytes_or", r, z))
      BY <1>5, <2>2, LogicLookups
    <3>2. InTable(<<"bytes_or", r.rs1_value[i], z[i], r.rd_new_value[i]>>)
      BY <3>1, LogicLimb
    <3>3. r.rd_new_value[i] = Bitwise(BitOr, r.rs1_value[i], z[i])
      BY <3>2 DEF InTable, OrTableRow, LogicRow
    <3>4. s.rd_val = Bitwise(BitOr, x, y)
      BY <1>1, <1>3, <1>4, <2>2 DEF HonestStep, Logged, RvAlu, Logical, RegisterOps
    <3> QED
      BY <1>2, <1>6, <3>3, <3>4, BitwiseLimb
  <2>3. CASE s.op \in {"And", "AndiI"}
    <3>1. AllIn(BytesLogic("bytes_and", r, z))
      BY <1>5, <2>3, LogicLookups
    <3>2. InTable(<<"bytes_and", r.rs1_value[i], z[i], r.rd_new_value[i]>>)
      BY <3>1, LogicLimb
    <3>3. r.rd_new_value[i] = Bitwise(BitAnd, r.rs1_value[i], z[i])
      BY <3>2 DEF InTable, AndTableRow, LogicRow
    <3>4. s.rd_val = Bitwise(BitAnd, x, y)
      BY <1>1, <1>3, <1>4, <2>3 DEF HonestStep, Logged, RvAlu, Logical, RegisterOps
    <3> QED
      BY <1>2, <1>6, <3>3, <3>4, BitwiseLimb
  <2> QED
    BY <2>1, <2>2, <2>3
<1>8. SameLimbs(r.rd_new_value, w) /\ s.op \notin Comparisons
  BY <1>7 DEF SameLimbs, Comparisons
<1> QED
  BY <1>2, <1>8, RivalDiffers

\* The columns of a comparison.
LEMMA CompareColumnsOf ==
  ASSUME NEW s, s.op \in Comparisons
  PROVE  /\ Row(s).diff_bytes =
              SubDiff(s.rs1_value, IF s.op \in RegisterOps THEN s.rs2_value ELSE s.imm)
         /\ s.op \in {"Slt", "SltiI"} => Row(s).rs1_byte3_low7 = TopLow(s.rs1_value)
         /\ s.op = "Slt" => Row(s).rs2_byte3_low7 = TopLow(s.rs2_value)
<1>1. CASE s.op = "Sltu"
  <2>1. Row(s).diff_bytes = SubDiff(s.rs1_value, s.rs2_value)
    BY <1>1 DEF Row, SltuRow, RegisterColumns, PcColumns, ValueColumns, CompareColumns, ++
  <2> QED
    BY <1>1, <2>1 DEF RegisterOps
<1>2. CASE s.op = "SltiuI"
  <2>1. PICK a : a = RegisterColumns(s) ++ ImmColumns(s)
    OBVIOUS
  <2>2. "diff_bytes" \notin DOMAIN a
    BY <2>1 DEF RegisterColumns, PcColumns, ValueColumns, ImmColumns, ++
  <2>3. (a ++ CompareColumns(s.rs1_value, s.imm, s.rs1_value < s.imm)).diff_bytes
          = SubDiff(s.rs1_value, s.imm)
    BY <2>2 DEF CompareColumns, ++
  <2>4. Row(s) = a ++ CompareColumns(s.rs1_value, s.imm, s.rs1_value < s.imm)
    BY <1>2, <2>1 DEF Row, SltiuIRow
  <2> QED
    BY <1>2, <2>3, <2>4 DEF RegisterOps
<1>3. CASE s.op = "Slt"
  <2> DEFINE less == Signed(s.rs1_value) < Signed(s.rs2_value)
  <2>1. PICK a : a = RegisterColumns(s) ++ CompareColumns(s.rs1_value, s.rs2_value, less)
    OBVIOUS
  <2>2. /\ "diff_bytes" \in DOMAIN a /\ a.diff_bytes = SubDiff(s.rs1_value, s.rs2_value)
        /\ "rs1_byte3_low7" \notin DOMAIN a /\ "rs2_byte3_low7" \notin DOMAIN a
    BY <2>1 DEF RegisterColumns, PcColumns, ValueColumns, CompareColumns, ++
  <2>3. PICK g : /\ Row(s) = a ++ g
                 /\ g = [sign_rs1 |-> SignOf(s.rs1_value), rs1_byte3_low7 |-> TopLow(s.rs1_value),
                         sign_rs2 |-> SignOf(s.rs2_value), rs2_byte3_low7 |-> TopLow(s.rs2_value)]
    BY <1>3, <2>1 DEF Row, SltRow
  <2>4. /\ (a ++ g).diff_bytes = a.diff_bytes
        /\ (a ++ g).rs1_byte3_low7 = TopLow(s.rs1_value)
        /\ (a ++ g).rs2_byte3_low7 = TopLow(s.rs2_value)
    BY <2>2, <2>3 DEF ++
  <2> QED
    BY <1>3, <2>2, <2>3, <2>4 DEF RegisterOps
<1>4. CASE s.op = "SltiI"
  <2> DEFINE less == Signed(s.rs1_value) < Signed(s.imm)
  <2>1. PICK i : i = RegisterColumns(s) ++ ImmColumns(s)
    OBVIOUS
  <2>2. "diff_bytes" \notin DOMAIN i /\ "rs1_byte3_low7" \notin DOMAIN i
    BY <2>1 DEF RegisterColumns, PcColumns, ValueColumns, ImmColumns, ++
  <2>3. PICK a : a = i ++ CompareColumns(s.rs1_value, s.imm, less)
    OBVIOUS
  <2>4. /\ "diff_bytes" \in DOMAIN a /\ a.diff_bytes = SubDiff(s.rs1_value, s.imm)
        /\ "rs1_byte3_low7" \notin DOMAIN a
    BY <2>2, <2>3 DEF CompareColumns, ++
  <2>5. PICK g : /\ Row(s) = a ++ g
                 /\ g = [sign_rs1 |-> SignOf(s.rs1_value), rs1_byte3_low7 |-> TopLow(s.rs1_value)]
    BY <1>4, <2>1, <2>3 DEF Row, SltiIRow
  <2>6. /\ (a ++ g).diff_bytes = a.diff_bytes
        /\ (a ++ g).rs1_byte3_low7 = TopLow(s.rs1_value)
    BY <2>4, <2>5 DEF ++
  <2> QED
    BY <1>4, <2>4, <2>5, <2>6 DEF RegisterOps
<1> QED
  BY <1>1, <1>2, <1>3, <1>4 DEF Comparisons

\* With its low bits in range a limb has one sign.
LEMMA SignForced ==
  ASSUME NEW t, NEW g, NEW h, NEW a \in 0 .. LowHalf - 1, NEW b \in 0 .. LowHalf - 1,
         SplitsSign(t, g, a), SplitsSign(t, h, b)
  PROVE  g = h
<1>1. PICK l \in Nat \ {0} : l = LowHalf
  BY Halves
<1>2. g \in {0, 1} /\ h \in {0, 1} /\ t = g * l + a /\ t = h * l + b
  BY <1>1 DEF SplitsSign, LowHalf, Boolean
<1>3. PICK p \in {0, l} : p = g * l /\ (p = l <=> g = 1)
  BY <1>2
<1>4. PICK q \in {0, l} : q = h * l /\ (q = l <=> h = 1)
  BY <1>2
<1>5. p + a = q + b
  BY <1>2, <1>3, <1>4
<1>6. a < l /\ b < l /\ a \in Int /\ b \in Int /\ a >= 0 /\ b >= 0
  BY <1>1
<1>7. p = q
  BY <1>5, <1>6
<1> QED
  BY <1>2, <1>3, <1>4, <1>7

LEMMA ComparisonForced ==
  ASSUME NEW s, NEW r, Rivals(s, r), s.op \in Comparisons
  PROVE  FALSE
<1>1. HonestStep(s) /\ Accepts(s.op, r) /\ AllIn(Lookups(s.op, r)) /\ InRange(s.op, r)
  BY DEF Rivals
<1>2. PICK R : R = Row(s) /\ Accepts(s.op, R)
  BY <1>1, RowAccepted
<1>3. PICK x \in Int : x = s.rs1_value
  BY <1>1, HonestOperands
<1>4. PICK y \in Int : y = IF s.op \in RegisterOps THEN s.rs2_value ELSE s.imm
  BY <1>1, HonestOperands
<1>5. R.rs1_value = LimbsOf(x) /\ r.rs1_value = LimbsOf(x) /\ IntLimbs(LimbsOf(x))
  BY <1>1, <1>2, <1>3, RivalColumns, RowColumns, LimbsAreBytes DEF HasValues, HonestStep
<1>6. IntLimbs(LimbsOf(y))
  BY LimbsAreBytes
<1>7. s.op \in RegisterOps => R.rs2_value = LimbsOf(y) /\ r.rs2_value = LimbsOf(y)
  BY <1>1, <1>2, <1>4, RivalColumns, RowColumns DEF HasValues, HonestStep
<1>8. ASSUME s.op \notin RegisterOps
      PROVE  /\ R.imm_se_bytes = LimbsOf(y) /\ SameLimbs(r.imm_se_bytes, LimbsOf(y))
             /\ r.imm_high_bits[HighBits - 1] = R.imm_high_bits[HighBits - 1]
  <2>1. s.op \in ShortImmOps
    BY <1>8 DEF Comparisons, ShortImmOps, ImmOps, RegisterOps
  <2>2. HasImm(R, s.imm)
    BY <1>2, <2>1, RowImmediate DEF ShortImmOps
  <2> QED
    BY <1>2, <1>4, <1>8, <2>1, <2>2, ImmForced DEF HasImm
<1>9. ByteLimbs(R.diff_bytes)
  <2>1. R.diff_bytes = SubDiff(x, y)
    BY <1>2, <1>3, <1>4, CompareColumnsOf
  <2>2. PICK m \in Nat \ {0} : m = Size
    BY Weights, Geometry
  <2>3. PICK d \in Int : d = x - y
    OBVIOUS
  <2>4. PICK e \in Int : e = d % m
    <3>1. d % m \in Int
      BY Division
    <3> QED
      BY <3>1
  <2>5. SubDiff(x, y) = LimbsOf(e)
    <3>1. SubDiff(x, y) = LimbsOf((x - y) % Size)
      BY SubGadget
    <3> QED
      BY <2>2, <2>3, <2>4, <3>1
  <2> QED
    BY <2>1, <2>5, LimbsAreBytes
<1>10. ByteLimbs(r.diff_bytes)
  <2>1. PICK d : d = Bytes(r.diff_bytes) /\ Listed(d)
    BY BytesListed
  <2>2. PICK a : a = Bytes(r.rs1_value) /\ Listed(a)
    BY BytesListed
  <2>3. PICK b : b = Bytes(r.rs2_value) /\ Listed(b)
    BY BytesListed
  <2>4. PICK u : u = Byte(r.rs1_byte3_low7) /\ Listed(u)
    BY ByteListed
  <2>5. PICK v : v = Byte(r.rs2_byte3_low7) /\ Listed(v)
    BY ByteListed
  <2>6. AllIn(d)
    <3>1. CASE s.op = "Sltu"
      <4>1. AllIn((a \o b) \o d)
        BY <1>1, <2>1, <2>2, <2>3, <3>1 DEF Lookups, SltuLookups
      <4>2. Listed(a \o b)
        BY <2>2, <2>3, ListsJoin
      <4> QED
        BY <2>1, <4>1, <4>2, ListsJoin
    <3>2. CASE s.op = "SltiuI"
      <4>1. AllIn(a \o d)
        BY <1>1, <2>1, <2>2, <3>2 DEF Lookups, SltiuILookups
      <4> QED
        BY <2>1, <2>2, <4>1, ListsJoin
    <3>3. CASE s.op = "Slt"
      <4>1. AllIn((((a \o b) \o d) \o u) \o v)
        BY <1>1, <2>1, <2>2, <2>3, <2>4, <2>5, <3>3 DEF Lookups, SltLookups
      <4>2. Listed(a \o b)
        BY <2>2, <2>3, ListsJoin
      <4>3. Listed((a \o b) \o d)
        BY <2>1, <4>2, ListsJoin
      <4>4. Listed(((a \o b) \o d) \o u)
        BY <2>4, <4>3, ListsJoin
      <4>5. AllIn(((a \o b) \o d) \o u)
        BY <2>5, <4>1, <4>4, ListsJoin
      <4>6. AllIn((a \o b) \o d)
        BY <2>4, <4>3, <4>5, ListsJoin
      <4> QED
        BY <2>1, <4>2, <4>6, ListsJoin
    <3>4. CASE s.op = "SltiI"
      <4>1. AllIn((a \o d) \o u)
        BY <1>1, <2>1, <2>2, <2>4, <3>4 DEF Lookups, SltiILookups
      <4>2. Listed(a \o d)
        BY <2>1, <2>2, ListsJoin
      <4>3. AllIn(a \o d)
        BY <2>4, <4>1, <4>2, ListsJoin
      <4> QED
        BY <2>1, <2>2, <4>3, ListsJoin
    <3> QED
      BY <3>1, <3>2, <3>3, <3>4 DEF Comparisons
  <2> QED
    BY <2>1, <2>6, BytesListed
<1>11. /\ U32Sub(LimbsOf(x), LimbsOf(y), r.diff_bytes, r.borrow)
       /\ U32Sub(LimbsOf(x), LimbsOf(y), R.diff_bytes, R.borrow)
  <2>1. CASE s.op \in RegisterOps
    <3>1. Compares(r, LimbsOf(y)) /\ Compares(R, LimbsOf(y))
      BY <1>1, <1>2, <1>7, <2>1 DEF Accepts, SltAir, SltuAir, Comparisons, RegisterOps
    <3> QED
      BY <1>5, <3>1 DEF Compares
  <2>2. CASE s.op \notin RegisterOps
    <3>1. Compares(r, r.imm_se_bytes) /\ Compares(R, LimbsOf(y))
      BY <1>1, <1>2, <1>8, <2>2 DEF Accepts, SltiIAir, SltiuIAir, Comparisons, RegisterOps
    <3>2. U32Sub(LimbsOf(x), r.imm_se_bytes, r.diff_bytes, r.borrow)
      BY <1>5, <3>1 DEF Compares
    <3>3. U32Sub(LimbsOf(x), LimbsOf(y), r.diff_bytes, r.borrow)
      BY <1>8, <2>2, <3>2, SameOperand
    <3> QED
      BY <1>5, <3>1, <3>3 DEF Compares
  <2> QED
    BY <2>1, <2>2
<1>12. r.borrow[Top] = R.borrow[Top]
  <2>1. SameLimbs(r.borrow, R.borrow)
    BY <1>5, <1>6, <1>9, <1>10, <1>11, DifferenceForced
  <2>2. Top \in Limb
    BY Geometry DEF Top
  <2> QED
    BY <2>1, <2>2 DEF SameLimbs
<1>13. ASSUME NEW w \in 0 .. Size - 1
       PROVE  TopLow(w) \in 0 .. LowHalf - 1
  BY SignSplits
<1>14. ASSUME s.op \in {"Slt", "SltiI"}
       PROVE  r.sign_rs1 = R.sign_rs1
  <2>1. R.rs1_byte3_low7 \in 0 .. LowHalf - 1
    <3>1. PICK w \in 0 .. Size - 1 : w = s.rs1_value
      BY <1>1, HonestOperands
    <3> QED
      BY <1>2, <1>13, <1>14, <3>1, CompareColumnsOf
  <2>2. r.rs1_byte3_low7 \in 0 .. LowHalf - 1
    BY <1>1, <1>14 DEF InRange
  <2>3. /\ SplitsSign(LimbsOf(x)[Top], r.sign_rs1, r.rs1_byte3_low7)
        /\ SplitsSign(LimbsOf(x)[Top], R.sign_rs1, R.rs1_byte3_low7)
    BY <1>1, <1>2, <1>5, <1>14 DEF Accepts, SltAir, SltiIAir
  <2> QED
    BY <2>1, <2>2, <2>3, SignForced
<1>15. ASSUME s.op = "Slt"
       PROVE  r.sign_rs2 = R.sign_rs2
  <2>1. R.rs2_byte3_low7 \in 0 .. LowHalf - 1
    <3>1. PICK w \in 0 .. Size - 1 : w = s.rs2_value
      BY <1>1, HonestOperands
    <3> QED
      BY <1>2, <1>13, <1>15, <3>1, CompareColumnsOf
  <2>2. r.rs2_byte3_low7 \in 0 .. LowHalf - 1
    BY <1>1, <1>15 DEF InRange
  <2>3. /\ SplitsSign(LimbsOf(y)[Top], r.sign_rs2, r.rs2_byte3_low7)
        /\ SplitsSign(LimbsOf(y)[Top], R.sign_rs2, R.rs2_byte3_low7)
    BY <1>1, <1>2, <1>7, <1>15 DEF Accepts, SltAir, RegisterOps
  <2> QED
    BY <2>1, <2>2, <2>3, SignForced
<1>16. r.lt_result = R.lt_result
  <2>1. CASE s.op \in {"Sltu", "SltiuI"}
    BY <1>1, <1>2, <1>12, <2>1 DEF Accepts, SltuAir, SltiuIAir
  <2>2. CASE s.op = "Slt"
    BY <1>1, <1>2, <1>12, <1>14, <1>15, <2>2 DEF Accepts, SltAir
  <2>3. CASE s.op = "SltiI"
    BY <1>1, <1>2, <1>8, <1>12, <1>14, <2>3 DEF Accepts, SltiIAir, RegisterOps
  <2> QED
    BY <2>1, <2>2, <2>3 DEF Comparisons
<1> QED
  BY <1>2, <1>16, RivalDiffers

LEMMA LuiForced ==
  ASSUME NEW s, NEW r, Rivals(s, r), s.op = "Lui"
  PROVE  FALSE
<1>1. HonestStep(s) /\ LuiAir(r) /\ AllIn(Bytes(r.rd_new_value))
  BY DEF Rivals, Accepts, Lookups, LuiLookups
<1>2. PICK R : R = Row(s) /\ LuiAir(R)
  BY <1>1, RowAccepted DEF Accepts
<1>3. {"imm_low8", "imm_high12"} \subseteq DOMAIN R
  BY <1>2 DEF Row, LuiRow, RegisterColumns, PcColumns, ValueColumns, UpperColumns, ++
<1>4. r["imm_low8"] = R["imm_low8"] /\ r["imm_high12"] = R["imm_high12"]
  BY <1>2, <1>3, RivalKeeps DEF OperandColumns
<1>5. r.imm_low8 = R.imm_low8 /\ r.imm_high12 = R.imm_high12
  BY <1>4
<1>6. /\ r.rd_new_value[0] = 0 /\ R.rd_new_value[0] = 0
      /\ Digits(r.rd_new_value, Base, NumLimbs)[1] = Digits(R.rd_new_value, Base, NumLimbs)[1]
  BY <1>1, <1>2, <1>5 DEF LuiAir, MovesUp
<1>7. ByteLimbs(r.rd_new_value)
  BY <1>1, BytesListed
<1>8. ByteLimbs(R.rd_new_value)
  <2>1. PICK m \in Nat \ {0} : m = Size
    BY Weights, Geometry
  <2>2. PICK p \in Nat \ {0} : p = 2 ^ UpperShift
    BY ImmWeights
  <2>3. PICK z \in Int : z = s.imm
    BY <1>1, HonestOperands
  <2>4. PICK w \in Int : w = z * p
    OBVIOUS
  <2>5. PICK v \in Int : v = w % m
    <3>1. w % m \in Int
      BY Division
    <3> QED
      BY <3>1
  <2>6. s.rd_val = v
    <3>1. s.rd_val = Upper(s.imm)
      BY <1>1 DEF HonestStep, Logged, RvAlu, RegisterOps
    <3> QED
      BY <2>1, <2>2, <2>3, <2>4, <2>5, <3>1 DEF Upper
  <2>7. R.rd_new_value = LimbsOf(v)
    BY <1>1, <1>2, <2>6, RowColumns DEF HasValues, HonestStep
  <2> QED
    BY <2>7, LimbsAreBytes
<1>9. SameLimbs(r.rd_new_value, R.rd_new_value)
  BY <1>6, <1>7, <1>8, UpperForced
<1> QED
  BY <1>2, <1>9, RivalDiffers DEF Comparisons

\* The limbs of an upper immediate above the lowest are looked up.
LEMMA UpperBytesListed ==
  ASSUME NEW x
  PROVE  LET c == SubSeq(Bytes(x), 2, NumLimbs)
         IN  Listed(c) /\ (AllIn(c) => \A i \in Limb \ {0} : x[i] \in 0 .. Base - 1)
<1>1. PICK n \in Nat : n = NumLimbs /\ n >= 2 /\ Limb = 0 .. n - 1
  BY Geometry
<1>2. PICK b : b = Bytes(x) /\ b = [i \in 1 .. n |-> <<"bytes", x[i - 1]>>]
  BY <1>1 DEF Bytes, LimbwiseSeq
<1>3. PICK l \in Nat : l = n - 1
  BY <1>1
<1>4. PICK c : c = SubSeq(b, 2, n) /\ c = [i \in 1 .. l |-> b[i + 1]]
  <2>1. PICK S : \A i \in 1 .. n : b[i] \in S
    <3>1. \A i \in 1 .. n : b[i] \in {b[j] : j \in 1 .. n}
      OBVIOUS
    <3> QED
      BY <3>1
  <2>2. b \in Seq(S) /\ Len(b) = n
    BY <1>2, <2>1
  <2>3. PICK t : t = SubSeq(b, 2, n)
    OBVIOUS
  <2>4. t \in Seq(S) /\ Len(t) = l /\ \A i \in 1 .. l : t[i] = b[i + 1]
    BY <1>1, <1>3, <2>2, <2>3, SubSeqProperties
  <2>5. t = [i \in 1 .. l |-> b[i + 1]]
    BY <2>4
  <2> QED
    BY <2>3, <2>5
<1>5. Listed(c)
  BY <1>4 DEF Listed
<1>6. ASSUME AllIn(c), NEW i \in Limb \ {0}
      PROVE  x[i] \in 0 .. Base - 1
  <2>1. i \in 1 .. l /\ i + 1 \in 1 .. n /\ (i + 1) - 1 = i
    BY <1>1, <1>3
  <2>2. c[i] = b[i + 1] /\ i \in DOMAIN c
    BY <1>4, <2>1
  <2>3. b[i + 1] = <<"bytes", x[i]>>
    BY <1>2, <2>1
  <2>4. InTable(<<"bytes", x[i]>>)
    BY <1>6, <2>2, <2>3 DEF AllIn
  <2> QED
    BY <2>4 DEF InTable, IsLimb
<1> QED
  BY <1>1, <1>2, <1>4, <1>5, <1>6

LEMMA AuipcForced ==
  ASSUME NEW s, NEW r, Rivals(s, r), s.op = "Auipc"
  PROVE  FALSE
<1>1. HonestStep(s) /\ AuipcAir(r) /\ AllIn(AuipcLookups(r))
  BY DEF Rivals, Accepts, Lookups
<1>2. PICK R : R = Row(s) /\ AuipcAir(R)
  BY <1>1, RowAccepted DEF Accepts
<1>3. PICK p \in Int : p = s.pc
  BY <1>1, HonestOperands
<1>4. PICK u \in Int : u = Upper(s.imm) /\ s.rd_val = (p + u) % Size
  <2>1. PICK m \in Nat \ {0} : m = Size
    BY Weights, Geometry
  <2>2. PICK e \in Nat \ {0} : e = 2 ^ UpperShift
    BY ImmWeights
  <2>3. PICK z \in Int : z = s.imm
    BY <1>1, HonestOperands
  <2>4. PICK w \in Int : w = z * e
    OBVIOUS
  <2>5. w % m \in Int
    BY Division
  <2>6. Upper(s.imm) = w % m
    BY <2>1, <2>2, <2>3, <2>4 DEF Upper
  <2>7. s.rd_val = (s.pc + Upper(s.imm)) % Size
    BY <1>1 DEF HonestStep, Logged, RvAlu, RegisterOps
  <2> QED
    BY <1>3, <2>5, <2>6, <2>7
<1>5. {"imm_low8", "imm_high12"} \subseteq DOMAIN R /\ R.imm_u = LimbsOf(u)
  <2>1. PICK a : a = RegisterColumns(s) ++ UpperColumns(s)
    OBVIOUS
  <2>2. {"imm_low8", "imm_high12"} \subseteq DOMAIN a /\ "imm_u" \notin DOMAIN a
    BY <2>1 DEF RegisterColumns, PcColumns, ValueColumns, UpperColumns, ++
  <2>3. PICK g : g = [imm_u |-> LimbsOf(u), add_carries |-> AddCarries(s.pc, u)]
    OBVIOUS
  <2>4. R = a ++ g
    BY <1>2, <1>4, <2>1, <2>3 DEF Row, AuipcRow
  <2>5. {"imm_low8", "imm_high12"} \subseteq DOMAIN (a ++ g) /\ (a ++ g).imm_u = LimbsOf(u)
    BY <2>2, <2>3 DEF ++
  <2> QED
    BY <2>4, <2>5
<1>6. r.imm_low8 = R.imm_low8 /\ r.imm_high12 = R.imm_high12
  <2>1. r["imm_low8"] = R["imm_low8"] /\ r["imm_high12"] = R["imm_high12"]
    BY <1>2, <1>5, RivalKeeps DEF OperandColumns
  <2> QED
    BY <2>1
<1>7. /\ r.imm_u[0] = 0 /\ R.imm_u[0] = 0
      /\ Digits(r.imm_u, Base, NumLimbs)[1] = Digits(R.imm_u, Base, NumLimbs)[1]
  BY <1>1, <1>2, <1>6 DEF AuipcAir, MovesUp
<1>8. r.pc = LimbsOf(p) /\ R.pc = LimbsOf(p)
  BY <1>1, <1>2, <1>3, RivalColumns, RowColumns DEF HasPc, HonestStep
<1>9. PICK v \in Int : v = s.rd_val
  <2>1. PICK m \in Nat \ {0} : m = Size
    BY Weights, Geometry
  <2>2. PICK w \in Int : w = p + u
    OBVIOUS
  <2>3. w % m \in Int
    BY Division
  <2> QED
    BY <1>4, <2>1, <2>2, <2>3
<1>10. R.rd_new_value = LimbsOf(v)
  BY <1>1, <1>2, <1>9, RowColumns DEF HasValues, HonestStep
<1>11. PICK c : c = SubSeq(Bytes(r.imm_u), 2, NumLimbs) /\ Listed(c)
                /\ (AllIn(c) => \A i \in Limb \ {0} : r.imm_u[i] \in 0 .. Base - 1)
  BY UpperBytesListed
<1>12. AllIn(c) /\ ByteLimbs(r.rd_new_value)
  <2>1. PICK a : a = Bytes(r.pc) /\ Listed(a)
    BY BytesListed
  <2>2. PICK d : d = Bytes(r.rd_new_value) /\ Listed(d)
    BY BytesListed
  <2>3. AllIn((a \o c) \o d)
    BY <1>1, <1>11, <2>1, <2>2 DEF AuipcLookups
  <2>4. Listed(a \o c)
    BY <1>11, <2>1, ListsJoin
  <2>5. AllIn(a \o c) /\ AllIn(d)
    BY <2>2, <2>3, <2>4, ListsJoin
  <2>6. AllIn(c)
    BY <1>11, <2>1, <2>5, ListsJoin
  <2> QED
    BY <2>2, <2>5, <2>6, BytesListed
<1>13. IntLimbs(LimbsOf(p)) /\ IntLimbs(LimbsOf(u)) /\ ByteLimbs(LimbsOf(u))
       /\ ByteLimbs(R.rd_new_value)
  BY <1>10, LimbsAreBytes
<1>14. SameLimbs(r.imm_u, LimbsOf(u))
  <2>1. ByteLimbs(r.imm_u)
    <3>1. PICK b \in Nat \ {0} : b = Base
      BY Weights
    <3>2. r.imm_u[0] \in 0 .. b - 1
      BY <1>7
    <3>3. \A i \in Limb \ {0} : r.imm_u[i] \in 0 .. b - 1
      BY <1>11, <1>12, <3>1
    <3> QED
      BY <3>1, <3>2, <3>3 DEF ByteLimbs
  <2>2. PICK x : x = r.imm_u /\ ByteLimbs(x) /\ x[0] = 0
    BY <1>7, <2>1
  <2>3. PICK y : y = R.imm_u /\ y = LimbsOf(u) /\ ByteLimbs(y) /\ y[0] = 0
    BY <1>5, <1>7, <1>13
  <2>4. Digits(x, Base, NumLimbs)[1] = Digits(y, Base, NumLimbs)[1]
    BY <1>7, <2>2, <2>3
  <2>5. SameLimbs(x, y)
    BY <2>2, <2>3, <2>4, UpperForced
  <2> QED
    BY <2>2, <2>3, <2>5
<1>15. /\ U32Add(LimbsOf(p), LimbsOf(u), r.rd_new_value, r.add_carries)
       /\ U32Add(LimbsOf(p), LimbsOf(u), R.rd_new_value, R.add_carries)
  <2>1. U32Add(LimbsOf(p), r.imm_u, r.rd_new_value, r.add_carries)
    BY <1>1, <1>8 DEF AuipcAir
  <2>2. U32Add(LimbsOf(p), LimbsOf(u), R.rd_new_value, R.add_carries)
    BY <1>2, <1>5, <1>8 DEF AuipcAir
  <2> QED
    BY <1>14, <2>1, <2>2, SameOperand
<1>16. SameLimbs(r.rd_new_value, R.rd_new_value)
  BY <1>12, <1>13, <1>15, SumForced
<1> QED
  BY <1>2, <1>16, RivalDiffers DEF Comparisons

LEMMA JumpForced ==
  ASSUME NEW s, NEW r, Rivals(s, r), s.op \in {"Jal", "Jalr"}
  PROVE  FALSE
<1>1. HonestStep(s) /\ LinksPcPlusFour(r) /\ AllIn(Lookups(s.op, r))
  BY DEF Rivals, Accepts, JalAir, JalrAir
<1>2. PICK R : R = Row(s) /\ LinksPcPlusFour(R)
  BY <1>1, RowAccepted DEF Accepts, JalAir, JalrAir
<1>3. PICK x : x = r.pc /\ x = R.pc /\ IntLimbs(x)
  BY <1>1, <1>2, RivalColumns, RowColumns DEF HasLink, HonestStep
<1>4. ByteLimbs(R.rd_new_value)
  <2>1. PICK v \in Int : v = s.rd_val
    <3>1. PICK p \in Int : p = s.pc
      BY <1>1, HonestOperands
    <3>2. s.rd_val = p + 4
      BY <1>1, <3>1 DEF HonestStep
    <3> QED
      BY <3>2
  <2>2. R.rd_new_value = LimbsOf(v)
    BY <1>1, <1>2, <2>1, RowColumns DEF HasValues, HonestStep
  <2> QED
    BY <2>2, LimbsAreBytes
<1>5. ByteLimbs(r.rd_new_value)
  <2>1. PICK d : d = Bytes(r.rd_new_value) /\ Listed(d)
    BY BytesListed
  <2>2. \E a : Listed(a) /\ AllIn(a \o d)
    BY <1>1, <2>1, BytesListed DEF Lookups, JalLookups, JalrLookups
  <2>3. AllIn(d)
    BY <2>1, <2>2, ListsJoin
  <2> QED
    BY <2>1, <2>3, BytesListed
<1>6. /\ U32PlusFour(x, r.rd_new_value, r.rd_val_carries)
      /\ U32PlusFour(x, R.rd_new_value, R.rd_val_carries)
  BY <1>1, <1>2, <1>3 DEF LinksPcPlusFour
<1>7. SameLimbs(r.rd_new_value, R.rd_new_value)
  BY <1>3, <1>4, <1>5, <1>6, LinkForced
<1> QED
  BY <1>2, <1>7, RivalDiffers DEF Comparisons

\* The second operand of a shift or a logic instruction.
SecondWord(s) == IF s.op \in RegisterOps THEN s.rs2_value ELSE s.imm

\* The columns of a shift.
HasOnes(r, s, k) ==
  /\ r.rs1_byte3_low7 = TopLow(s.rs1_value)
  /\ r.srl_ff_shifted = s.is_dummy * ((Base - 1) \div 2 ^ (k % LimbBits))
  /\ r.srl_ff_carry = s.is_dummy * (((Base - 1) * 2 ^ (LimbBits - (k % LimbBits))) % Base)

HasHigh(r, s) == r.rs2_shamt_high = LimbsOf(s.rs2_value)[0] \div XLEN

LEMMA ShiftColumnsOf ==
  ASSUME NEW s, s.op \in Shifts, NEW k, k = Shamt(SecondWord(s))
  PROVE  /\ HasShift(Row(s), k)
         /\ s.op \in {"Sll", "SlliI"} => HasLeftParts(Row(s), s.rs1_value, k)
         /\ s.op \notin {"Sll", "SlliI"} => HasRightParts(Row(s), s.rs1_value, k)
         /\ s.op \in {"Sll", "Srl", "Sra"} => HasHigh(Row(s), s)
         /\ s.op \in {"Sra", "SraiI"} => HasOnes(Row(s), s, k)
<1>1. /\ s.op \in {"Sll", "Srl", "Sra"} => k = Shamt(s.rs2_value)
      /\ s.op \in {"SlliI", "SrliI", "SraiI"} => k = Shamt(s.imm)
  BY DEF SecondWord, RegisterOps
<1>2. PICK a : a = ShiftColumns(s, k, ShiftLeft)
  OBVIOUS
<1>3. HasShift(a, k) /\ HasLeftParts(a, s.rs1_value, k) /\ DOMAIN a = ShiftNames
  BY <1>2, LeftPart
<1>4. PICK b : b = ShiftColumns(s, k, ShiftRight)
  OBVIOUS
<1>5. HasShift(b, k) /\ HasRightParts(b, s.rs1_value, k) /\ DOMAIN b = ShiftNames
  BY <1>4, RightPart
<1>6. ASSUME NEW g
      PROVE  /\ HasShift(a ++ g, k) /\ HasLeftParts(a ++ g, s.rs1_value, k)
             /\ HasShift(b ++ g, k) /\ HasRightParts(b ++ g, s.rs1_value, k)
  BY <1>3, <1>5 DEF HasShift, HasLeftParts, HasRightParts, ShiftNames, ++
<1>7. PICK h : h = [rs2_shamt_high |-> LimbsOf(s.rs2_value)[0] \div XLEN]
  OBVIOUS
<1>8. HasHigh(a ++ h, s) /\ HasHigh(b ++ h, s) /\ DOMAIN (b ++ h) = ShiftNames \cup {"rs2_shamt_high"}
  BY <1>3, <1>5, <1>7 DEF HasHigh, ShiftNames, ++
<1>9. PICK c : c = [imm |-> k]
  OBVIOUS
<1>10. DOMAIN (b ++ c) = ShiftNames \cup {"imm"}
  BY <1>5, <1>9 DEF ShiftNames, ++
<1>11. PICK e : e = SignFillColumns(s, k)
  OBVIOUS
<1>12. ASSUME NEW d, DOMAIN d \subseteq ShiftNames \cup {"rs2_shamt_high", "imm"}
       PROVE  HasOnes(d ++ e, s, k)
  BY <1>11, <1>12 DEF HasOnes, SignFillColumns, ShiftRight, ShiftNames, ++
<1>13. HasHigh((b ++ h) ++ e, s)
  BY <1>8 DEF HasHigh, ++
<1>14. CASE s.op = "Sll"
  <2>1. Row(s) = a ++ h
    BY <1>1, <1>2, <1>7, <1>14 DEF Row, SllRow, ShamtHigh
  <2> QED
    BY <1>6, <1>8, <1>14, <2>1
<1>15. CASE s.op = "SlliI"
  <2>1. Row(s) = a ++ c
    BY <1>1, <1>2, <1>9, <1>15 DEF Row, SlliIRow
  <2> QED
    BY <1>6, <1>15, <2>1
<1>16. CASE s.op = "Srl"
  <2>1. Row(s) = b ++ h
    BY <1>1, <1>4, <1>7, <1>16 DEF Row, SrlRow, ShamtHigh
  <2> QED
    BY <1>6, <1>8, <1>16, <2>1
<1>17. CASE s.op = "SrliI"
  <2>1. Row(s) = b ++ c
    BY <1>1, <1>4, <1>9, <1>17 DEF Row, SrliIRow
  <2> QED
    BY <1>6, <1>17, <2>1
<1>18. CASE s.op = "Sra"
  <2>1. Row(s) = (b ++ h) ++ e
    BY <1>1, <1>4, <1>7, <1>11, <1>18 DEF Row, SraRow, ShamtHigh
  <2>2. Row(s) = b ++ (h ++ e)
    BY <2>1, MergeAssociates
  <2>3. HasShift(Row(s), k) /\ HasRightParts(Row(s), s.rs1_value, k)
    BY <1>6, <2>2
  <2>4. HasOnes(Row(s), s, k)
    BY <1>8, <1>12, <2>1
  <2> QED
    BY <1>13, <1>18, <2>1, <2>3, <2>4
<1>19. CASE s.op = "SraiI"
  <2>1. Row(s) = (b ++ c) ++ e
    BY <1>1, <1>4, <1>9, <1>11, <1>19 DEF Row, SraiIRow
  <2>2. Row(s) = b ++ (c ++ e)
    BY <2>1, MergeAssociates
  <2>3. HasShift(Row(s), k) /\ HasRightParts(Row(s), s.rs1_value, k)
    BY <1>6, <2>2
  <2>4. HasOnes(Row(s), s, k)
    BY <1>10, <1>12, <2>1
  <2> QED
    BY <1>19, <2>3, <2>4
<1> QED
  BY <1>14, <1>15, <1>16, <1>17, <1>18, <1>19 DEF Shifts

\* One row of the tables for every limb and bit shift; the parts of a limb are
\* what the builder computes.
LeftParts(b, k, t)  == /\ t[4] = (b * 2 ^ k) % Base
                       /\ t[5] = b \div 2 ^ (LimbBits - k)
RightParts(b, k, t) == /\ t[4] = b \div 2 ^ k
                       /\ t[5] = (b * 2 ^ (LimbBits - k)) % Base

LEMMA ShiftTuple ==
  ASSUME NEW bus \in {"byte_sll", "byte_srl"}, NEW b, NEW k, NEW f, NEW c,
         InTable(<<bus, b, k, f, c>>)
  PROVE  /\ k \in 0 .. LimbBits - 1
         /\ bus = "byte_sll" => LeftParts(b, k, <<bus, b, k, f, c>>)
         /\ bus = "byte_srl" => RightParts(b, k, <<bus, b, k, f, c>>)
<1>1. PICK t : t = <<bus, b, k, f, c>>
  OBVIOUS
<1>2. t[1] = bus /\ t[2] = b /\ t[3] = k /\ t[4] = f /\ t[5] = c
  BY <1>1
<1>3. b \in 0 .. Base - 1 /\ k \in 0 .. LimbBits - 1
  BY <1>1, <1>2 DEF InTable, IsLimb
<1>4. PICK n \in Nat \ {0} : n = Base
  BY Weights
<1>5. PICK v \in 0 .. n - 1 : v = b
  BY <1>3, <1>4
<1>6. v \div n = 0 /\ (v * n) % n = 0
  <2>1. PICK o \in Int : o = 0
    OBVIOUS
  <2>2. v = n * o + v
    BY <2>1
  <2>3. v \div n = o
    BY <2>1, <2>2, DivisionUnique
  <2>4. PICK x \in Int : x = v
    OBVIOUS
  <2>5. PICK w \in Int : w = v * n /\ w = n * x + o
    <3>1. v * n \in Int /\ v * n = n * x + o
      BY <2>1, <2>4
    <3> QED
      BY <3>1
  <2>6. w % n = o
    <3>1. o \in 0 .. n - 1
      BY <2>1
    <3> QED
      BY <2>5, <3>1, DivisionUnique
  <2> QED
    BY <2>1, <2>3, <2>5, <2>6
<1>7. k = 0 => 2 ^ (LimbBits - k) = n
  <2>1. LimbBits - 0 = LimbBits
    BY Geometry
  <2> QED
    BY <1>4, <2>1 DEF Base
<1>8. ASSUME bus = "byte_sll"
      PROVE  LeftParts(b, k, t)
  <2>1. t = SllTableRow(b, k)
    BY <1>1, <1>2, <1>8 DEF InTable
  <2>2. /\ t[4] = (b * 2 ^ k) % Base
        /\ t[5] = IF k = 0 THEN 0 ELSE b \div 2 ^ (LimbBits - k)
    BY <2>1 DEF SllTableRow
  <2>3. k = 0 => b \div 2 ^ (LimbBits - k) = 0
    BY <1>5, <1>6, <1>7
  <2> QED
    BY <2>2, <2>3 DEF LeftParts
<1>9. ASSUME bus = "byte_srl"
      PROVE  RightParts(b, k, t)
  <2>1. t = SrlTableRow(b, k)
    BY <1>1, <1>2, <1>9 DEF InTable
  <2>2. /\ t[4] = b \div 2 ^ k
        /\ t[5] = IF k = 0 THEN 0 ELSE (b * 2 ^ (LimbBits - k)) % Base
    BY <2>1 DEF SrlTableRow
  <2>3. k = 0 => (b * 2 ^ (LimbBits - k)) % Base = 0
    BY <1>4, <1>5, <1>6, <1>7
  <2> QED
    BY <2>2, <2>3 DEF RightParts
<1> QED
  BY <1>1, <1>3, <1>8, <1>9

\* The limbs of a shift are looked up, and the mask of an arithmetic one.
ShiftBus(op) == IF op \in LeftShift THEN "byte_sll" ELSE "byte_srl"

LEMMA ShiftListed ==
  ASSUME NEW r, NEW bus
  PROVE  /\ Listed(BytesShift(bus, r)) /\ Listed(OnesShift(r))
         /\ AllIn(BytesShift(bus, r)) =>
              \A i \in Limb : InTable(<<bus, r.rs1_value[i], r.bit_shamt,
                                        r.shifted_bytes[i], r.carry_bytes[i]>>)
         /\ AllIn(OnesShift(r)) =>
              InTable(<<"byte_srl", Base - 1, r.bit_shamt, r.srl_ff_shifted, r.srl_ff_carry>>)
<1>1. PICK n \in Nat : n = NumLimbs /\ n >= 1 /\ Limb = 0 .. n - 1
  BY Geometry
<1>2. PICK q : q = BytesShift(bus, r) /\
        q = [k \in 1 .. n |-> <<bus, r.rs1_value[k - 1], r.bit_shamt,
                                r.shifted_bytes[k - 1], r.carry_bytes[k - 1]>>]
  BY <1>1 DEF BytesShift, LimbwiseSeq
<1>3. Listed(q)
  BY <1>2 DEF Listed
<1>4. ASSUME AllIn(q), NEW i \in Limb
      PROVE  InTable(<<bus, r.rs1_value[i], r.bit_shamt, r.shifted_bytes[i], r.carry_bytes[i]>>)
  <2>1. PICK k \in 1 .. n : k = i + 1 /\ k - 1 = i
    BY <1>1
  <2>2. /\ q[k] = <<bus, r.rs1_value[i], r.bit_shamt, r.shifted_bytes[i], r.carry_bytes[i]>>
        /\ k \in DOMAIN q
    BY <1>2, <2>1
  <2>3. InTable(q[k])
    BY <1>4, <2>2 DEF AllIn
  <2> QED
    BY <2>2, <2>3
<1>5. PICK t : t = <<"byte_srl", Base - 1, r.bit_shamt, r.srl_ff_shifted, r.srl_ff_carry>>
  OBVIOUS
<1>6. PICK u : u = <<t>>
  OBVIOUS
<1>7. PICK m \in Nat : m = 1
  OBVIOUS
<1>8. DOMAIN u = 1 .. m /\ u = [k \in 1 .. m |-> u[k]]
  BY <1>6, <1>7
<1>9. Listed(u)
  BY <1>8 DEF Listed
<1>10. AllIn(u) => InTable(t)
  <2>1. m \in DOMAIN u /\ u[m] = t
    BY <1>6, <1>7
  <2> QED
    BY <2>1 DEF AllIn
<1>11. u = OnesShift(r)
  BY <1>5, <1>6 DEF OnesShift
<1> QED
  BY <1>2, <1>3, <1>4, <1>5, <1>9, <1>10, <1>11

LEMMA ShiftLookups ==
  ASSUME NEW s, NEW r, Rivals(s, r), s.op \in Shifts
  PROVE  /\ AllIn(BytesShift(ShiftBus(s.op), r))
         /\ s.op \in {"Sra", "SraiI"} => AllIn(OnesShift(r))
         /\ s.op \in RegisterOps => r.rs2_shamt_high \in 0 .. Base - 1
<1>1. AllIn(Lookups(s.op, r))
  BY DEF Rivals
<1>2. PICK a : a = BytesShift(ShiftBus(s.op), r) /\ Listed(a)
  BY ShiftListed
<1>3. PICK o : o = OnesShift(r) /\ Listed(o)
  BY ShiftListed
<1>4. PICK b : b = Bytes(r.rs2_value) /\ Listed(b)
  BY BytesListed
<1>5. PICK h : h = Byte(r.rs2_shamt_high) /\ Listed(h)
  BY ByteListed
<1>6. PICK d : d = Bytes(r.rd_new_value) /\ Listed(d)
  BY BytesListed
<1>7. PICK l : l = Byte(r.rs1_byte3_low7) /\ Listed(l)
  BY ByteListed
<1>8. CASE s.op \in {"Sll", "Srl"}
  <2>1. AllIn(((a \o b) \o h) \o d)
    BY <1>1, <1>2, <1>4, <1>5, <1>6, <1>8 DEF Lookups, SllLookups, SrlLookups, ShiftBus, LeftShift
  <2>2. Listed(a \o b)
    BY <1>2, <1>4, ListsJoin
  <2>3. Listed((a \o b) \o h)
    BY <1>5, <2>2, ListsJoin
  <2>4. AllIn((a \o b) \o h)
    BY <1>6, <2>1, <2>3, ListsJoin
  <2>5. AllIn(a \o b) /\ AllIn(h)
    BY <1>5, <2>2, <2>4, ListsJoin
  <2>6. AllIn(a)
    BY <1>2, <1>4, <2>5, ListsJoin
  <2> QED
    BY <1>2, <1>5, <1>8, <2>5, <2>6, ByteListed
<1>9. CASE s.op \in {"SlliI", "SrliI"}
  <2>1. AllIn(a \o d)
    BY <1>1, <1>2, <1>6, <1>9 DEF Lookups, SlliILookups, SrliILookups, ShiftBus, LeftShift
  <2>2. AllIn(a)
    BY <1>2, <1>6, <2>1, ListsJoin
  <2> QED
    BY <1>2, <1>9, <2>2 DEF RegisterOps
<1>10. Listed(a \o o)
  BY <1>2, <1>3, ListsJoin
<1>11. CASE s.op = "Sra"
  <2>1. AllIn(((((a \o o) \o b) \o h) \o d) \o l)
    BY <1>1, <1>2, <1>3, <1>4, <1>5, <1>6, <1>7, <1>11 DEF Lookups, SraLookups, ShiftBus, LeftShift
  <2>2. Listed((a \o o) \o b)
    BY <1>4, <1>10, ListsJoin
  <2>3. Listed(((a \o o) \o b) \o h)
    BY <1>5, <2>2, ListsJoin
  <2>4. Listed((((a \o o) \o b) \o h) \o d)
    BY <1>6, <2>3, ListsJoin
  <2>5. AllIn((((a \o o) \o b) \o h) \o d)
    BY <1>7, <2>1, <2>4, ListsJoin
  <2>6. AllIn(((a \o o) \o b) \o h)
    BY <1>6, <2>3, <2>5, ListsJoin
  <2>7. AllIn((a \o o) \o b) /\ AllIn(h)
    BY <1>5, <2>2, <2>6, ListsJoin
  <2>8. AllIn(a \o o)
    BY <1>4, <1>10, <2>7, ListsJoin
  <2>9. AllIn(a) /\ AllIn(o)
    BY <1>2, <1>3, <2>8, ListsJoin
  <2> QED
    BY <1>2, <1>3, <1>5, <2>7, <2>9, ByteListed
<1>12. CASE s.op = "SraiI"
  <2>1. AllIn(((a \o o) \o d) \o l)
    BY <1>1, <1>2, <1>3, <1>6, <1>7, <1>12 DEF Lookups, SraiILookups, ShiftBus, LeftShift
  <2>2. Listed((a \o o) \o d)
    BY <1>6, <1>10, ListsJoin
  <2>3. AllIn((a \o o) \o d)
    BY <1>7, <2>1, <2>2, ListsJoin
  <2>4. AllIn(a \o o)
    BY <1>6, <1>10, <2>3, ListsJoin
  <2>5. AllIn(a) /\ AllIn(o)
    BY <1>2, <1>3, <2>4, ListsJoin
  <2> QED
    BY <1>2, <1>3, <1>12, <2>5 DEF RegisterOps
<1> QED
  BY <1>8, <1>9, <1>11, <1>12 DEF Shifts

\* Bits that add up to 1 are one 1.
LEMMA OneBit ==
  ASSUME NEW f, DOMAIN f = Limb, AllBits(f), Total(f, NumLimbs) = 1
  PROVE  \E m \in Limb : OneHot(f, m)
<1>1. PICK n \in Nat : n = NumLimbs /\ n >= 1 /\ Limb = 0 .. n - 1
  BY Geometry
<1>2. PICK o \in Int : o = 1
  OBVIOUS
<1>3. \A i \in 0 .. n - 1 : f[i] \in {0, 1}
  BY <1>1 DEF AllBits, Boolean
<1>4. PICK D : D = Digits(f, o, n)
  OBVIOUS
<1>5. D \in [0 .. n -> Int] /\ D[n] = 0 /\ \A i \in 0 .. n - 1 : D[i] = f[i] + D[i + 1]
  <2>1. \A i \in 0 .. n - 1 : f[i] \in Int
    BY <1>3
  <2>2. D \in [0 .. n -> Int] /\ D[n] = 0 /\ \A i \in 0 .. n - 1 : D[i] = f[i] + o * D[i + 1]
    BY <1>4, <2>1, DigitsStep
  <2>3. ASSUME NEW i \in 0 .. n - 1
        PROVE  D[i] = f[i] + D[i + 1]
    <3>1. D[i + 1] \in Int
      BY <2>2
    <3>2. D[i] = f[i] + o * D[i + 1]
      BY <2>2
    <3> QED
      BY <1>2, <3>1, <3>2
  <2> QED
    BY <2>2, <2>3
<1> DEFINE None(i)    == \A j \in i .. n - 1 : f[j] = 0
           One(i, m)  == \A j \in i .. n - 1 : f[j] = IF j = m THEN 1 ELSE 0
           S == {i \in 0 .. n : /\ D[i] >= 0
                                /\ D[i] = 0 => None(i)
                                /\ D[i] = 1 => \E m \in i .. n - 1 : One(i, m)}
<1>6. n \in S
  BY <1>5
<1>7. ASSUME NEW i \in 0 .. n - 1, i + 1 \in S
      PROVE  i \in S
  <2>1. PICK e \in {0, 1} : e = f[i]
    BY <1>3
  <2>2. PICK d \in Int : d = D[i + 1] /\ d >= 0 /\ D[i] = e + d
    BY <1>5, <1>7, <2>1
  <2>3. \A j \in i .. n - 1 : j = i \/ j \in i + 1 .. n - 1
    OBVIOUS
  <2>4. D[i] = 0 => None(i)
    <3>1. ASSUME D[i] = 0
          PROVE  None(i)
      <4>1. e = 0 /\ d = 0
        BY <2>2, <3>1
      <4>2. None(i + 1)
        BY <1>7, <2>2, <4>1
      <4> QED
        BY <2>1, <2>3, <4>1, <4>2
    <3> QED
      BY <3>1
  <2>5. ASSUME D[i] = 1
        PROVE  \E m \in i .. n - 1 : One(i, m)
    <3>1. CASE e = 1
      <4>1. d = 0
        BY <2>2, <2>5, <3>1
      <4>2. None(i + 1)
        BY <1>7, <2>2, <4>1
      <4>3. One(i, i)
        <5>1. ASSUME NEW j \in i .. n - 1
              PROVE  f[j] = IF j = i THEN 1 ELSE 0
          BY <2>1, <2>3, <3>1, <4>2, <5>1
        <5> QED
          BY <5>1
      <4>4. i \in i .. n - 1
        OBVIOUS
      <4> HIDE DEF One
      <4> QED
        BY <4>3, <4>4
    <3>2. CASE e = 0
      <4>1. d = 1
        BY <2>2, <2>5, <3>2
      <4>2. PICK m \in i + 1 .. n - 1 : One(i + 1, m)
        BY <1>7, <2>2, <4>1
      <4>3. One(i, m)
        <5>1. ASSUME NEW j \in i .. n - 1
              PROVE  f[j] = IF j = m THEN 1 ELSE 0
          BY <2>1, <2>3, <3>2, <4>2, <5>1
        <5> QED
          BY <5>1
      <4>4. m \in i .. n - 1
        OBVIOUS
      <4> HIDE DEF One
      <4> QED
        BY <4>3, <4>4
    <3> QED
      BY <3>1, <3>2
  <2>6. D[i] >= 0
    BY <2>2
  <2> HIDE DEF None, One
  <2> QED
    BY <2>4, <2>5, <2>6
<1>8. 0 \in S
  <2> HIDE DEF S
  <2>1. \A i \in 0 .. n : i \in S
    BY <1>6, <1>7, InductionDown
  <2> QED
    BY <2>1
<1>9. D[0] = 1
  BY <1>1, <1>2, <1>4 DEF Total
<1>10. PICK m \in 0 .. n - 1 : One(0, m)
  BY <1>8, <1>9
<1> QED
  BY <1>1, <1>10 DEF OneHot

\* A limb is an amount and the bits above it in one way.
AmountIs(v, k, m, h) ==
  k \in 0 .. LimbBits - 1 /\ m \in Limb /\ h \in Int /\ v = k + LimbBits * m + XLEN * h

LEMMA AmountParts ==
  ASSUME NEW v, NEW k, NEW m, NEW h, AmountIs(v, k, m, h)
  PROVE  v \in Int /\ k = (v % XLEN) % LimbBits /\ m = (v % XLEN) \div LimbBits
<1>1. PICK l \in Nat \ {0} : l = LimbBits
  BY Geometry
<1>2. PICK n \in Nat \ {0} : n = NumLimbs /\ Limb = 0 .. n - 1
  BY Geometry
<1>3. PICK x \in Nat \ {0} : x = XLEN /\ x = l * n
  BY <1>1, <1>2, Geometry
<1>4. k \in 0 .. l - 1 /\ m \in 0 .. n - 1 /\ h \in Int /\ v = k + l * m + x * h
  BY <1>1, <1>2, <1>3 DEF AmountIs
<1>5. PICK p \in Nat : p = l * m /\ p <= x - l
  <2>1. PICK d \in Nat : d = (n - 1) - m /\ m + d + 1 = n
    BY <1>4
  <2>2. l * n = l * m + l * d + l /\ l * m \in Nat /\ l * d >= 0
    <3>1. l * (m + d + 1) = l * m + l * d + l
      BY <1>4
    <3>2. l * m \in Nat /\ l * d >= 0
      BY <1>4
    <3> QED
      BY <2>1, <3>1, <3>2
  <2>3. PICK a \in Nat : a = l * m
    BY <2>2
  <2>4. PICK b \in Nat : b = l * d
    <3>1. l * d \in Nat
      OBVIOUS
    <3> QED
      BY <3>1
  <2>5. x = a + b + l
    BY <1>3, <2>2, <2>3, <2>4
  <2>6. a <= x - l
    BY <2>5
  <2> QED
    BY <2>3, <2>6
<1>6. PICK j \in 0 .. x - 1 : j = l * m + k
  <2>1. p + k \in 0 .. x - 1
    BY <1>4, <1>5
  <2> QED
    BY <1>5, <2>1
<1>7. PICK w \in Int : w = v /\ w = x * h + j
  <2>1. PICK q \in Int : q = x * h
    BY <1>4
  <2>2. v = q + j /\ q + j \in Int
    BY <1>4, <1>5, <1>6, <2>1
  <2> QED
    BY <2>1, <2>2
<1>8. w % x = j
  BY <1>4, <1>7, DivisionUnique
<1>9. j \div l = m /\ j % l = k
  <2>1. j \in Int /\ m \in Int
    BY <1>4
  <2> QED
    BY <1>4, <1>6, <2>1, DivisionUnique
<1> QED
  BY <1>1, <1>3, <1>7, <1>8, <1>9

\* The limb or immediate that the amount of a shift is taken from.
AmountOf(op, r) == IF op \in RegisterOps THEN r.rs2_value[0] ELSE r.imm

\* The selectors of a row that has bits in them are its amount.
LEMMA AmountForced ==
  ASSUME NEW op \in Shifts, NEW r, Accepts(op, r), DOMAIN r.is_bs = Limb,
         r.bit_shamt \in 0 .. LimbBits - 1, op \in RegisterOps => r.rs2_shamt_high \in Int
  PROVE  /\ r.bit_shamt = (AmountOf(op, r) % XLEN) % LimbBits
         /\ OneHot(r.is_bs, (AmountOf(op, r) % XLEN) \div LimbBits)
<1>1. SelectsByteShift(r)
  BY DEF Accepts, Shifts, SllAir, SrlAir, SraAir, SlliIAir, SrliIAir, SraiIAir,
         FillsWithSign, ShiftsLeft, ShiftsRight
<1>2. PICK m \in Limb : OneHot(r.is_bs, m)
  BY <1>1, OneBit DEF SelectsByteShift
<1>3. r.byte_shamt = m
  BY <1>1, <1>2, PositionOf DEF SelectsByteShift
<1>4. CASE op \in RegisterOps
  <2>1. ShamtFromRs2(r)
    BY <1>4 DEF Accepts, Shifts, RegisterOps, SllAir, SrlAir, SraAir
  <2>2. AmountIs(AmountOf(op, r), r.bit_shamt, m, r.rs2_shamt_high)
    BY <1>3, <1>4, <2>1 DEF ShamtFromRs2, AmountIs, AmountOf
  <2> QED
    BY <1>2, <2>2, AmountParts
<1>5. CASE op \notin RegisterOps
  <2>1. ShamtFromImm(r)
    BY <1>5 DEF Accepts, Shifts, RegisterOps, SlliIAir, SrliIAir, SraiIAir
  <2>2. PICK h \in Int : h = 0
    OBVIOUS
  <2>3. XLEN * h = 0
    BY <2>2, Geometry
  <2>4. PICK a \in Int : a = r.bit_shamt
    BY Geometry
  <2>5. PICK b \in Int : b = LimbBits * m
    BY Geometry
  <2>6. r.imm = a + b + XLEN * h
    BY <1>3, <2>1, <2>3, <2>4, <2>5 DEF ShamtFromImm
  <2>7. AmountIs(AmountOf(op, r), r.bit_shamt, m, h)
    BY <1>5, <2>4, <2>5, <2>6 DEF AmountIs, AmountOf
  <2> QED
    BY <1>2, <2>7, AmountParts
<1> QED
  BY <1>4, <1>5

\* Rows with the same parts of a shift write the same.
SameParts(r, R) ==
  /\ SameLimbs(r.is_bs, R.is_bs) /\ SameLimbs(r.shifted_bytes, R.shifted_bytes)
  /\ SameLimbs(r.carry_bytes, R.carry_bytes)

LEMMA LeftForced ==
  ASSUME NEW r, NEW R, SameParts(r, R), ShiftsLeft(r), ShiftsLeft(R)
  PROVE  SameLimbs(r.rd_new_value, R.rd_new_value)
<1>1. PICK n \in Nat : n = NumLimbs /\ n >= 1 /\ Limb = 0 .. n - 1
  BY Geometry
<1>2. PICK p : p = [i \in Limb |-> r.shifted_bytes[i] + CarryIn(r.carry_bytes, i, 0)]
  OBVIOUS
<1>3. PICK q : q = [i \in Limb |-> R.shifted_bytes[i] + CarryIn(R.carry_bytes, i, 0)]
  OBVIOUS
<1>4. p = q
  <2>1. ASSUME NEW i \in Limb
        PROVE  /\ r.shifted_bytes[i] = R.shifted_bytes[i]
               /\ CarryIn(r.carry_bytes, i, 0) = CarryIn(R.carry_bytes, i, 0)
    <3>1. i # 0 => i - 1 \in Limb
      BY <1>1
    <3> QED
      BY <3>1 DEF SameParts, SameLimbs, CarryIn
  <2> QED
    BY <1>2, <1>3, <2>1
<1>5. ASSUME NEW i \in Limb
      PROVE  r.rd_new_value[i] = R.rd_new_value[i]
  <2>1. PICK f : f = [k \in 0 .. i |-> r.is_bs[k] * p[i - k]]
    OBVIOUS
  <2>2. PICK g : g = [k \in 0 .. i |-> R.is_bs[k] * p[i - k]]
    OBVIOUS
  <2>3. f = g
    <3>1. \A k \in 0 .. i : r.is_bs[k] = R.is_bs[k]
      BY <1>1 DEF SameParts, SameLimbs
    <3> QED
      BY <2>1, <2>2, <3>1
  <2>4. r.rd_new_value[i] = Total(f, i + 1)
    BY <1>2, <2>1 DEF ShiftsLeft
  <2>5. R.rd_new_value[i] = Total(g, i + 1)
    BY <1>3, <1>4, <2>2 DEF ShiftsLeft
  <2> QED
    BY <2>3, <2>4, <2>5
<1> QED
  BY <1>5 DEF SameLimbs

LEMMA RightForced ==
  ASSUME NEW r, NEW R, SameParts(r, R), NEW t, NEW e, ShiftsRight(r, t, e), ShiftsRight(R, t, e)
  PROVE  SameLimbs(r.rd_new_value, R.rd_new_value)
<1>1. PICK n \in Nat : n = NumLimbs /\ n >= 1 /\ Limb = 0 .. n - 1 /\ Top = n - 1
  BY Geometry
<1>2. PICK p : p = [i \in Limb |-> r.shifted_bytes[i] +
                                     (IF i = Top THEN t ELSE r.carry_bytes[i + 1])]
  OBVIOUS
<1>3. p = [i \in Limb |-> R.shifted_bytes[i] + (IF i = Top THEN t ELSE R.carry_bytes[i + 1])]
  <2>1. ASSUME NEW i \in Limb
        PROVE  /\ r.shifted_bytes[i] = R.shifted_bytes[i]
               /\ i # Top => r.carry_bytes[i + 1] = R.carry_bytes[i + 1]
    <3>1. i # Top => i + 1 \in Limb
      BY <1>1
    <3> QED
      BY <3>1 DEF SameParts, SameLimbs
  <2> QED
    BY <1>2, <2>1
<1> DEFINE inter(a) == [i \in Limb |-> a.shifted_bytes[i] +
                                         (IF i = Top THEN t ELSE a.carry_bytes[i + 1])]
           part(a, i, k) == a.is_bs[k] * (IF i + k > Top THEN e ELSE inter(a)[i + k])
<1>4. ASSUME NEW i \in Limb
      PROVE  r.rd_new_value[i] = R.rd_new_value[i]
  <2>1. /\ r.rd_new_value[i] = Total([k \in Limb |-> part(r, i, k)], NumLimbs)
        /\ R.rd_new_value[i] = Total([k \in Limb |-> part(R, i, k)], NumLimbs)
    BY DEF ShiftsRight
  <2>2. \A k \in Limb : part(r, i, k) = part(R, i, k)
    <3>1. inter(r) = p /\ inter(R) = p
      BY <1>2, <1>3
    <3>2. \A k \in Limb : r.is_bs[k] = R.is_bs[k]
      BY DEF SameParts, SameLimbs
    <3> HIDE DEF inter
    <3> QED
      BY <3>1, <3>2
  <2> HIDE DEF part
  <2>3. [k \in Limb |-> part(r, i, k)] = [k \in Limb |-> part(R, i, k)]
    BY <2>2
  <2> QED
    BY <2>1, <2>3
<1> QED
  BY <1>4 DEF SameLimbs

\* Whatever amount and sign it claims, a rival shifts by the step's amount.
LEMMA PartsForced ==
  ASSUME NEW s, NEW r, Rivals(s, r), s.op \in Shifts
  PROVE  /\ SameParts(r, Row(s))
         /\ s.op \in {"Sra", "SraiI"} => r.srl_ff_carry = Row(s).srl_ff_carry
<1>1. /\ HonestStep(s) /\ Accepts(s.op, r) /\ Shaped(s.op, r) /\ s.is_dummy = 1
      /\ s.op \in Shifts
  BY DEF Rivals, ForOperands
<1>2. PICK R : R = Row(s) /\ Accepts(s.op, R)
  BY <1>1, RowAccepted
<1>3. PICK k \in 0 .. XLEN - 1 : k = Shamt(SecondWord(s))
  BY <1>1, Amounts DEF SecondWord
<1>4. PICK x \in Int : x = s.rs1_value
  BY <1>1, HonestOperands
<1>5. /\ HasShift(R, k)
      /\ s.op \in LeftShift => HasLeftParts(R, x, k)
      /\ s.op \notin LeftShift => HasRightParts(R, x, k)
      /\ s.op \in RegisterOps => HasHigh(R, s)
      /\ s.op \in {"Sra", "SraiI"} => HasOnes(R, s, k)
  BY <1>1, <1>2, <1>3, <1>4, ShiftColumnsOf DEF LeftShift, RegisterOps, Shifts
<1>6. r.rs1_value = LimbsOf(x) /\ r.rs2_value = R.rs2_value
  BY <1>1, <1>2, <1>4, RivalColumns, RowColumns DEF HasValues, HonestStep
<1>7. AmountOf(s.op, r) = AmountOf(s.op, R)
  <2>1. ASSUME s.op \notin RegisterOps
        PROVE  r.imm = R.imm
    <3>1. "imm" \in DOMAIN R
      <4>1. PICK a : a = ShiftColumns(s, Shamt(s.imm), ShiftLeft)
        OBVIOUS
      <4>2. PICK b : b = ShiftColumns(s, Shamt(s.imm), ShiftRight)
        OBVIOUS
      <4>3. PICK c : c = [imm |-> Shamt(s.imm)]
        OBVIOUS
      <4>4. \/ R = a ++ c \/ R = b ++ c
            \/ R = (b ++ c) ++ SignFillColumns(s, Shamt(s.imm))
        BY <1>1, <1>2, <2>1, <4>1, <4>2, <4>3
           DEF Row, SlliIRow, SrliIRow, SraiIRow, Shifts, RegisterOps
      <4>5. "imm" \in DOMAIN c
        BY <4>3
      <4> QED
        BY <4>4, <4>5 DEF ++
    <3>2. "imm" \in OperandColumns
      BY DEF OperandColumns
    <3>3. r["imm"] = R["imm"]
      BY <1>2, <3>1, <3>2, RivalKeeps
    <3> QED
      BY <3>3
  <2> QED
    BY <1>6, <2>1 DEF AmountOf
<1>8. PICK bus \in {"byte_sll", "byte_srl"} :
        bus = ShiftBus(s.op) /\ (bus = "byte_sll" <=> s.op \in LeftShift)
  BY DEF ShiftBus
<1>9. ASSUME NEW i \in Limb
      PROVE  InTable(<<bus, LimbsOf(x)[i], r.bit_shamt, r.shifted_bytes[i], r.carry_bytes[i]>>)
  <2>1. AllIn(BytesShift(bus, r))
    BY <1>1, <1>8, ShiftLookups
  <2>2. InTable(<<bus, r.rs1_value[i], r.bit_shamt, r.shifted_bytes[i], r.carry_bytes[i]>>)
    BY <2>1, ShiftListed
  <2> QED
    BY <1>6, <2>2
<1>10. r.bit_shamt \in 0 .. LimbBits - 1
  <2>1. PICK i \in Limb : i = 0
    BY Geometry
  <2> QED
    BY <1>9, <2>1, ShiftTuple
<1>11. PICK m : /\ r.bit_shamt = (AmountOf(s.op, r) % XLEN) % LimbBits
                /\ OneHot(r.is_bs, m) /\ m = (AmountOf(s.op, r) % XLEN) \div LimbBits
  <2>1. DOMAIN r.is_bs = Limb
    BY <1>1 DEF Shaped
  <2>2. s.op \in RegisterOps => r.rs2_shamt_high \in Int
    <3>1. PICK b \in Nat : b = Base
      BY Weights
    <3> QED
      BY <1>1, <3>1, ShiftLookups
  <2> QED
    BY <1>1, <1>10, <2>1, <2>2, AmountForced
<1>12. /\ R.bit_shamt = (AmountOf(s.op, r) % XLEN) % LimbBits
       /\ OneHot(R.is_bs, (AmountOf(s.op, r) % XLEN) \div LimbBits)
  <2>1. DOMAIN R.is_bs = Limb /\ R.bit_shamt \in 0 .. LimbBits - 1
    BY <1>5, ShiftAmount DEF HasShift
  <2>2. s.op \in RegisterOps => R.rs2_shamt_high \in Int
    <3>1. PICK y \in Int : y = s.rs2_value
      BY <1>1, HonestOperands
    <3>2. PICK i \in Limb : i = 0
      BY Geometry
    <3>3. PICK z \in Int : z = LimbsOf(y)[i]
      BY LimbInt
    <3>4. PICK l \in Nat \ {0} : l = XLEN
      BY Geometry
    <3>5. z \div l \in Int
      BY Division
    <3> QED
      BY <1>5, <3>1, <3>2, <3>3, <3>4, <3>5 DEF HasHigh
  <2> QED
    BY <1>1, <1>2, <1>7, <2>1, <2>2, AmountForced
<1>13. r.bit_shamt = k % LimbBits /\ SameLimbs(r.is_bs, R.is_bs)
  <2>1. R.bit_shamt = k % LimbBits
    BY <1>5 DEF HasShift
  <2> QED
    BY <1>11, <1>12, <2>1 DEF OneHot, SameLimbs
<1>14. ASSUME NEW i \in Limb
       PROVE  /\ r.shifted_bytes[i] = R.shifted_bytes[i]
              /\ r.carry_bytes[i] = R.carry_bytes[i]
  <2>1. PICK b : b = LimbsOf(x)[i]
    OBVIOUS
  <2>2. PICK t : t = <<bus, b, r.bit_shamt, r.shifted_bytes[i], r.carry_bytes[i]>>
    OBVIOUS
  <2>3. t[4] = r.shifted_bytes[i] /\ t[5] = r.carry_bytes[i]
    BY <2>2
  <2>4. /\ bus = "byte_sll" => LeftParts(b, r.bit_shamt, t)
        /\ bus = "byte_srl" => RightParts(b, r.bit_shamt, t)
    BY <1>9, <2>1, <2>2, ShiftTuple
  <2>5. CASE bus = "byte_sll"
    <3>1. HasLeftParts(R, x, k)
      BY <1>5, <1>8, <2>5
    <3>2. /\ R.shifted_bytes[i] = (b * 2 ^ (k % LimbBits)) % Base
          /\ R.carry_bytes[i] = b \div 2 ^ (LimbBits - (k % LimbBits))
      BY <2>1, <3>1 DEF HasLeftParts
    <3> QED
      BY <1>13, <2>3, <2>4, <2>5, <3>2 DEF LeftParts
  <2>6. CASE bus = "byte_srl"
    <3>1. HasRightParts(R, x, k)
      BY <1>5, <1>8, <2>6
    <3>2. /\ R.shifted_bytes[i] = b \div 2 ^ (k % LimbBits)
          /\ R.carry_bytes[i] = (b * 2 ^ (LimbBits - (k % LimbBits))) % Base
      BY <2>1, <3>1 DEF HasRightParts
    <3> QED
      BY <1>13, <2>3, <2>4, <2>6, <3>2 DEF RightParts
  <2> QED
    BY <2>5, <2>6
<1>15. ASSUME s.op \in {"Sra", "SraiI"}
       PROVE  r.srl_ff_carry = R.srl_ff_carry
  <2>1. PICK b : b = Base - 1
    OBVIOUS
  <2>2. PICK t : t = <<"byte_srl", b, r.bit_shamt, r.srl_ff_shifted, r.srl_ff_carry>>
    OBVIOUS
  <2>3. InTable(t)
    <3>1. AllIn(OnesShift(r))
      BY <1>1, <1>15, ShiftLookups
    <3> QED
      BY <2>1, <2>2, <3>1, ShiftListed
  <2>4. t[5] = (b * 2 ^ (LimbBits - r.bit_shamt)) % Base
    BY <2>2, <2>3, ShiftTuple DEF RightParts
  <2>5. r.srl_ff_carry = (b * 2 ^ (LimbBits - (k % LimbBits))) % Base
    BY <1>13, <2>2, <2>4
  <2>6. PICK c \in Nat \ {0} : c = 2 ^ (LimbBits - (k % LimbBits))
    BY ShiftAmount
  <2>7. PICK v \in Int : v = ((Base - 1) * c) % Base
    BY SignFills
  <2>8. R.srl_ff_carry = s.is_dummy * v
    BY <1>5, <1>15, <2>6, <2>7 DEF HasOnes
  <2> QED
    BY <1>1, <2>1, <2>5, <2>6, <2>7, <2>8
<1> QED
  BY <1>2, <1>13, <1>14, <1>15 DEF SameParts, SameLimbs

LEMMA ShiftForced ==
  ASSUME NEW s, NEW r, Rivals(s, r), s.op \in Shifts
  PROVE  FALSE
<1>1. HonestStep(s) /\ Accepts(s.op, r) /\ InRange(s.op, r) /\ s.op \in Shifts
  BY DEF Rivals
<1>2. PICK R : R = Row(s) /\ Accepts(s.op, R)
  BY <1>1, RowAccepted
<1>3. SameParts(r, R) /\ (s.op \in {"Sra", "SraiI"} => r.srl_ff_carry = R.srl_ff_carry)
  BY <1>2, PartsForced
<1>4. SameLimbs(r.rd_new_value, R.rd_new_value)
  <2>1. CASE s.op \in {"Sll", "SlliI"}
    <3>1. ShiftsLeft(r) /\ ShiftsLeft(R)
      BY <1>1, <1>2, <2>1 DEF Accepts, SllAir, SlliIAir
    <3> QED
      BY <1>3, <3>1, LeftForced
  <2>2. CASE s.op \in {"Srl", "SrliI"}
    <3>1. ShiftsRight(r, 0, 0) /\ ShiftsRight(R, 0, 0)
      BY <1>1, <1>2, <2>2 DEF Accepts, SrlAir, SrliIAir
    <3> QED
      BY <1>3, <3>1, RightForced
  <2>3. CASE s.op \in {"Sra", "SraiI"}
    <3>1. FillsWithSign(r) /\ FillsWithSign(R)
      BY <1>1, <1>2, <2>3 DEF Accepts, SraAir, SraiIAir
    <3>2. r.sign_bit = R.sign_bit
      <4>1. r.rs1_value = R.rs1_value
        BY <1>1, <1>2, RivalColumns, RowColumns DEF HasValues, HonestStep
      <4>2. r.rs1_byte3_low7 \in 0 .. LowHalf - 1
        BY <1>1, <2>3 DEF InRange
      <4>3. R.rs1_byte3_low7 \in 0 .. LowHalf - 1
        <5>1. PICK w \in 0 .. Size - 1 : w = s.rs1_value
          BY <1>1, HonestOperands
        <5>2. R.rs1_byte3_low7 = TopLow(w)
          BY <1>1, <1>2, <2>3, <5>1, ShiftColumnsOf DEF HasOnes
        <5> QED
          BY <5>2, SignSplits
      <4> QED
        BY <3>1, <4>1, <4>2, <4>3, SignForced DEF FillsWithSign
    <3>3. PICK e : e = R.fill_byte
      OBVIOUS
    <3>4. PICK t : t = R.sign_bit * R.srl_ff_carry
      OBVIOUS
    <3>5. ShiftsRight(R, t, e)
      BY <3>1, <3>3, <3>4 DEF FillsWithSign
    <3>6. ShiftsRight(r, t, e)
      <4>1. ShiftsRight(r, r.sign_bit * r.srl_ff_carry, r.fill_byte)
        BY <3>1 DEF FillsWithSign
      <4>2. r.fill_byte = e
        BY <3>1, <3>2, <3>3 DEF FillsWithSign
      <4>3. r.sign_bit * r.srl_ff_carry = t
        BY <1>3, <2>3, <3>2, <3>4
      <4> QED
        BY ONLY <4>1, <4>2, <4>3
    <3> QED
      BY <1>3, <3>5, <3>6, RightForced
  <2> QED
    BY <1>1, <2>1, <2>2, <2>3 DEF Shifts
<1>5. s.op \notin Comparisons
  BY <1>1 DEF Comparisons, Shifts
<1> QED
  BY <1>2, <1>4, <1>5, RivalDiffers

LEMMA ShiftDomain ==
  ASSUME NEW s, s.op \in Shifts
  PROVE  "is_bs" \in DOMAIN Row(s)
<1>1. ASSUME NEW k, NEW g
      PROVE  /\ "is_bs" \in DOMAIN (ShiftColumns(s, k, ShiftLeft) ++ g)
             /\ "is_bs" \in DOMAIN (ShiftColumns(s, k, ShiftRight) ++ g)
  BY DEF ShiftColumns, ++
<1>2. CASE s.op = "Sll"
  <2>1. PICK g : Row(s) = ShiftColumns(s, Shamt(s.rs2_value), ShiftLeft) ++ g
    BY <1>2 DEF Row, SllRow
  <2> QED
    BY <1>1, <2>1
<1>3. CASE s.op = "Srl"
  <2>1. PICK g : Row(s) = ShiftColumns(s, Shamt(s.rs2_value), ShiftRight) ++ g
    BY <1>3 DEF Row, SrlRow
  <2> QED
    BY <1>1, <2>1
<1>4. CASE s.op = "SlliI"
  <2>1. PICK g : Row(s) = ShiftColumns(s, Shamt(s.imm), ShiftLeft) ++ g
    BY <1>4 DEF Row, SlliIRow
  <2> QED
    BY <1>1, <2>1
<1>5. CASE s.op = "SrliI"
  <2>1. PICK g : Row(s) = ShiftColumns(s, Shamt(s.imm), ShiftRight) ++ g
    BY <1>5 DEF Row, SrliIRow
  <2> QED
    BY <1>1, <2>1
<1>6. CASE s.op = "Sra"
  <2>1. PICK k : k = Shamt(s.rs2_value)
    OBVIOUS
  <2>2. PICK g : g = ShamtHigh(s)
    OBVIOUS
  <2>3. Row(s) = (ShiftColumns(s, k, ShiftRight) ++ g) ++ SignFillColumns(s, k)
    BY <1>6, <2>1, <2>2 DEF Row, SraRow
  <2> QED
    BY <1>1, <2>3, MergeAssociates
<1>7. CASE s.op = "SraiI"
  <2>1. PICK k : k = Shamt(s.imm)
    OBVIOUS
  <2>2. PICK g : g = [imm |-> Shamt(s.imm)]
    OBVIOUS
  <2>3. Row(s) = (ShiftColumns(s, k, ShiftRight) ++ g) ++ SignFillColumns(s, k)
    BY <1>7, <2>1, <2>2 DEF Row, SraiIRow
  <2> QED
    BY <1>1, <2>3, MergeAssociates
<1> QED
  BY <1>2, <1>3, <1>4, <1>5, <1>6, <1>7 DEF Shifts

LEMMA NoRival ==
  ASSUME NEW s, NEW r, Rivals(s, r)
  PROVE  FALSE
<1>1. s.op \in Ops
  BY DEF Rivals, HonestStep
<1>2. s.op \notin {"Add", "AddI", "Sub"}
  BY SumsForced
<1>3. s.op \notin {"Xor", "Or", "And", "XorI", "OriI", "AndiI"}
  BY LogicForced
<1>4. s.op \notin Comparisons
  BY ComparisonForced
<1>5. s.op \notin Shifts
  BY ShiftForced
<1>6. s.op # "Lui" /\ s.op # "Auipc"
  BY LuiForced, AuipcForced
<1>7. s.op \notin {"Jal", "Jalr"}
  BY JumpForced
<1> QED
  BY <1>1, <1>2, <1>3, <1>4, <1>5, <1>6, <1>7 DEF Ops, Comparisons, Shifts

\* The operands of a row and its shape are its own.
LEMMA RowFits ==
  ASSUME NEW s, HonestStep(s)
  PROVE  ForOperands(s.op, Row(s), Row(s)) /\ IsWord(Row(s)["rd_new_value"])
<1>1. PICK R : R = Row(s)
  OBVIOUS
<1>2. s.op \in Ops
  BY DEF HonestStep
<1>3. "rd_new_value" \in DOMAIN R
  BY <1>1, <1>2, RowDomain
<1>4. IsWord(R["rd_new_value"])
  <2>1. R.rd_new_value = LimbsOf(s.rd_val)
    BY <1>1, <1>2, RowColumns DEF HasValues
  <2>2. IsWord(LimbsOf(s.rd_val))
    BY DEF IsWord, LimbsOf
  <2>3. R["rd_new_value"] = LimbsOf(s.rd_val)
    BY <2>1
  <2> QED
    BY <2>2, <2>3
<1>5. ASSUME s.op \in ShortImmOps
      PROVE  "imm_high_bits" \in DOMAIN R /\ DOMAIN R["imm_high_bits"] = 0 .. HighBits - 1
  <2>1. HasImm(R, s.imm) /\ "imm_high_bits" \in DOMAIN R
    BY <1>1, <1>5, RowImmediate DEF ShortImmOps
  <2>2. DOMAIN R.imm_high_bits = 0 .. HighBits - 1
    BY <2>1 DEF HasImm
  <2> QED
    BY <2>1, <2>2
<1>6. ASSUME s.op \in Shifts
      PROVE  "is_bs" \in DOMAIN R /\ DOMAIN R["is_bs"] = Limb
  <2>1. PICK k : k = Shamt(SecondWord(s))
    OBVIOUS
  <2>2. HasShift(R, k)
    BY <1>1, <1>6, <2>1, ShiftColumnsOf
  <2>3. DOMAIN R.is_bs = Limb
    BY <2>2 DEF HasShift
  <2>4. "is_bs" \in DOMAIN R
    BY <1>1, <1>6, ShiftDomain
  <2> QED
    BY <2>3, <2>4
<1> QED
  BY <1>1, <1>3, <1>4, <1>5, <1>6 DEF ForOperands, Keeps, HasLists, Shaped

\* The AIR of an instruction and the lookup tables leave one result for the
\* operands of a step, whatever is in the columns that are the prover's choice
\* (signs, immediate bits and limbs, shift amounts, carries, borrows, the
\* result itself), as long as the columns of InRange, which nothing checks, are
\* in range.
THEOREM OnlyResult ==
  ASSUME NEW s, HonestStep(s), s.is_dummy = 1, NEW r, ForOperands(s.op, r, Row(s)),
         Accepted(s.op, r), InRange(s.op, r)
  PROVE  WrittenBy(s.op, r) = WrittenBy(s.op, Row(s))
<1>1. PICK R : R = Row(s)
  OBVIOUS
<1>2. s.op \in Ops
  BY DEF HonestStep
<1>3. r["is_dummy"] = R["is_dummy"]
  <2>1. "is_dummy" \in DOMAIN R /\ "is_dummy" \in OperandColumns
    BY <1>1, <1>2, RowDomain DEF OperandColumns
  <2> QED
    BY <1>1, <2>1 DEF ForOperands, Keeps
<1>4. R.is_dummy = 1
  BY <1>1, <1>2, RowColumns DEF HasPc, HasLink
<1>5. r.is_dummy = 1
  BY <1>3, <1>4
<1>6. Accepts(s.op, r) /\ AllIn(Lookups(s.op, r))
  BY <1>5 DEF Accepted, Sends, AllIn
<1>7. WrittenBy(s.op, r) # WrittenBy(s.op, R) => Rivals(s, r)
  BY <1>1, <1>6 DEF Rivals
<1> QED
  BY <1>1, <1>7, NoRival

\* In particular none of the rows that the property varies is accepted with
\* another result.
THEOREM ResultAlwaysForced == ListSpec => []ResultForced
<1>1. TableInv => ResultForced
  <2> SUFFICES ASSUME TableInv, NEW op \in DOMAIN tables, NEW i \in RealRows(op),
                      NEW r \in Altered(op, tables[op][i]), ~LinksNothing(op, i),
                      Accepted(op, r), InRange(op, r)
               PROVE  FALSE
    BY DEF ResultForced
  <2>1. PICK s \in StepsFrom(Inputs) : s = StepAt(op, i) /\ s.op = op /\ tables[op][i] = Row(s)
    BY TableShape
  <2>2. HonestStep(s) /\ s.is_dummy = 1
    BY <2>1, StepFields, StepHonest DEF LinksNothing
  <2>3. PICK R : R = Row(s) /\ r \in Altered(op, R)
    BY <2>1
  <2>4. ForOperands(op, R, R) /\ IsWord(R["rd_new_value"])
    BY <2>1, <2>2, <2>3, RowFits
  <2>5. ForOperands(op, r, R) /\ WrittenBy(op, r) # WrittenBy(op, R)
    BY <2>3, <2>4, AlteredFits
  <2> QED
    BY <2>1, <2>2, <2>3, <2>5, OnlyResult
<1> QED
  BY <1>1, TableInvInductive, PTL

(***************************************************************************)
(* The list of AIRs.                                                       *)
(***************************************************************************)
LEMMA ListNames ==
  /\ DOMAIN OptionalAirs = DOMAIN TableOrder
  /\ Listed(FixedAirs) /\ Listed(TableOrder)
  /\ \A k \in DOMAIN TableOrder : OptionalAirs[k][1] = TableOrder[k]
  /\ \A j, k \in DOMAIN TableOrder : TableOrder[j] = TableOrder[k] => j = k
  /\ \A j, k \in DOMAIN FixedAirs : FixedAirs[j] = FixedAirs[k] => j = k
  /\ \A j \in DOMAIN FixedAirs, k \in DOMAIN TableOrder : FixedAirs[j] # TableOrder[k]
  /\ \A j \in DOMAIN FixedAirs : FixedAirs[j] # "ProgramHash" /\ FixedAirs[j] # "Poseidon2Chip"
  /\ \A k \in DOMAIN TableOrder : TableOrder[k] # "ProgramHash" /\ TableOrder[k] # "Poseidon2Chip"
<1>1. DOMAIN OptionalAirs = 1 .. 26 /\ DOMAIN TableOrder = 1 .. 26
  BY DEF OptionalAirs, TableOrder
<1>2. DOMAIN FixedAirs = 1 .. 12
  BY DEF FixedAirs
<1>3. \A k \in 1 .. 26 : OptionalAirs[k][1] = TableOrder[k]
  BY DEF OptionalAirs, TableOrder
<1>4. \A j, k \in 1 .. 26 : TableOrder[j] = TableOrder[k] => j = k
  BY DEF TableOrder
<1>5. \A j, k \in 1 .. 12 : FixedAirs[j] = FixedAirs[k] => j = k
  BY DEF FixedAirs
<1>6. \A j \in 1 .. 12, k \in 1 .. 26 : FixedAirs[j] # TableOrder[k]
  BY DEF FixedAirs, TableOrder
<1>7. \A j \in 1 .. 12 : FixedAirs[j] # "ProgramHash" /\ FixedAirs[j] # "Poseidon2Chip"
  BY DEF FixedAirs
<1>8. \A k \in 1 .. 26 : TableOrder[k] # "ProgramHash" /\ TableOrder[k] # "Poseidon2Chip"
  BY DEF TableOrder
<1>9. PICK n \in Nat : n = 26
  OBVIOUS
<1>10. PICK m \in Nat : m = 12
  OBVIOUS
<1>11. Listed(TableOrder)
  <2>1. DOMAIN TableOrder = 1 .. n
    BY <1>1, <1>9
  <2>2. TableOrder = [k \in DOMAIN TableOrder |-> TableOrder[k]]
    BY DEF TableOrder
  <2> QED
    BY <2>1, <2>2, Zenon DEF Listed
<1>12. Listed(FixedAirs)
  <2>1. DOMAIN FixedAirs = 1 .. m
    BY <1>2, <1>10
  <2>2. FixedAirs = [k \in DOMAIN FixedAirs |-> FixedAirs[k]]
    BY DEF FixedAirs
  <2> QED
    BY <2>1, <2>2, Zenon DEF Listed
<1> QED
  BY <1>1, <1>2, <1>3, <1>4, <1>5, <1>6, <1>7, <1>8, <1>11, <1>12, Zenon

\* A table is built for the kinds that ask for its AIR.
LEMMA NeedsAgree ==
  ASSUME NEW k \in DOMAIN TableOrder
  PROVE  TableNeeds(TableOrder[k]) = OptionalAirs[k][2]
<1>1. \A j \in DOMAIN OptionalAirs : OptionalAirs[j][1] = TableOrder[k] <=> j = k
  BY ListNames
<1>2. PICK c : c = CHOOSE j \in DOMAIN OptionalAirs : OptionalAirs[j][1] = TableOrder[k]
  OBVIOUS
<1>3. c = k
  BY <1>1, <1>2, ListNames
<1>4. ASSUME TableOrder[k] \notin {"AndPrim", "ByteSll", "ByteSrl"}
      PROVE  TableNeeds(TableOrder[k]) = OptionalAirs[k][2]
  <2>1. TableNeeds(TableOrder[k])
          = LET at == CHOOSE j \in DOMAIN OptionalAirs : OptionalAirs[j][1] = TableOrder[k]
            IN  OptionalAirs[at][2]
    BY <1>4 DEF TableNeeds
  <2> QED
    BY <1>2, <1>3, <2>1
<1>5. ASSUME NEW j \in DOMAIN TableOrder, TableOrder[k] = TableOrder[j]
      PROVE  OptionalAirs[k][2] = OptionalAirs[j][2]
  BY <1>5, ListNames
<1>6. 10 \in DOMAIN TableOrder /\ 12 \in DOMAIN TableOrder /\ 14 \in DOMAIN TableOrder
  BY DEF TableOrder
<1>7. TableOrder[10] = "AndPrim" /\ TableOrder[12] = "ByteSll" /\ TableOrder[14] = "ByteSrl"
  BY DEF TableOrder
<1>8. /\ OptionalAirs[10][2] = {"And"} /\ OptionalAirs[12][2] = {"Sll", "SlliI"}
      /\ OptionalAirs[14][2] = {"Srl", "Sra", "SrliI", "SraiI"}
  BY DEF OptionalAirs
<1>9. TableOrder[k] = "AndPrim" => TableNeeds(TableOrder[k]) = OptionalAirs[k][2]
  BY <1>5, <1>6, <1>7, <1>8 DEF TableNeeds
<1>10. TableOrder[k] = "ByteSll" => TableNeeds(TableOrder[k]) = OptionalAirs[k][2]
  BY <1>5, <1>6, <1>7, <1>8 DEF TableNeeds
<1>11. TableOrder[k] = "ByteSrl" => TableNeeds(TableOrder[k]) = OptionalAirs[k][2]
  BY <1>5, <1>6, <1>7, <1>8 DEF TableNeeds
<1> QED
  BY <1>4, <1>9, <1>10, <1>11

\* What is asked for is built.
LEMMA BuiltAsAsked ==
  ASSUME NEW h
  PROVE  Built(TablesFor(h)) = Asked(h)
<1>1. ASSUME NEW k \in DOMAIN TableOrder
      PROVE  TableOrder[k] \in TablesFor(h) <=> OptionalAirs[k][2] \cap h # {}
  <2>1. TableOrder[k] \in ToSet(TableOrder)
    BY ListNames DEF ToSet
  <2>2. TableOrder[k] \notin ToSet(FixedAirs) \cup {"ProgramHash", "Poseidon2Chip"}
    BY ListNames DEF ToSet
  <2> QED
    BY <2>1, <2>2, NeedsAgree DEF TablesFor
<1> QED
  BY <1>1, ListNames DEF Built, Asked

\* The optional part of the list names the AIRs asked for, each once.
LEMMA OptionalNames ==
  ASSUME NEW h, NEW S, {TableOrder[k] : k \in DOMAIN TableOrder} \subseteq S
  PROVE  /\ FlattenSeq(Asked(h)) \in Seq(S)
         /\ \A j, k \in 1 .. Len(FlattenSeq(Asked(h))) :
              FlattenSeq(Asked(h))[j] = FlattenSeq(Asked(h))[k] => j = k
         /\ \A k \in 1 .. Len(FlattenSeq(Asked(h))) : \E i \in DOMAIN TableOrder :
              OptionalAirs[i][2] \cap h # {} /\ FlattenSeq(Asked(h))[k] = TableOrder[i]
         /\ \A i \in DOMAIN TableOrder : OptionalAirs[i][2] \cap h # {} =>
              \E k \in 1 .. Len(FlattenSeq(Asked(h))) : FlattenSeq(Asked(h))[k] = TableOrder[i]
<1>1. PICK n \in Nat : DOMAIN TableOrder = 1 .. n /\ TableOrder = [k \in 1 .. n |-> TableOrder[k]]
  BY ListNames DEF Listed
<1>2. PICK G \in SUBSET (1 .. n) : G = {k \in 1 .. n : OptionalAirs[k][2] \cap h # {}}
  OBVIOUS
<1>3. PICK u \in [1 .. n -> S] : u = TableOrder
  BY <1>1
<1>4. PICK ss : ss = Asked(h)
  OBVIOUS
<1>5. Selects(ss, n, u, G)
  BY <1>1, <1>2, <1>3, <1>4, ListNames DEF Selects, Asked
<1>7. /\ FlattenSeq(ss) \in Seq(S)
      /\ \E p \in Bijection(G, 1 .. Len(FlattenSeq(ss))) :
           \A i \in G : FlattenSeq(ss)[p[i]] = u[i]
  <2>1. SelectsFrom(ss, n, u, G, S)
    BY <1>5 DEF SelectsFrom
  <2> QED
    BY <2>1, Selected
<1>8. PICK F : F = FlattenSeq(ss)
  OBVIOUS
<1>9. F \in Seq(S) /\ \E p \in Bijection(G, 1 .. Len(F)) : \A i \in G : F[p[i]] = u[i]
  BY <1>7, <1>8
<1>10. PICK p \in Bijection(G, 1 .. Len(F)) : \A i \in G : F[p[i]] = u[i]
  BY <1>9
<1>11. PICK m \in Nat : m = Len(F)
  BY <1>9
<1>12. /\ \A i, j \in G : p[i] = p[j] => i = j
       /\ \A k \in 1 .. m : \E i \in G : p[i] = k
       /\ \A i \in G : p[i] \in 1 .. m
  BY <1>10, <1>11 DEF Bijection, Injection, Surjection, IsInjective
<1>13. ASSUME NEW j \in 1 .. m, NEW k \in 1 .. m, F[j] = F[k]
       PROVE  j = k
  <2>1. PICK x \in G : p[x] = j
    BY <1>12
  <2>2. PICK y \in G : p[y] = k
    BY <1>12
  <2>3. u[x] = u[y]
    BY <1>10, <1>13, <2>1, <2>2
  <2>4. x = y
    BY <1>1, <1>3, <2>3, ListNames
  <2> QED
    BY <2>1, <2>2, <2>4
<1>14. ASSUME NEW k \in 1 .. m
       PROVE  \E i \in G : F[k] = u[i]
  <2>1. PICK i \in G : p[i] = k
    BY <1>12
  <2>2. F[p[i]] = u[i]
    BY <1>10
  <2> QED
    BY <2>1, <2>2
<1>15. ASSUME NEW i \in G
       PROVE  \E k \in 1 .. m : F[k] = u[i]
  <2>1. p[i] \in 1 .. m /\ F[p[i]] = u[i]
    BY <1>10, <1>12
  <2> QED
    BY <2>1
<1>16. F = FlattenSeq(Asked(h)) /\ 1 .. Len(F) = 1 .. m
  BY <1>4, <1>8, <1>11
<1>17. \A i \in DOMAIN TableOrder : i \in G <=> OptionalAirs[i][2] \cap h # {}
  BY <1>1, <1>2
<1>18. G \subseteq DOMAIN TableOrder
  BY <1>1
<1> QED
  BY <1>3, <1>9, <1>13, <1>14, <1>15, <1>16, <1>17, <1>18

\* The list of AIRs names every table that is built, once.
LEMMA Assembly ==
  ASSUME NEW h, NEW airs, airs = AirsFor(h)
  PROVE  /\ Listed(airs) /\ Len(airs) \in Nat /\ DOMAIN airs = 1 .. Len(airs)
         /\ \A j, k \in DOMAIN airs : airs[j] = airs[k] => j = k
         /\ \A k \in DOMAIN airs : airs[k] = "ProgramHash" <=> k = Len(airs) - 1
         /\ {airs[k] : k \in DOMAIN airs} = TablesFor(h)
<1>1. PICK N \in Nat : DOMAIN TableOrder = 1 .. N
  BY ListNames DEF Listed
<1>2. PICK d \in Nat : DOMAIN FixedAirs = 1 .. d /\ FixedAirs = [k \in 1 .. d |-> FixedAirs[k]]
  BY ListNames DEF Listed
<1>3. PICK G \in SUBSET (1 .. N) : G = {k \in 1 .. N : OptionalAirs[k][2] \cap h # {}}
  OBVIOUS
<1>4. PICK F : F = FlattenSeq(Asked(h))
  OBVIOUS
<1>5. F = FlattenSeq(Asked(h))
  BY <1>4
<1>6. PICK S : S = {FixedAirs[k] : k \in 1 .. d} \cup {TableOrder[k] : k \in 1 .. N}
                     \cup {"ProgramHash", "Poseidon2Chip"}
  OBVIOUS
<1>7. /\ F \in Seq(S)
      /\ \A j, k \in 1 .. Len(F) : F[j] = F[k] => j = k
      /\ \A k \in 1 .. Len(F) : \E i \in DOMAIN TableOrder :
           OptionalAirs[i][2] \cap h # {} /\ F[k] = TableOrder[i]
      /\ \A i \in DOMAIN TableOrder : OptionalAirs[i][2] \cap h # {} =>
           \E k \in 1 .. Len(F) : F[k] = TableOrder[i]
  <2>1. {TableOrder[k] : k \in DOMAIN TableOrder} \subseteq S
    BY <1>1, <1>6
  <2> QED
    BY <1>5, <2>1, OptionalNames
<1>9. PICK m \in Nat : m = Len(F)
  BY <1>7
<1>11. \A j, k \in 1 .. m : F[j] = F[k] => j = k
  BY <1>7, <1>9
<1>12. \A k \in 1 .. m : \E i \in G : F[k] = TableOrder[i]
  BY <1>1, <1>3, <1>7, <1>9
<1>13. \A i \in G : \E k \in 1 .. m : F[k] = TableOrder[i]
  BY <1>1, <1>3, <1>7, <1>9
<1>14. PICK X : X = FixedAirs
  OBVIOUS
<1>15. X \in Seq(S) /\ Len(X) = d
  BY <1>2, <1>6, <1>14
<1>16. PICK l \in Nat : l = d + m
  OBVIOUS
<1>17. PICK Y : Y = X \o F
  OBVIOUS
<1>18. /\ Y \in Seq(S) /\ Len(Y) = l
       /\ \A k \in 1 .. d : Y[k] = X[k]
       /\ \A k \in 1 .. m : Y[d + k] = F[k]
  <2>1. F \in Seq(S)
    BY <1>7
  <2> QED
    <3>1. X \o F \in Seq(S) /\ Len(X \o F) = d + m
      BY <1>9, <1>15, <2>1
    <3>2. \A k \in 1 .. d : (X \o F)[k] = X[k]
      BY <1>9, <1>15, <2>1
    <3>3. ASSUME NEW k \in 1 .. m
          PROVE  (X \o F)[d + k] = F[k]
      <4>1. d + k \in 1 .. d + m /\ d + k > d /\ d + k - d = k
        OBVIOUS
      <4> QED
        BY <1>9, <1>15, <2>1, <4>1
    <3> QED
      BY <1>16, <1>17, <3>1, <3>2, <3>3
<1>19. PICK a \in Nat : a = l + 1
  OBVIOUS
<1>20. PICK z \in Nat : z = l + 2
  OBVIOUS
<1>21. /\ airs \in Seq(S) /\ Len(airs) = z
       /\ \A k \in 1 .. l : airs[k] = Y[k]
       /\ airs[a] = "ProgramHash" /\ airs[z] = "Poseidon2Chip"
  <2>1. PICK Z : Z = LastAirs
    OBVIOUS
  <2>2. Z \in Seq(S) /\ Len(Z) = 2 /\ Z[1] = "ProgramHash" /\ Z[2] = "Poseidon2Chip"
    BY <1>6, <2>1 DEF LastAirs
  <2>3. airs = Y \o Z
    BY <1>5, <1>14, <1>17, <2>1 DEF AirsFor
  <2>4. PICK two \in Nat : two = 2
    OBVIOUS
  <2>5. Y \in Seq(S) /\ Len(Y) = l /\ Z \in Seq(S) /\ Len(Z) = two
    BY <1>18, <2>2, <2>4
  <2>6. /\ Y \o Z \in Seq(S) /\ Len(Y \o Z) = l + two
        /\ \A k \in 1 .. l : (Y \o Z)[k] = Y[k]
        /\ \A k \in 1 .. two : (Y \o Z)[l + k] = Z[k]
    <3>1. Y \o Z \in Seq(S) /\ Len(Y \o Z) = l + two
      BY <2>5
    <3>2. \A k \in 1 .. l : (Y \o Z)[k] = Y[k]
      BY <2>5
    <3>3. ASSUME NEW k \in 1 .. two
          PROVE  (Y \o Z)[l + k] = Z[k]
      <4>1. l + k \in 1 .. l + two /\ l + k > l /\ l + k - l = k
        OBVIOUS
      <4> QED
        BY <2>5, <4>1
    <3> QED
      BY <3>1, <3>2, <3>3
  <2>7. airs[l + 1] = Z[1] /\ airs[l + 2] = Z[2]
    BY <2>3, <2>4, <2>6
  <2> QED
    BY <1>19, <1>20, <2>2, <2>3, <2>4, <2>6, <2>7
<1>22. PICK At : At = [k \in 1 .. l |-> k - d]
  OBVIOUS
<1>23. \A k \in 1 .. z : \/ k \in 1 .. d /\ airs[k] = X[k]
                         \/ k > d /\ k <= l /\ At[k] \in 1 .. m /\ k = d + At[k] /\ airs[k] = F[At[k]]
                         \/ k = a \/ k = z
  <2>1. ASSUME NEW k \in 1 .. z
        PROVE  k \in 1 .. d \/ (k > d /\ k <= l) \/ k = a \/ k = z
    BY <1>16, <1>19, <1>20
  <2>2. ASSUME NEW k \in 1 .. z, k \in 1 .. d
        PROVE  airs[k] = X[k]
    BY <1>16, <1>18, <1>21, <2>2
  <2>3. ASSUME NEW k \in 1 .. z, k > d, k <= l
        PROVE  At[k] \in 1 .. m /\ k = d + At[k] /\ airs[k] = F[At[k]]
    <3>1. k \in 1 .. l
      BY <2>3
    <3>2. At[k] \in 1 .. m /\ k = d + At[k]
      BY <1>16, <1>22, <2>3, <3>1
    <3> QED
      BY <1>18, <1>21, <3>1, <3>2
  <2> QED
    BY <2>1, <2>2, <2>3
<1>24. ASSUME NEW j \in 1 .. d, NEW k \in 1 .. m
       PROVE  X[j] # F[k]
  BY <1>1, <1>2, <1>12, <1>14, ListNames
<1>25. \A k \in 1 .. m : F[k] # "ProgramHash" /\ F[k] # "Poseidon2Chip"
  BY <1>1, <1>12, ListNames
<1>26. \A k \in 1 .. d : X[k] # "ProgramHash" /\ X[k] # "Poseidon2Chip"
  BY <1>2, <1>14, ListNames
<1>27. \A k \in 1 .. z : (airs[k] = "ProgramHash" <=> k = a) /\ (airs[k] = "Poseidon2Chip" <=> k = z)
  BY <1>21, <1>23, <1>25, <1>26
<1>28. \A j, k \in 1 .. d : X[j] = X[k] => j = k
  BY <1>2, <1>14, ListNames
<1>29. ASSUME NEW j \in 1 .. z, NEW k \in 1 .. z, airs[j] = airs[k]
       PROVE  j = k
  <2>1. CASE j \in {a, z} \/ k \in {a, z}
    BY <1>21, <1>27, <1>29, <2>1
  <2>2. CASE j \notin {a, z} /\ k \notin {a, z}
    <3>1. CASE j \in 1 .. d /\ k \in 1 .. d
      BY <1>23, <1>28, <1>29, <2>2, <3>1
    <3>2. CASE j \notin 1 .. d /\ k \notin 1 .. d
      <4>1. At[j] = At[k]
        BY <1>11, <1>23, <1>29, <2>2, <3>2
      <4> QED
        BY <1>23, <2>2, <3>2, <4>1
    <3> QED
      BY <1>23, <1>24, <1>29, <2>2, <3>1, <3>2
  <2> QED
    BY <2>1, <2>2
<1>30. {airs[k] : k \in 1 .. z} = TablesFor(h)
  <2>1. \A k \in 1 .. d : X[k] \in TablesFor(h)
    BY <1>2, <1>14 DEF TablesFor, ToSet
  <2>2. ASSUME NEW i \in G
        PROVE  TableOrder[i] \in TablesFor(h)
    <3>1. TableOrder[i] \in ToSet(TableOrder)
      BY <1>1 DEF ToSet
    <3>2. TableNeeds(TableOrder[i]) \cap h # {}
      BY <1>1, <1>3, NeedsAgree
    <3> QED
      BY <3>1, <3>2 DEF TablesFor
  <2>3. \A k \in 1 .. m : F[k] \in TablesFor(h)
    BY <1>12, <2>2
  <2>4. "ProgramHash" \in TablesFor(h) /\ "Poseidon2Chip" \in TablesFor(h)
    BY DEF TablesFor
  <2>5. \A k \in 1 .. z : airs[k] \in TablesFor(h)
    BY <1>21, <1>23, <2>1, <2>3, <2>4
  <2>6. ASSUME NEW t \in TablesFor(h)
        PROVE  \E k \in 1 .. z : airs[k] = t
    <3>1. CASE t \in {"ProgramHash", "Poseidon2Chip"}
      <4>1. a \in 1 .. z /\ z \in 1 .. z
        BY <1>19, <1>20
      <4> QED
        BY <1>21, <3>1, <4>1
    <3>2. CASE t \in ToSet(FixedAirs)
      <4>1. PICK k \in 1 .. d : t = X[k]
        BY <1>2, <1>14, <3>2 DEF ToSet
      <4>2. k \in 1 .. l /\ k \in 1 .. z
        BY <1>16, <1>20
      <4> QED
        BY <1>18, <1>21, <4>1, <4>2
    <3>3. CASE t \in ToSet(TableOrder) /\ TableNeeds(t) \cap h # {}
      <4>1. PICK i \in DOMAIN TableOrder : t = TableOrder[i]
        BY <3>3 DEF ToSet
      <4>2. i \in G
        BY <1>1, <1>3, <3>3, <4>1, NeedsAgree
      <4>3. PICK k \in 1 .. m : F[k] = t
        BY <1>13, <4>1, <4>2
      <4>4. d + k \in 1 .. l /\ d + k \in 1 .. z
        BY <1>16, <1>20
      <4> QED
        BY <1>18, <1>21, <4>3, <4>4
    <3> QED
      BY <3>1, <3>2, <3>3 DEF TablesFor
  <2> QED
    BY <2>5, <2>6
<1>31. Listed(airs) /\ DOMAIN airs = 1 .. z
  <2>1. DOMAIN airs = 1 .. z /\ airs = [k \in 1 .. z |-> airs[k]]
    BY <1>21
  <2> QED
    BY <2>1 DEF Listed
<1>32. z - 1 = a
  BY <1>19, <1>20
<1> QED
  BY <1>21, <1>27, <1>29, <1>30, <1>31, <1>32

\* What into_vecs makes of the AIRs.
VecsFor(airs) == [airs |-> airs, traces |-> airs, pvs |-> PublicValues(Len(airs))]

\* Where the assembly of a run stands; what is there follows from its kinds.
ListInv ==
  /\ tables = <<>> => all_traces = <<>>
  /\ all_traces # <<>> => all_traces = [airs |-> AirsFor(has), tables |-> TablesFor(has)]
  /\ vecs # <<>> => all_traces # <<>> /\ vecs = VecsFor(all_traces.airs)
  /\ instances # <<>> =>
       /\ vecs # <<>>
       /\ instances = Zipped(all_traces.airs, all_traces.airs, PublicValues(Len(all_traces.airs)))

LEMMA ListInvInductive == ListSpec => []ListInv
<1>1. ListInit => ListInv
  BY DEF ListInit, TablesInit, ListInv
<1>2. TableInv /\ TableInv' /\ ListInv /\ [ListNext]_listVars => ListInv'
  <2> SUFFICES ASSUME TableInv, TableInv', ListInv, [ListNext]_listVars
               PROVE  ListInv'
    OBVIOUS
  <2>1. CASE UNCHANGED listVars
    BY <2>1 DEF ListInv, listVars, tvars, has
  <2>2. CASE ExecuteStep
    <3>1. tables = <<>> /\ tables' = tables
      BY <2>2 DEF ExecuteStep, Execute
    <3>2. all_traces = <<>> /\ vecs = <<>> /\ instances = <<>>
      BY <3>1 DEF ListInv
    <3>3. all_traces' = <<>> /\ vecs' = <<>> /\ instances' = <<>>
      BY <2>2, <3>2 DEF ExecuteStep
    <3> QED
      BY <3>3 DEF ListInv
  <2>3. CASE GenerateAllTraces
    <3>1. tables = <<>> /\ trace' = trace /\ trace # <<>>
      BY <2>3 DEF GenerateAllTraces, GenerateTraces
    <3>2. vecs = <<>> /\ instances = <<>>
      BY <3>1 DEF ListInv
    <3>3. vecs' = <<>> /\ instances' = <<>>
      BY <2>3, <3>2 DEF GenerateAllTraces
    <3>4. has' = has
      BY <3>1 DEF has
    <3>5. all_traces' = [airs |-> AirsFor(has), tables |-> TablesFor(has)]
      BY <2>3 DEF GenerateAllTraces
    <3>6. tables' # <<>>
      <4>1. DOMAIN tables' = has
        BY <2>3 DEF GenerateAllTraces, GenerateTraces, has
      <4>2. 1 \in DOMAIN trace
        BY <3>1 DEF TableInv
      <4>3. trace[1].op \in has
        BY <4>2 DEF has
      <4> QED
        BY <4>1, <4>3
    <3> QED
      BY <3>3, <3>4, <3>5, <3>6 DEF ListInv
  <2>4. CASE IntoVecs
    <3>1. /\ all_traces # <<>> /\ vecs = <<>>
          /\ all_traces' = all_traces /\ tables' = tables /\ trace' = trace /\ instances' = instances
      BY <2>4 DEF IntoVecs, tvars
    <3>2. instances' = <<>>
      BY <3>1 DEF ListInv
    <3>3. all_traces = [airs |-> AirsFor(has), tables |-> TablesFor(has)]
      BY <3>1 DEF ListInv
    <3>4. TracesOf(all_traces.tables) = all_traces.airs
      BY <3>3, BuiltAsAsked DEF TracesOf, AirsFor
    <3>5. vecs' = VecsFor(all_traces.airs)
      BY <2>4, <3>4 DEF IntoVecs, VecsFor
    <3>6. has' = has
      BY <3>1 DEF has
    <3> QED
      BY <3>1, <3>2, <3>3, <3>5, <3>6 DEF ListInv
  <2>5. CASE DoProve
    <3>1. /\ all_traces' = all_traces /\ vecs' = vecs /\ tables' = tables /\ trace' = trace
          /\ vecs # <<>> /\ instances' = Zipped(vecs.airs, vecs.traces, vecs.pvs)
      BY <2>5 DEF DoProve, tvars
    <3>2. vecs = VecsFor(all_traces.airs)
      BY <3>1 DEF ListInv
    <3>3. /\ vecs.airs = all_traces.airs /\ vecs.traces = all_traces.airs
          /\ vecs.pvs = PublicValues(Len(all_traces.airs))
      BY <3>2 DEF VecsFor
    <3>4. instances' =
            Zipped(all_traces.airs, all_traces.airs, PublicValues(Len(all_traces.airs)))
      BY <3>1, <3>3
    <3>5. has' = has
      BY <3>1 DEF has
    <3> QED
      BY <3>1, <3>4, <3>5 DEF ListInv
  <2>6. CASE Proved
    BY <2>6 DEF Proved, ListInv, listVars, tvars, has
  <2> QED
    BY <2>1, <2>2, <2>3, <2>4, <2>5, <2>6 DEF ListNext
<1> QED
  BY <1>1, <1>2, TableInvInductive, PTL DEF ListSpec

\* The instances of a run.
LEMMA InstancesAre ==
  ASSUME ListInv, instances # <<>>, NEW airs, airs = AirsFor(has), NEW n \in Nat, n = Len(airs)
  PROVE  /\ all_traces.airs = airs /\ all_traces.tables = TablesFor(has)
         /\ DOMAIN instances = 1 .. n
         /\ \A k \in 1 .. n :
              /\ instances[k].air = airs[k] /\ instances[k].trace = airs[k]
              /\ instances[k].public_values = IF k = n - 1 THEN "digest_and_length" ELSE "none"
<1>1. all_traces = [airs |-> AirsFor(has), tables |-> TablesFor(has)]
  BY DEF ListInv
<1>2. PICK pvs : pvs = PublicValues(n)
  OBVIOUS
<1>3. Len(pvs) = n
  BY <1>2 DEF PublicValues
<1>4. instances = Zipped(airs, airs, pvs)
  BY <1>1, <1>2 DEF ListInv
<1>5. Min({n, n, n}) = n
  BY DEF Min
<1>6. instances = [k \in 1 .. n |-> [air |-> airs[k], trace |-> airs[k], public_values |-> pvs[k]]]
  BY <1>3, <1>4, <1>5 DEF Zipped
<1>7. \A k \in 1 .. n : pvs[k] = IF k = n - 1 THEN "digest_and_length" ELSE "none"
  BY <1>2 DEF PublicValues
<1> QED
  BY <1>1, <1>6, <1>7

\* InstancesMatch holds in every reachable state: each AIR of the list is
\* proved over the table built for it, and the public values go to ProgramHash.
THEOREM InstancesAlwaysMatch == ListSpec => []InstancesMatch
<1>1. ListInv => InstancesMatch
  <2> SUFFICES ASSUME ListInv, instances # <<>>
               PROVE  /\ [k \in DOMAIN instances |-> instances[k].air] = all_traces.airs
                      /\ \A k \in DOMAIN instances :
                           /\ instances[k].trace = instances[k].air
                           /\ instances[k].public_values # "none"
                                <=> instances[k].air = "ProgramHash"
                      /\ IsInjective(all_traces.airs)
                      /\ {instances[k].trace : k \in DOMAIN instances} = all_traces.tables
    BY DEF InstancesMatch
  <2>a. PICK airs : airs = AirsFor(has)
    OBVIOUS
  <2>n. PICK n \in Nat : n = Len(airs)
    BY <2>a, Assembly
  <2>1. /\ all_traces.airs = airs /\ all_traces.tables = TablesFor(has)
        /\ DOMAIN instances = 1 .. n
        /\ \A k \in 1 .. n :
             /\ instances[k].air = airs[k] /\ instances[k].trace = airs[k]
             /\ instances[k].public_values = IF k = n - 1 THEN "digest_and_length" ELSE "none"
    BY <2>a, <2>n, InstancesAre
  <2>2. /\ Listed(airs) /\ DOMAIN airs = 1 .. n
        /\ \A j, k \in DOMAIN airs : airs[j] = airs[k] => j = k
        /\ \A k \in DOMAIN airs : airs[k] = "ProgramHash" <=> k = n - 1
        /\ {airs[k] : k \in DOMAIN airs} = TablesFor(has)
    BY <2>a, <2>n, Assembly
  <2>3. [k \in DOMAIN instances |-> instances[k].air] = all_traces.airs
    <3>1. airs = [k \in 1 .. n |-> airs[k]]
      BY <2>2 DEF Listed
    <3> QED
      BY <2>1, <3>1
  <2>4. ASSUME NEW k \in DOMAIN instances
        PROVE  /\ instances[k].trace = instances[k].air
               /\ instances[k].public_values # "none" <=> instances[k].air = "ProgramHash"
    BY <2>1, <2>2
  <2>5. IsInjective(all_traces.airs)
    BY <2>1, <2>2 DEF IsInjective
  <2>6. {instances[k].trace : k \in DOMAIN instances} = {airs[k] : k \in DOMAIN airs}
    BY <2>1, <2>2
  <2> QED
    BY <2>1, <2>2, <2>3, <2>4, <2>5, <2>6
<1> QED
  BY <1>1, ListInvInductive, PTL

(***************************************************************************)
(* The buses of the instructions.                                          *)
(***************************************************************************)
\* The buses of a list of lookups.
Uses(seq, buses) == Listed(seq) /\ {seq[n][1] : n \in DOMAIN seq} = buses

LEMMA UsesJoin ==
  ASSUME NEW s, NEW t, NEW b, NEW c, Uses(s, b), Uses(t, c)
  PROVE  Uses(s \o t, b \cup c)
<1>1. Listed(s) /\ Listed(t)
  BY DEF Uses
<1>2. PICK n \in Nat : DOMAIN s = 1 .. n /\ s = [k \in 1 .. n |-> s[k]]
  BY <1>1 DEF Listed
<1>3. PICK m \in Nat : DOMAIN t = 1 .. m /\ t = [k \in 1 .. m |-> t[k]]
  BY <1>1 DEF Listed
<1>4. PICK S : S = {s[k] : k \in 1 .. n} \cup {t[k] : k \in 1 .. m}
  OBVIOUS
<1>5. s \in Seq(S) /\ Len(s) = n
  BY <1>2, <1>4
<1>6. t \in Seq(S) /\ Len(t) = m
  BY <1>3, <1>4
<1>7. PICK l \in Nat : l = n + m
  OBVIOUS
<1>8. PICK u : u = s \o t
  OBVIOUS
<1>9. u \in Seq(S) /\ Len(u) = l /\ DOMAIN u = 1 .. l
  <2>1. s \o t \in Seq(S) /\ Len(s \o t) = n + m
    BY <1>5, <1>6
  <2>2. u \in Seq(S) /\ Len(u) = l
    BY <1>7, <1>8, <2>1
  <2> QED
    BY <2>2
<1>10. \A k \in 1 .. n : k \in 1 .. l /\ u[k] = s[k]
  BY <1>5, <1>6, <1>7, <1>8
<1>11. ASSUME NEW k \in 1 .. m
       PROVE  n + k \in 1 .. l /\ u[n + k] = t[k]
  <2>1. n + k \in 1 .. n + m /\ n + k > n /\ n + k - n = k
    OBVIOUS
  <2>2. s \o t \in Seq(S) /\ Len(s \o t) = n + m
    BY <1>5, <1>6
  <2>3. PICK j \in 1 .. n + m : j = n + k
    BY <2>1
  <2>4. (s \o t)[j] = t[k]
    BY <1>3, <1>5, <1>6, <2>2, <2>3
  <2> QED
    BY <1>7, <1>8, <2>3, <2>4
<1>12. ASSUME NEW k \in 1 .. l
       PROVE  (k \in 1 .. n /\ u[k] = s[k]) \/ \E j \in 1 .. m : u[k] = t[j]
  <2>1. k \in 1 .. n \/ (k - n \in 1 .. m /\ n + (k - n) = k)
    BY <1>7
  <2> QED
    BY <1>10, <1>11, <2>1
<1>13. \A x \in b : \E k \in 1 .. l : u[k][1] = x
  BY <1>2, <1>10 DEF Uses
<1>14. \A x \in c : \E k \in 1 .. l : u[k][1] = x
  BY <1>3, <1>11 DEF Uses
<1>15. \A k \in 1 .. l : u[k][1] \in b \cup c
  BY <1>2, <1>3, <1>12 DEF Uses
<1>16. {u[k][1] : k \in DOMAIN u} = b \cup c
  BY <1>9, <1>13, <1>14, <1>15
<1> QED
  BY <1>1, <1>8, <1>16, ListsJoin DEF Uses

\* A list with one bus.
LEMMA UsesOne ==
  ASSUME NEW s, NEW bus, NEW n \in Nat, n >= 1, DOMAIN s = 1 .. n, s = [k \in 1 .. n |-> s[k]],
         \A k \in 1 .. n : s[k][1] = bus
  PROVE  Uses(s, {bus})
<1>1. 1 \in 1 .. n
  OBVIOUS
<1> QED
  BY <1>1 DEF Uses, Listed

LEMMA BytesUse ==
  ASSUME NEW x
  PROVE  Uses(Bytes(x), {"bytes"})
<1>1. PICK n \in Nat : n = NumLimbs /\ n >= 1
  BY Geometry
<1>2. PICK s : s = Bytes(x)
  OBVIOUS
<1>3. s = [i \in 1 .. n |-> <<"bytes", x[i - 1]>>]
  BY <1>1, <1>2 DEF Bytes, LimbwiseSeq
<1>4. DOMAIN s = 1 .. n /\ s = [k \in 1 .. n |-> s[k]] /\ \A k \in 1 .. n : s[k][1] = "bytes"
  BY <1>3
<1> QED
  BY <1>1, <1>2, <1>4, UsesOne

LEMMA LogicUse ==
  ASSUME NEW bus, NEW r, NEW y
  PROVE  Uses(BytesLogic(bus, r, y), {bus})
<1>1. PICK n \in Nat : n = NumLimbs /\ n >= 1
  BY Geometry
<1>2. PICK s : s = BytesLogic(bus, r, y)
  OBVIOUS
<1>3. s = [i \in 1 .. n |-> <<bus, r.rs1_value[i - 1], y[i - 1], r.rd_new_value[i - 1]>>]
  BY <1>1, <1>2 DEF BytesLogic, LimbwiseSeq
<1>4. DOMAIN s = 1 .. n /\ s = [k \in 1 .. n |-> s[k]] /\ \A k \in 1 .. n : s[k][1] = bus
  BY <1>3
<1> QED
  BY <1>1, <1>2, <1>4, UsesOne

LEMMA ShiftUse ==
  ASSUME NEW bus, NEW r
  PROVE  Uses(BytesShift(bus, r), {bus})
<1>1. PICK n \in Nat : n = NumLimbs /\ n >= 1
  BY Geometry
<1>2. PICK s : s = BytesShift(bus, r)
  OBVIOUS
<1>3. s = [i \in 1 .. n |-> <<bus, r.rs1_value[i - 1], r.bit_shamt,
                              r.shifted_bytes[i - 1], r.carry_bytes[i - 1]>>]
  BY <1>1, <1>2 DEF BytesShift, LimbwiseSeq
<1>4. DOMAIN s = 1 .. n /\ s = [k \in 1 .. n |-> s[k]] /\ \A k \in 1 .. n : s[k][1] = bus
  BY <1>3
<1> QED
  BY <1>1, <1>2, <1>4, UsesOne

LEMMA SinglesUse ==
  ASSUME NEW b, NEW r
  PROVE  Uses(Byte(b), {"bytes"}) /\ Uses(OnesShift(r), {"byte_srl"})
<1>1. PICK n \in Nat : n = 1 /\ n >= 1
  OBVIOUS
<1>2. PICK t : t = <<"bytes", b>>
  OBVIOUS
<1>3. PICK u : u = <<"byte_srl", Base - 1, r.bit_shamt, r.srl_ff_shifted, r.srl_ff_carry>>
  OBVIOUS
<1>4. t[1] = "bytes" /\ u[1] = "byte_srl"
  BY <1>2, <1>3
<1>5. PICK s : s = <<t>>
  OBVIOUS
<1>6. PICK v : v = <<u>>
  OBVIOUS
<1>7. DOMAIN s = 1 .. n /\ s = [k \in 1 .. n |-> s[k]] /\ \A k \in 1 .. n : s[k][1] = "bytes"
  BY <1>1, <1>4, <1>5
<1>8. DOMAIN v = 1 .. n /\ v = [k \in 1 .. n |-> v[k]] /\ \A k \in 1 .. n : v[k][1] = "byte_srl"
  BY <1>1, <1>4, <1>6
<1>9. Uses(s, {"bytes"})
  BY <1>1, <1>7, UsesOne
<1>10. Uses(v, {"byte_srl"})
  BY <1>1, <1>8, UsesOne
<1> QED
  BY <1>2, <1>3, <1>5, <1>6, <1>9, <1>10 DEF Byte, OnesShift

LEMMA TailUse ==
  ASSUME NEW x
  PROVE  Uses(SubSeq(Bytes(x), 2, NumLimbs), {"bytes"})
<1>1. PICK n \in Nat : n = NumLimbs /\ n >= 2
  BY Geometry
<1>2. PICK s : s = Bytes(x)
  OBVIOUS
<1>3. s = [i \in 1 .. n |-> <<"bytes", x[i - 1]>>]
  BY <1>1, <1>2 DEF Bytes, LimbwiseSeq
<1>4. PICK S : S = {s[k] : k \in 1 .. n}
  OBVIOUS
<1>5. s \in Seq(S) /\ Len(s) = n
  BY <1>3, <1>4
<1>6. PICK m \in Nat : m = n - 1 /\ m >= 1
  BY <1>1
<1>7. PICK u : u = SubSeq(s, 2, n)
  OBVIOUS
<1>8. u \in Seq(S) /\ Len(u) = m /\ \A k \in 1 .. m : u[k] = s[2 + k - 1]
  BY <1>1, <1>5, <1>6, <1>7, SubSeqProperties
<1>9. \A k \in 1 .. m : 2 + k - 1 \in 1 .. n
  BY <1>6
<1>10. \A k \in 1 .. m : u[k][1] = "bytes"
  BY <1>3, <1>8, <1>9
<1>11. DOMAIN u = 1 .. m /\ u = [k \in 1 .. m |-> u[k]]
  BY <1>8
<1> QED
  BY <1>1, <1>2, <1>6, <1>7, <1>10, <1>11, UsesOne

\* The lookup tables the rows of an instruction need.
BusesOf(op) ==
  CASE op = "Xor"              -> {"bytes_xor"} \cup {"bytes"}
    [] op = "XorI"             -> {"bytes_xor"}
    [] op \in {"Or", "OriI"}   -> {"bytes_or"}
    [] op \in {"And", "AndiI"} -> {"bytes_and"}
    [] op \in {"Sll", "SlliI"} -> {"byte_sll"} \cup {"bytes"}
    [] op \in {"Srl", "Sra", "SrliI", "SraiI"} -> {"byte_srl"} \cup {"bytes"}
    [] OTHER                   -> {"bytes"}

\* They are the same for every row.
LEMMA LookupsUse ==
  ASSUME NEW op \in Ops, NEW r
  PROVE  Uses(Lookups(op, r), BusesOf(op))
<1>1. ASSUME NEW x, NEW y
      PROVE  Uses(Bytes(x) \o Bytes(y), {"bytes"})
  <2>1. Uses(Bytes(x) \o Bytes(y), {"bytes"} \cup {"bytes"})
    BY BytesUse, UsesJoin
  <2>2. {"bytes"} \cup {"bytes"} = {"bytes"}
    OBVIOUS
  <2> QED
    BY <2>1, <2>2, Zenon
<1>2. ASSUME NEW s, Uses(s, {"bytes"}), NEW t, Uses(t, {"bytes"})
      PROVE  Uses(s \o t, {"bytes"})
  <2>1. Uses(s \o t, {"bytes"} \cup {"bytes"})
    BY <1>2, UsesJoin
  <2>2. {"bytes"} \cup {"bytes"} = {"bytes"}
    OBVIOUS
  <2> QED
    BY <2>1, <2>2, Zenon
<1>3. ASSUME NEW x, NEW y, NEW z
      PROVE  Uses(Bytes(x) \o Bytes(y) \o Bytes(z), {"bytes"})
  BY <1>1, <1>2, BytesUse
<1>4. ASSUME NEW bus, NEW s, Uses(s, {bus}), NEW t, Uses(t, {"bytes"})
      PROVE  Uses(s \o t, {bus} \cup {"bytes"})
  BY <1>4, UsesJoin
<1>5. ASSUME NEW bus, NEW s, Uses(s, {bus} \cup {"bytes"}), NEW t, Uses(t, {"bytes"})
      PROVE  Uses(s \o t, {bus} \cup {"bytes"})
  <2>1. Uses(s \o t, ({bus} \cup {"bytes"}) \cup {"bytes"})
    BY <1>5, UsesJoin
  <2>2. ({bus} \cup {"bytes"}) \cup {"bytes"} = {bus} \cup {"bytes"}
    OBVIOUS
  <2> QED
    BY <2>1, <2>2, Zenon
<1>6. CASE op \in {"Add", "Sub", "Sltu"}
  <2>1. BusesOf(op) = {"bytes"}
    BY <1>6 DEF BusesOf
  <2>2. \E x, y, z : Lookups(op, r) = Bytes(x) \o Bytes(y) \o Bytes(z)
    BY <1>6 DEF Lookups, AddLookups, SubLookups, SltuLookups
  <2> QED
    BY <1>3, <2>1, <2>2
<1>7. CASE op \in {"AddI", "SltiuI", "Jal", "Jalr"}
  <2>1. BusesOf(op) = {"bytes"}
    BY <1>7 DEF BusesOf
  <2>2. \E x, y : Lookups(op, r) = Bytes(x) \o Bytes(y)
    BY <1>7 DEF Lookups, AddILookups, SltiuILookups, JalLookups, JalrLookups
  <2> QED
    BY <1>1, <2>1, <2>2
<1>8. CASE op = "Lui"
  BY <1>8, BytesUse DEF BusesOf, Lookups, LuiLookups
<1>9. CASE op = "Auipc"
  <2>1. BusesOf(op) = {"bytes"}
    BY <1>9 DEF BusesOf
  <2>2. Lookups(op, r)
          = Bytes(r.pc) \o SubSeq(Bytes(r.imm_u), 2, NumLimbs) \o Bytes(r.rd_new_value)
    BY <1>9 DEF Lookups, AuipcLookups
  <2>3. Uses(Bytes(r.pc) \o SubSeq(Bytes(r.imm_u), 2, NumLimbs), {"bytes"})
    BY <1>2, BytesUse, TailUse
  <2> QED
    BY <1>2, <2>1, <2>2, <2>3, BytesUse
<1>10. CASE op = "Slt"
  <2>1. BusesOf(op) = {"bytes"}
    BY <1>10 DEF BusesOf
  <2>2. PICK s : s = Bytes(r.rs1_value) \o Bytes(r.rs2_value) \o Bytes(r.diff_bytes)
    OBVIOUS
  <2>3. Lookups(op, r) = (s \o Byte(r.rs1_byte3_low7)) \o Byte(r.rs2_byte3_low7)
    BY <1>10, <2>2 DEF Lookups, SltLookups
  <2>4. Uses(s \o Byte(r.rs1_byte3_low7), {"bytes"})
    BY <1>2, <1>3, <2>2, SinglesUse
  <2> QED
    BY <1>2, <2>1, <2>3, <2>4, SinglesUse
<1>11. CASE op = "SltiI"
  <2>1. BusesOf(op) = {"bytes"}
    BY <1>11 DEF BusesOf
  <2>2. PICK s : s = Bytes(r.rs1_value) \o Bytes(r.diff_bytes)
    OBVIOUS
  <2>3. Lookups(op, r) = s \o Byte(r.rs1_byte3_low7)
    BY <1>11, <2>2 DEF Lookups, SltiILookups
  <2> QED
    BY <1>1, <1>2, <2>1, <2>2, <2>3, SinglesUse
<1>12. CASE op = "Xor"
  <2>1. BusesOf(op) = {"bytes_xor"} \cup {"bytes"}
    BY <1>12 DEF BusesOf
  <2>2. PICK s : s = BytesLogic("bytes_xor", r, r.rs2_value)
    OBVIOUS
  <2>3. Lookups(op, r) = (s \o Bytes(r.rs1_value)) \o Bytes(r.rs2_value)
    BY <1>12, <2>2 DEF Lookups, XorLookups
  <2>4. Uses(s \o Bytes(r.rs1_value), {"bytes_xor"} \cup {"bytes"})
    BY <1>4, <2>2, LogicUse, BytesUse
  <2> QED
    BY <1>5, <2>1, <2>3, <2>4, BytesUse
<1>13. CASE op \in {"Or", "And", "XorI", "OriI", "AndiI"}
  BY <1>13, LogicUse
     DEF BusesOf, Lookups, OrLookups, AndLookups, XorILookups, OriILookups, AndiILookups
<1>14. ASSUME NEW bus
       PROVE  Uses(BytesShift(bus, r) \o Bytes(r.rs2_value) \o Byte(r.rs2_shamt_high)
                     \o Bytes(r.rd_new_value), {bus} \cup {"bytes"})
  <2>1. Uses(BytesShift(bus, r) \o Bytes(r.rs2_value), {bus} \cup {"bytes"})
    BY <1>4, ShiftUse, BytesUse
  <2>2. Uses((BytesShift(bus, r) \o Bytes(r.rs2_value)) \o Byte(r.rs2_shamt_high),
             {bus} \cup {"bytes"})
    BY <1>5, <2>1, SinglesUse
  <2> QED
    BY <1>5, <2>2, BytesUse
<1>15. CASE op \in {"Sll", "Srl"}
  <2>1. op = "Sll" => BusesOf(op) = {"byte_sll"} \cup {"bytes"}
    BY DEF BusesOf
  <2>2. op = "Srl" => BusesOf(op) = {"byte_srl"} \cup {"bytes"}
    BY DEF BusesOf
  <2>3. op = "Sll" => Lookups(op, r)
          = BytesShift("byte_sll", r) \o Bytes(r.rs2_value) \o Byte(r.rs2_shamt_high)
              \o Bytes(r.rd_new_value)
    BY DEF Lookups, SllLookups
  <2>4. op = "Srl" => Lookups(op, r)
          = BytesShift("byte_srl", r) \o Bytes(r.rs2_value) \o Byte(r.rs2_shamt_high)
              \o Bytes(r.rd_new_value)
    BY DEF Lookups, SrlLookups
  <2> QED
    BY <1>14, <1>15, <2>1, <2>2, <2>3, <2>4
<1>16. CASE op \in {"SlliI", "SrliI"}
  <2>1. ASSUME NEW bus
        PROVE  Uses(BytesShift(bus, r) \o Bytes(r.rd_new_value), {bus} \cup {"bytes"})
    BY <1>4, ShiftUse, BytesUse
  <2>2. op = "SlliI" => BusesOf(op) = {"byte_sll"} \cup {"bytes"}
    BY DEF BusesOf
  <2>3. op = "SrliI" => BusesOf(op) = {"byte_srl"} \cup {"bytes"}
    BY DEF BusesOf
  <2>4. op = "SlliI" => Lookups(op, r) = BytesShift("byte_sll", r) \o Bytes(r.rd_new_value)
    BY DEF Lookups, SlliILookups
  <2>5. op = "SrliI" => Lookups(op, r) = BytesShift("byte_srl", r) \o Bytes(r.rd_new_value)
    BY DEF Lookups, SrliILookups
  <2> QED
    BY <1>16, <2>1, <2>2, <2>3, <2>4, <2>5
<1>17. CASE op \in {"Sra", "SraiI"}
  <2>1. BusesOf(op) = {"byte_srl"} \cup {"bytes"}
    BY <1>17 DEF BusesOf
  <2>2. PICK s : s = BytesShift("byte_srl", r) \o OnesShift(r)
    OBVIOUS
  <2>3. Uses(s, {"byte_srl"} \cup {"byte_srl"})
    BY <2>2, ShiftUse, SinglesUse, UsesJoin
  <2>4. Uses(s, {"byte_srl"})
    <3>1. {"byte_srl"} \cup {"byte_srl"} = {"byte_srl"}
      OBVIOUS
    <3> QED
      BY <2>3, <3>1, Zenon
  <2>5. CASE op = "Sra"
    <3>1. Lookups(op, r)
            = (((s \o Bytes(r.rs2_value)) \o Byte(r.rs2_shamt_high)) \o Bytes(r.rd_new_value))
                \o Byte(r.rs1_byte3_low7)
      BY <2>2, <2>5 DEF Lookups, SraLookups
    <3>2. Uses(s \o Bytes(r.rs2_value), {"byte_srl"} \cup {"bytes"})
      BY <1>4, <2>4, BytesUse
    <3>3. Uses((s \o Bytes(r.rs2_value)) \o Byte(r.rs2_shamt_high), {"byte_srl"} \cup {"bytes"})
      BY <1>5, <3>2, SinglesUse
    <3>4. Uses(((s \o Bytes(r.rs2_value)) \o Byte(r.rs2_shamt_high)) \o Bytes(r.rd_new_value),
               {"byte_srl"} \cup {"bytes"})
      BY <1>5, <3>3, BytesUse
    <3>5. PICK u : u = ((s \o Bytes(r.rs2_value)) \o Byte(r.rs2_shamt_high)) \o Bytes(r.rd_new_value)
      OBVIOUS
    <3>6. PICK v : v = Byte(r.rs1_byte3_low7)
      OBVIOUS
    <3>7. Uses(v, {"bytes"})
      BY <3>6, SinglesUse
    <3>8. Uses(u \o v, {"byte_srl"} \cup {"bytes"})
      BY <1>5, <3>4, <3>5, <3>7
    <3> QED
      BY <2>1, <3>1, <3>5, <3>6, <3>8, Zenon
  <2>6. CASE op = "SraiI"
    <3>1. Lookups(op, r) = (s \o Bytes(r.rd_new_value)) \o Byte(r.rs1_byte3_low7)
      BY <2>2, <2>6 DEF Lookups, SraiILookups
    <3>2. Uses(s \o Bytes(r.rd_new_value), {"byte_srl"} \cup {"bytes"})
      BY <1>4, <2>4, BytesUse
    <3>3. PICK u : u = s \o Bytes(r.rd_new_value)
      OBVIOUS
    <3>4. PICK v : v = Byte(r.rs1_byte3_low7)
      OBVIOUS
    <3>5. Uses(v, {"bytes"})
      BY <3>4, SinglesUse
    <3>6. Uses(u \o v, {"byte_srl"} \cup {"bytes"})
      BY <1>5, <3>2, <3>3, <3>5
    <3> QED
      BY <2>1, <3>1, <3>3, <3>4, <3>6, Zenon
  <2> QED
    BY <1>17, <2>5, <2>6
<1> QED
  BY <1>6, <1>7, <1>8, <1>9, <1>10, <1>11, <1>12, <1>13, <1>15, <1>16, <1>17 DEF Ops

\* The rows filled for the steps of an executed instruction.
LEMMA SendsOfKind ==
  ASSUME TableInv, tables # <<>>, NEW k \in has
  PROVE  k \in Ops /\ InstructionSends(k) = {"memory", DecodeBus(k)} \cup BusesOf(k)
<1>1. Generated
  BY DEF TableInv
<1>2. k \in DOMAIN tables
  BY <1>1 DEF Generated, has
<1>3. k \in Ops
  BY <1>2, TableShape
<1> DEFINE B(i) == {Sends(k, tables[k][i])[n][1] : n \in DOMAIN Sends(k, tables[k][i])}
<1>4. ASSUME NEW i \in RealRows(k)
      PROVE  B(i) = BusesOf(k)
  <2>1. PICK s \in StepsFrom(Inputs) : s.op = k /\ tables[k][i] = Row(s)
    BY <1>2, <1>4, TableShape
  <2>2. PICK r : r = Row(s)
    OBVIOUS
  <2>3. r.is_dummy = 1
    BY <1>3, <2>1, <2>2, StepFields, RowColumns DEF HasPc, HasLink
  <2>4. Sends(k, r) = Lookups(k, r)
    BY <2>3 DEF Sends
  <2>5. Uses(Lookups(k, r), BusesOf(k))
    BY <1>3, LookupsUse
  <2> QED
    BY <2>1, <2>2, <2>4, <2>5 DEF Uses
<1>5. PICK i : i \in RealRows(k)
  <2>1. PICK m \in DOMAIN trace : k = trace[m].op
    BY DEF has
  <2>2. PICK p \in Bijection({j \in DOMAIN trace : trace[j].op = k}, 1 .. Len(StepsOf(k))) : TRUE
    BY StepsSelected DEF TableInv
  <2>3. p[m] \in 1 .. Len(StepsOf(k))
    BY <2>1, <2>2 DEF Bijection, Injection
  <2> QED
    BY <1>2, <2>3, TableShape
<1>6. InstructionSends(k) = {"memory", DecodeBus(k)} \cup UNION {B(j) : j \in RealRows(k)}
  BY DEF InstructionSends
<1> HIDE DEF B
<1>7. UNION {B(j) : j \in RealRows(k)} = BusesOf(k)
  BY <1>4, <1>5
<1> QED
  BY <1>3, <1>6, <1>7

\* The table that answers a lookup.
Server(bus, k) ==
  CASE bus = "memory"    -> "Memory"
    [] bus = "bytes"     -> "Bytes"
    [] bus = "byte_sll"  -> "ByteSll"
    [] bus = "byte_srl"  -> "ByteSrl"
    [] bus = "bytes_and" -> IF k = "And" THEN "AndPrim" ELSE "And"
    [] bus = "bytes_or"  -> IF k = "Or" THEN "OrPrim" ELSE "Or"
    [] bus = "bytes_xor" -> "Xor"
    [] OTHER             -> "Decode"

\* Of all tables it is the only one that does.
LEMMA OneServer ==
  ASSUME NEW k \in Ops, NEW bus \in {"memory", DecodeBus(k)} \cup BusesOf(k), NEW t
  PROVE  <<bus, k>> \in Serves(t) <=> t = Server(bus, k)
<1>1. DecodeBus(k) \in {"decode_u", "decode_j", "decode"}
  BY DEF DecodeBus
<1>2. BusesOf(k) \subseteq {"bytes", "bytes_xor", "bytes_or", "bytes_and", "byte_sll", "byte_srl"}
  BY DEF BusesOf
<1>3. ASSUME NEW u, u \notin {"Memory", "Decode", "Bytes", "ByteSll", "ByteSrl"}
      PROVE  <<bus, k>> \in Serves(u) <=> k \in LogicServes(u) /\ bus = LogicBus(k)
  <2>1. Serves(u) = {<<LogicBus(j), j>> : j \in LogicServes(u)}
    BY <1>3 DEF Serves
  <2> QED
    BY <2>1
<1>4. <<bus, k>> \in Serves("Memory") <=> bus = "memory"
  BY DEF Serves
<1>5. <<bus, k>> \in Serves("Decode") <=> bus = DecodeBus(k)
  <2>1. Serves("Decode") = {<<DecodeBus(j), j>> : j \in Ops}
    BY DEF Serves
  <2> QED
    BY <2>1
<1>6. <<bus, k>> \in Serves("Bytes")
        <=> bus = "bytes" /\ k \notin {"Or", "And", "XorI", "OriI", "AndiI"}
  BY DEF Serves
<1>7. <<bus, k>> \in Serves("ByteSll") <=> bus = "byte_sll" /\ k \in {"Sll", "SlliI"}
  BY DEF Serves
<1>8. <<bus, k>> \in Serves("ByteSrl")
        <=> bus = "byte_srl" /\ k \in {"Srl", "Sra", "SrliI", "SraiI"}
  BY DEF Serves
<1>9. \A u : k \in LogicServes(u) <=>
               \/ u = "And" /\ k = "AndiI"
               \/ u = "AndPrim" /\ k = "And"
               \/ u = "Or" /\ k = "OriI"
               \/ u = "OrPrim" /\ k = "Or"
               \/ u = "Xor" /\ k \in {"XorI", "Xor"}
  BY DEF LogicServes
<1>10. /\ k \in {"And", "AndiI"} => LogicBus(k) = "bytes_and"
       /\ k \in {"Or", "OriI"} => LogicBus(k) = "bytes_or"
       /\ k \in {"Xor", "XorI"} => LogicBus(k) = "bytes_xor"
  BY DEF LogicBus
<1>11. CASE bus \in {"memory", "decode_u", "decode_j", "decode"}
  BY <1>1, <1>2, <1>3, <1>4, <1>5, <1>6, <1>7, <1>8, <1>9, <1>10, <1>11 DEF Server
<1>12. CASE bus = "bytes"
  <2>1. k \notin {"Or", "And", "XorI", "OriI", "AndiI"}
    BY <1>1, <1>12 DEF BusesOf
  <2> QED
    BY <1>1, <1>3, <1>4, <1>5, <1>6, <1>7, <1>8, <1>9, <1>10, <1>12, <2>1 DEF Server
<1>13. CASE bus = "byte_sll"
  <2>1. k \in {"Sll", "SlliI"}
    BY <1>1, <1>13 DEF BusesOf
  <2> QED
    BY <1>1, <1>3, <1>4, <1>5, <1>6, <1>7, <1>8, <1>9, <1>10, <1>13, <2>1 DEF Server
<1>14. CASE bus = "byte_srl"
  <2>1. k \in {"Srl", "Sra", "SrliI", "SraiI"}
    BY <1>1, <1>14 DEF BusesOf
  <2> QED
    BY <1>1, <1>3, <1>4, <1>5, <1>6, <1>7, <1>8, <1>9, <1>10, <1>14, <2>1 DEF Server
<1>15. CASE bus = "bytes_and"
  <2>1. k \in {"And", "AndiI"}
    BY <1>1, <1>15 DEF BusesOf
  <2> QED
    BY <1>1, <1>3, <1>4, <1>5, <1>6, <1>7, <1>8, <1>9, <1>10, <1>15, <2>1 DEF Server
<1>16. CASE bus = "bytes_or"
  <2>1. k \in {"Or", "OriI"}
    BY <1>1, <1>16 DEF BusesOf
  <2> QED
    BY <1>1, <1>3, <1>4, <1>5, <1>6, <1>7, <1>8, <1>9, <1>10, <1>16, <2>1 DEF Server
<1>17. CASE bus = "bytes_xor"
  <2>1. k \in {"Xor", "XorI"}
    BY <1>1, <1>17 DEF BusesOf
  <2> QED
    BY <1>1, <1>3, <1>4, <1>5, <1>6, <1>7, <1>8, <1>9, <1>10, <1>17, <2>1 DEF Server
<1> QED
  BY <1>1, <1>2, <1>11, <1>12, <1>13, <1>14, <1>15, <1>16, <1>17

\* The fixed tables are built for every run.
LEMMA FixedBuilt ==
  ASSUME NEW h
  PROVE  {"Decode", "Memory", "Program", "Bytes", "And", "Or", "Xor", "U32Lt", "TimestampLt",
          "BytesLt", "OrPrim", "ProgramHash", "Poseidon2Chip"} \subseteq TablesFor(h)
<1>1. /\ 2 \in DOMAIN FixedAirs /\ 3 \in DOMAIN FixedAirs /\ 4 \in DOMAIN FixedAirs
      /\ 5 \in DOMAIN FixedAirs /\ 6 \in DOMAIN FixedAirs /\ 7 \in DOMAIN FixedAirs
      /\ 8 \in DOMAIN FixedAirs /\ 9 \in DOMAIN FixedAirs /\ 10 \in DOMAIN FixedAirs
      /\ 11 \in DOMAIN FixedAirs /\ 12 \in DOMAIN FixedAirs
  BY DEF FixedAirs
<1>2. /\ FixedAirs[2] = "Decode" /\ FixedAirs[3] = "Memory" /\ FixedAirs[4] = "Program"
      /\ FixedAirs[5] = "Bytes" /\ FixedAirs[6] = "And" /\ FixedAirs[7] = "Or"
      /\ FixedAirs[8] = "Xor" /\ FixedAirs[9] = "U32Lt" /\ FixedAirs[10] = "TimestampLt"
      /\ FixedAirs[11] = "BytesLt" /\ FixedAirs[12] = "OrPrim"
  BY DEF FixedAirs
<1>3. \A i \in DOMAIN FixedAirs : FixedAirs[i] \in TablesFor(h)
  BY DEF TablesFor, ToSet
<1>4. {"ProgramHash", "Poseidon2Chip"} \subseteq TablesFor(h)
  BY DEF TablesFor
<1> QED
  BY <1>1, <1>2, <1>3, <1>4

\* The table that answers a lookup of an executed instruction is built.
LEMMA ServerBuilt ==
  ASSUME NEW h, NEW k \in Ops \cap h, NEW bus \in {"memory", DecodeBus(k)} \cup BusesOf(k)
  PROVE  Server(bus, k) \in TablesFor(h)
<1>1. /\ 10 \in DOMAIN TableOrder /\ 12 \in DOMAIN TableOrder /\ 14 \in DOMAIN TableOrder
      /\ TableOrder[10] = "AndPrim" /\ TableOrder[12] = "ByteSll" /\ TableOrder[14] = "ByteSrl"
  BY DEF TableOrder
<1>2. {"AndPrim", "ByteSll", "ByteSrl"} \subseteq ToSet(TableOrder)
  BY <1>1 DEF ToSet
<1>3. \A t \in {"AndPrim", "ByteSll", "ByteSrl"} : TableNeeds(t) \cap h # {} => t \in TablesFor(h)
  BY <1>2 DEF TablesFor
<1>4. k = "And" => "AndPrim" \in TablesFor(h)
  BY <1>3 DEF TableNeeds
<1>5. k \in {"Sll", "SlliI"} => "ByteSll" \in TablesFor(h)
  BY <1>3 DEF TableNeeds
<1>6. k \in {"Srl", "Sra", "SrliI", "SraiI"} => "ByteSrl" \in TablesFor(h)
  BY <1>3 DEF TableNeeds
<1>7. DecodeBus(k) \in {"decode_u", "decode_j", "decode"}
  BY DEF DecodeBus
<1>8. bus = "byte_sll" => k \in {"Sll", "SlliI"}
  BY <1>7 DEF BusesOf
<1>9. bus = "byte_srl" => k \in {"Srl", "Sra", "SrliI", "SraiI"}
  BY <1>7 DEF BusesOf
<1> QED
  BY <1>4, <1>5, <1>6, <1>8, <1>9, FixedBuilt DEF Server

\* A table counts only lookups that are made.
LEMMA ServedAreSent ==
  ASSUME NEW k \in Ops, NEW t, NEW lookup \in Serves(t), lookup[2] = k
  PROVE  lookup[1] \in {"memory", DecodeBus(k)} \cup BusesOf(k)
<1>1. CASE t = "Memory"
  BY <1>1 DEF Serves
<1>2. CASE t = "Decode"
  <2>1. PICK j \in Ops : lookup = <<DecodeBus(j), j>>
    BY <1>2 DEF Serves
  <2> QED
    BY <2>1
<1>3. CASE t = "Bytes"
  <2>1. lookup[1] = "bytes" /\ k \notin {"Or", "And", "XorI", "OriI", "AndiI"}
    BY <1>3 DEF Serves
  <2> QED
    BY <2>1 DEF BusesOf, Ops
<1>4. CASE t \in {"ByteSll", "ByteSrl"}
  BY <1>4 DEF Serves, BusesOf
<1>5. CASE t \notin {"Memory", "Decode", "Bytes", "ByteSll", "ByteSrl"}
  <2>1. PICK j \in LogicServes(t) : lookup = <<LogicBus(j), j>>
    BY <1>5 DEF Serves
  <2>2. j = k
    BY <2>1
  <2>3. k \in {"And", "AndiI", "Or", "OriI", "Xor", "XorI"}
    BY <2>1, <2>2 DEF LogicServes
  <2> QED
    BY <2>1, <2>2, <2>3 DEF LogicBus, BusesOf
<1> QED
  BY <1>1, <1>2, <1>3, <1>4, <1>5

\* What the other tables look up finds its table too.
LEMMA TablesServed ==
  ASSUME NEW h, NEW t, NEW bus \in TableSends(t)
  PROVE  \E u \in TablesFor(h) : bus \in Receives(u)
<1>1. bus \in {"program", "u32_lt", "timestamp_lt", "bytes_lt", "program_image", "bytes",
               "poseidon2_perm"}
  BY DEF TableSends
<1>2. /\ {"program", "program_image"} \subseteq Receives("Program")
      /\ "u32_lt" \in Receives("U32Lt") /\ "timestamp_lt" \in Receives("TimestampLt")
      /\ "bytes_lt" \in Receives("BytesLt") /\ "bytes" \in Receives("Bytes")
      /\ "poseidon2_perm" \in Receives("Poseidon2Chip")
  BY DEF Receives
<1> QED
  BY <1>1, <1>2, FixedBuilt

\* LookupsServed holds in every reachable state: for every mix of instructions,
\* each lookup of an instruction is answered by one of the tables built, none
\* of these counts a lookup nobody makes, and their own lookups find tables.
THEOREM LookupsAlwaysServed == ListSpec => []LookupsServed
<1>1. TableInv /\ ListInv => LookupsServed
  <2> SUFFICES ASSUME TableInv, ListInv, instances # <<>>,
                      NEW present, present = {instances[k].trace : k \in DOMAIN instances}
               PROVE  /\ \A k \in has :
                           /\ \A bus \in InstructionSends(k) :
                                Cardinality({t \in present : <<bus, k>> \in Serves(t)}) = 1
                           /\ \A t \in present : \A lookup \in Serves(t) :
                                lookup[2] = k => lookup[1] \in InstructionSends(k)
                      /\ \A t \in present : \A bus \in TableSends(t) :
                           \E u \in present : bus \in Receives(u)
    BY DEF LookupsServed
  <2>1. tables # <<>>
    BY DEF ListInv
  <2>2. present = TablesFor(has)
    <3>1. PICK airs : airs = AirsFor(has)
      OBVIOUS
    <3>2. PICK n \in Nat : n = Len(airs)
      BY <3>1, Assembly
    <3>3. DOMAIN instances = 1 .. n /\ \A k \in 1 .. n : instances[k].trace = airs[k]
      BY <3>1, <3>2, InstancesAre
    <3>4. DOMAIN airs = 1 .. n /\ {airs[k] : k \in DOMAIN airs} = TablesFor(has)
      BY <3>1, <3>2, Assembly
    <3> QED
      BY <3>3, <3>4
  <2>3. ASSUME NEW k \in has, NEW bus \in InstructionSends(k)
        PROVE  Cardinality({t \in present : <<bus, k>> \in Serves(t)}) = 1
    <3>1. k \in Ops /\ bus \in {"memory", DecodeBus(k)} \cup BusesOf(k)
      BY <2>1, <2>3, SendsOfKind
    <3>2. Server(bus, k) \in present
      BY <2>2, <3>1, ServerBuilt
    <3>3. \A t : <<bus, k>> \in Serves(t) <=> t = Server(bus, k)
      BY <3>1, OneServer
    <3>4. {t \in present : <<bus, k>> \in Serves(t)} = {Server(bus, k)}
      BY <3>2, <3>3
    <3> QED
      BY <3>4, FS_Singleton
  <2>4. ASSUME NEW k \in has, NEW t \in present, NEW lookup \in Serves(t), lookup[2] = k
        PROVE  lookup[1] \in InstructionSends(k)
    <3>1. k \in Ops /\ InstructionSends(k) = {"memory", DecodeBus(k)} \cup BusesOf(k)
      BY <2>1, SendsOfKind
    <3> QED
      BY <2>4, <3>1, ServedAreSent
  <2>5. ASSUME NEW t \in present, NEW bus \in TableSends(t)
        PROVE  \E u \in present : bus \in Receives(u)
    BY <2>2, TablesServed
  <2> QED
    BY <2>3, <2>4, <2>5
<1> QED
  BY <1>1, TableInvInductive, ListInvInductive, PTL

(***************************************************************************)
(* The lookups of a row against what its step is counted for.              *)
(***************************************************************************)
\* The counts of words and of single bytes.
Words(vals)  == FlattenSeq([i \in DOMAIN vals |-> Bytes(LimbsOf(vals[i]))])
Singles(seq) == [i \in DOMAIN seq |-> ByteRow(seq[i])]
Word(w)      == Bytes(LimbsOf(w))

LEMMA CountsAreWords ==
  ASSUME NEW s
  PROVE  ByteCounts(s) = Words(ByteCheckedVals(s)) \o Singles(ByteCheckedSingles(s))
<1>1. PICK n \in Nat : n = NumLimbs
  BY Geometry
<1>2. ASSUME NEW w
      PROVE  LimbwiseSeq(LAMBDA j : ByteRow(LimbsOf(w)[j])) = Bytes(LimbsOf(w))
  BY DEF LimbwiseSeq, Bytes, ByteRow
<1> DEFINE vals == ByteCheckedVals(s)
           counts == [i \in DOMAIN vals |-> LimbwiseSeq(LAMBDA j : ByteRow(LimbsOf(vals[i])[j]))]
<1>3. ByteCounts(s) = FlattenSeq(counts) \o Singles(ByteCheckedSingles(s))
  BY DEF ByteCounts, Singles
<1> HIDE DEF vals
<1>4. counts = [i \in DOMAIN vals |-> Bytes(LimbsOf(vals[i]))]
  BY <1>2
<1>5. FlattenSeq(counts) = Words(vals)
  BY <1>4 DEF Words
<1> QED
  BY <1>3, <1>5 DEF vals

\* The words v lists, two or three.
OneIn(v, a)         == v = <<a>>
TwoIn(v, a, b)      == v = <<a, b>>
ThreeIn(v, a, b, c) == v = <<a, b, c>>

LEMMA OneWord ==
  ASSUME NEW v, NEW a, OneIn(v, a)
  PROVE  Words(v) = Word(a) /\ Singles(v) = Byte(a)
<1>1. [i \in DOMAIN v |-> Word(v[i])] = <<Word(a)>>
  BY DEF OneIn
<1>2. Listed(Word(a))
  BY BytesListed DEF Word
<1>3. Words(v) = Word(a)
  BY <1>1, <1>2, FlattenFew DEF Words, Word
<1>4. Singles(v) = <<ByteRow(a)>>
  BY DEF Singles, OneIn
<1> QED
  BY <1>3, <1>4 DEF Byte, ByteRow

LEMMA TwoWords ==
  ASSUME NEW v, NEW a, NEW b, TwoIn(v, a, b)
  PROVE  Words(v) = Word(a) \o Word(b) /\ Singles(v) = Byte(a) \o Byte(b)
<1>1. [i \in DOMAIN v |-> Word(v[i])] = <<Word(a), Word(b)>>
  BY DEF TwoIn
<1>2. Listed(Word(a)) /\ Listed(Word(b))
  BY BytesListed DEF Word
<1>3. Words(v) = Word(a) \o Word(b)
  BY <1>1, <1>2, FlattenFew DEF Words, Word
<1>4. Singles(v) = <<ByteRow(a), ByteRow(b)>>
  BY DEF Singles, TwoIn
<1>5. <<ByteRow(a)>> \o <<ByteRow(b)>> = <<ByteRow(a), ByteRow(b)>>
  BY TwoSingles
<1>6. Byte(a) = <<ByteRow(a)>> /\ Byte(b) = <<ByteRow(b)>>
  BY DEF Byte, ByteRow
<1> QED
  BY <1>3, <1>4, <1>5, <1>6

LEMMA ThreeWords ==
  ASSUME NEW v, NEW a, NEW b, NEW c, ThreeIn(v, a, b, c)
  PROVE  Words(v) = (Word(a) \o Word(b)) \o Word(c)
<1>1. PICK w : w = [i \in DOMAIN v |-> Word(v[i])]
  OBVIOUS
<1>2. w = <<Word(a), Word(b), Word(c)>>
  BY <1>1 DEF ThreeIn
<1>3. Listed(Word(a)) /\ Listed(Word(b)) /\ Listed(Word(c))
  BY BytesListed DEF Word
<1>4. Triple(w, Word(a), Word(b), Word(c))
  BY <1>2, <1>3 DEF Triple
<1>5. FlattenSeq(w) = (Word(a) \o Word(b)) \o Word(c)
  BY <1>4, FlattenOfThree
<1> QED
  BY <1>1, <1>5 DEF Words, Word

LEMMA NoWords == Words(<<>>) = <<>> /\ Singles(<<>>) = <<>>
<1>1. PICK v : v = <<>>
  OBVIOUS
<1>2. [i \in DOMAIN v |-> Bytes(LimbsOf(v[i]))] = <<>>
  BY <1>1
<1>3. Singles(<<>>) = <<>>
  BY DEF Singles
<1> QED
  BY <1>1, <1>2, <1>3, FlattenEmpty DEF Words

\* All that is counted for a step.
CountsOf(s) == ((ByteCounts(s) \o LogicCounts(s)) \o ByteSllCounts(s)) \o ByteSrlCounts(s)

LogicOps == {"Xor", "XorI", "Or", "OriI", "And", "AndiI"}

LEMMA OnlyBytes ==
  ASSUME NEW s, s.op \notin LogicOps \cup Shifts,
         Listed(ByteCounts(s))
  PROVE  CountsOf(s) = ByteCounts(s)
<1>1. LogicCounts(s) = <<>>
  BY DEF LogicCounts, LogicOps
<1>2. ByteSllCounts(s) = <<>> /\ ByteSrlCounts(s) = <<>>
  BY DEF ByteSllCounts, ByteSrlCounts, Shifts
<1> QED
  BY <1>1, <1>2, ListedJoin DEF CountsOf

\* What is counted for an instruction without single bytes.
LEMMA WordCounts ==
  ASSUME NEW s, Listed(Words(ByteCheckedVals(s))), ByteCheckedSingles(s) = <<>>
  PROVE  ByteCounts(s) = Words(ByteCheckedVals(s))
<1>1. ByteCounts(s) = Words(ByteCheckedVals(s)) \o <<>>
  BY CountsAreWords, NoWords
<1> QED
  BY <1>1, ListedJoin

\* The lookups of a row are what its step is counted for, in another order.
Matched(s) == Rearranged(CountsOf(s), Lookups(s.op, Row(s)))

LEMMA EqualMatched ==
  ASSUME NEW s, Listed(CountsOf(s)), CountsOf(s) = Lookups(s.op, Row(s))
  PROVE  Matched(s)
  BY RearrangedEquivalence DEF Matched

\* An instruction without single bytes that looks its words up in the order counted.
Plain(s) ==
  /\ s.op \notin LogicOps \cup Shifts
  /\ Listed(Words(ByteCheckedVals(s))) /\ ByteCheckedSingles(s) = <<>>
  /\ Lookups(s.op, Row(s)) = Words(ByteCheckedVals(s))

LEMMA PlainMatched ==
  ASSUME NEW s, Plain(s)
  PROVE  Matched(s)
<1>1. ByteCounts(s) = Words(ByteCheckedVals(s)) /\ Listed(ByteCounts(s))
  BY WordCounts DEF Plain
<1>2. CountsOf(s) = ByteCounts(s)
  BY <1>1, OnlyBytes DEF Plain
<1> QED
  BY <1>1, <1>2, EqualMatched DEF Plain

\* The words of a row that are operands and results.
LEMMA RowWords ==
  ASSUME NEW s, s.op \in Ops
  PROVE  /\ Bytes(Row(s).rs1_value) = Word(s.rs1_value) /\ Bytes(Row(s).rs2_value) = Word(s.rs2_value)
         /\ Bytes(Row(s).rd_new_value) = Word(s.rd_val) /\ Bytes(Row(s).pc) = Word(s.pc)
<1>1. HasValues(Row(s), s)
  BY RowColumns
<1>2. Row(s).pc = LimbsOf(s.pc)
  <2>1. CASE s.op \notin {"Jal", "Jalr"}
    BY <2>1, RowColumns DEF HasPc
  <2>2. CASE s.op = "Jal"
    BY <2>2, RowColumns DEF HasLink
  <2>3. CASE s.op = "Jalr"
    BY <2>3, RowColumns DEF HasLink
  <2> QED
    BY <2>1, <2>2, <2>3
<1> QED
  BY <1>1, <1>2 DEF HasValues, Word

LEMMA JoinedWords ==
  ASSUME NEW a, NEW b, NEW c
  PROVE  /\ Listed(Word(a)) /\ Listed(Word(a) \o Word(b))
         /\ Listed((Word(a) \o Word(b)) \o Word(c))
<1>1. Listed(Word(a)) /\ Listed(Word(b)) /\ Listed(Word(c))
  BY BytesListed DEF Word
<1>2. Listed(Word(a) \o Word(b))
  BY <1>1, ListedJoin
<1> QED
  BY <1>1, <1>2, ListedJoin

LEMMA ArithmeticMatched ==
  ASSUME NEW s, s.op \in {"Add", "Sub", "AddI", "Lui"}
  PROVE  Matched(s)
<1>1. ByteCheckedSingles(s) = <<>> /\ s.op \in Ops
  BY DEF ByteCheckedSingles, Ops
<1>2. CASE s.op \in {"Add", "Sub"}
  <2>1. ThreeIn(ByteCheckedVals(s), s.rs1_value, s.rs2_value, s.rd_val)
    BY <1>2 DEF ByteCheckedVals, ThreeIn
  <2>2. Words(ByteCheckedVals(s)) = (Word(s.rs1_value) \o Word(s.rs2_value)) \o Word(s.rd_val)
    BY <2>1, ThreeWords
  <2>3. Lookups(s.op, Row(s)) = Words(ByteCheckedVals(s))
    BY <1>1, <1>2, <2>2, RowWords DEF Lookups, AddLookups, SubLookups
  <2>4. Listed(Words(ByteCheckedVals(s)))
    BY <2>2, JoinedWords
  <2> QED
    BY <1>1, <1>2, <2>3, <2>4, PlainMatched DEF Plain, LogicOps, Shifts
<1>3. CASE s.op = "AddI"
  <2>1. TwoIn(ByteCheckedVals(s), s.rs1_value, s.rd_val)
    BY <1>3 DEF ByteCheckedVals, TwoIn
  <2>2. Words(ByteCheckedVals(s)) = Word(s.rs1_value) \o Word(s.rd_val)
    BY <2>1, TwoWords
  <2>3. Lookups(s.op, Row(s)) = Words(ByteCheckedVals(s))
    BY <1>1, <1>3, <2>2, RowWords DEF Lookups, AddILookups
  <2>4. Listed(Words(ByteCheckedVals(s)))
    BY <2>2, JoinedWords
  <2> QED
    BY <1>1, <1>3, <2>3, <2>4, PlainMatched DEF Plain, LogicOps, Shifts
<1>4. CASE s.op = "Lui"
  <2>1. OneIn(ByteCheckedVals(s), s.rd_val)
    BY <1>4 DEF ByteCheckedVals, OneIn
  <2>2. Words(ByteCheckedVals(s)) = Word(s.rd_val)
    BY <2>1, OneWord
  <2>3. Lookups(s.op, Row(s)) = Words(ByteCheckedVals(s))
    BY <1>1, <1>4, <2>2, RowWords DEF Lookups, LuiLookups
  <2>4. Listed(Words(ByteCheckedVals(s)))
    BY <2>2, JoinedWords
  <2> QED
    BY <1>1, <1>4, <2>3, <2>4, PlainMatched DEF Plain, LogicOps, Shifts
<1> QED
  BY <1>2, <1>3, <1>4

\* A jump's counts hold the link it writes, though a Jalr to x0 writes none.
LEMMA JumpMatched ==
  ASSUME NEW s \in StepsFrom(Inputs), s.op \in {"Jal", "Jalr"}
  PROVE  Matched(s)
<1>1. ByteCheckedSingles(s) = <<>> /\ s.op \in Ops
  BY DEF ByteCheckedSingles, Ops
<1>2. CASE s.op = "Jal"
  <2>1. s.rd_val = (s.pc + 4) % Size
    <3>1. s.rd_val = Logged(s)
      BY StepFields
    <3> QED
      BY <1>2, <3>1 DEF Logged, RegisterOps
  <2>2. TwoIn(ByteCheckedVals(s), s.pc, s.rd_val)
    BY <1>2, <2>1 DEF ByteCheckedVals, TwoIn
  <2>3. Words(ByteCheckedVals(s)) = Word(s.pc) \o Word(s.rd_val)
    BY <2>2, TwoWords
  <2>4. Lookups(s.op, Row(s)) = Words(ByteCheckedVals(s))
    BY <1>1, <1>2, <2>3, RowWords DEF Lookups, JalLookups
  <2>5. Listed(Words(ByteCheckedVals(s)))
    BY <2>3, JoinedWords
  <2> QED
    BY <1>1, <1>2, <2>4, <2>5, PlainMatched DEF Plain, LogicOps, Shifts
<1>3. CASE s.op = "Jalr"
  <2>1. TwoIn(ByteCheckedVals(s), s.rs1_value, s.rd_val)
    BY <1>3 DEF ByteCheckedVals, TwoIn
  <2>2. Words(ByteCheckedVals(s)) = Word(s.rs1_value) \o Word(s.rd_val)
    BY <2>1, TwoWords
  <2>3. Lookups(s.op, Row(s)) = Words(ByteCheckedVals(s))
    BY <1>1, <1>3, <2>2, RowWords DEF Lookups, JalrLookups
  <2>4. Listed(Words(ByteCheckedVals(s)))
    BY <2>2, JoinedWords
  <2> QED
    BY <1>1, <1>3, <2>3, <2>4, PlainMatched DEF Plain, LogicOps, Shifts
<1> QED
  BY <1>2, <1>3

\* The difference a comparison looks up is the word counted.
LEMMA DifferenceWord ==
  ASSUME NEW s, HonestStep(s), s.op \in Comparisons
  PROVE  LET y == IF s.op \in RegisterOps THEN s.rs2_value ELSE s.imm
         IN  Bytes(Row(s).diff_bytes) = Word((s.rs1_value - y) % Size)
<1>1. PICK x \in Int : x = s.rs1_value
  BY HonestOperands
<1>2. PICK y \in Int : y = IF s.op \in RegisterOps THEN s.rs2_value ELSE s.imm
  BY HonestOperands
<1>3. Row(s).diff_bytes = SubDiff(x, y)
  BY <1>1, <1>2, CompareColumnsOf
<1>4. SubDiff(x, y) = LimbsOf((x - y) % Size)
  BY SubGadget
<1> QED
  BY <1>1, <1>2, <1>3, <1>4 DEF Word

LEMMA UnsignedMatched ==
  ASSUME NEW s, HonestStep(s), s.op \in {"Sltu", "SltiuI"}
  PROVE  Matched(s)
<1>1. ByteCheckedSingles(s) = <<>> /\ s.op \in Ops /\ s.op \in Comparisons
  BY DEF ByteCheckedSingles, Ops, Comparisons
<1>2. CASE s.op = "Sltu"
  <2>1. PICK d : d = (s.rs1_value - s.rs2_value) % Size
    OBVIOUS
  <2>2. ThreeIn(ByteCheckedVals(s), s.rs1_value, s.rs2_value, d)
    BY <1>2, <2>1 DEF ByteCheckedVals, ThreeIn
  <2>3. Words(ByteCheckedVals(s)) = (Word(s.rs1_value) \o Word(s.rs2_value)) \o Word(d)
    BY <2>2, ThreeWords
  <2>4. Bytes(Row(s).diff_bytes) = Word(d)
    BY <1>1, <1>2, <2>1, DifferenceWord DEF RegisterOps
  <2>5. Lookups(s.op, Row(s)) = Words(ByteCheckedVals(s))
    BY <1>1, <1>2, <2>3, <2>4, RowWords DEF Lookups, SltuLookups
  <2>6. Listed(Words(ByteCheckedVals(s)))
    BY <2>3, JoinedWords
  <2> QED
    BY <1>1, <1>2, <2>5, <2>6, PlainMatched DEF Plain, LogicOps, Shifts
<1>3. CASE s.op = "SltiuI"
  <2>1. PICK d : d = (s.rs1_value - s.imm) % Size
    OBVIOUS
  <2>2. TwoIn(ByteCheckedVals(s), s.rs1_value, d)
    BY <1>3, <2>1 DEF ByteCheckedVals, TwoIn
  <2>3. Words(ByteCheckedVals(s)) = Word(s.rs1_value) \o Word(d)
    BY <2>2, TwoWords
  <2>4. Bytes(Row(s).diff_bytes) = Word(d)
    BY <1>1, <1>3, <2>1, DifferenceWord DEF RegisterOps
  <2>5. Lookups(s.op, Row(s)) = Words(ByteCheckedVals(s))
    BY <1>1, <1>3, <2>3, <2>4, RowWords DEF Lookups, SltiuILookups
  <2>6. Listed(Words(ByteCheckedVals(s)))
    BY <2>3, JoinedWords
  <2> QED
    BY <1>1, <1>3, <2>5, <2>6, PlainMatched DEF Plain, LogicOps, Shifts
<1> QED
  BY <1>2, <1>3

\* An instruction with single bytes, looked up in any order.
Counted(s) ==
  /\ s.op \notin LogicOps \cup Shifts
  /\ Listed(Words(ByteCheckedVals(s))) /\ Listed(Singles(ByteCheckedSingles(s)))
  /\ Rearranged(Words(ByteCheckedVals(s)) \o Singles(ByteCheckedSingles(s)), Lookups(s.op, Row(s)))

LEMMA CountedMatched ==
  ASSUME NEW s, Counted(s)
  PROVE  Matched(s)
<1>1. ByteCounts(s) = Words(ByteCheckedVals(s)) \o Singles(ByteCheckedSingles(s))
  BY CountsAreWords
<1>2. Listed(ByteCounts(s))
  BY <1>1, ListedJoin DEF Counted
<1>3. CountsOf(s) = ByteCounts(s)
  BY <1>2, OnlyBytes DEF Counted
<1> QED
  BY <1>1, <1>3 DEF Counted, Matched

\* The low bits of the top limb, as the builders take them from the word.
LEMMA LowOfTop ==
  ASSUME NEW w \in 0 .. Size - 1
  PROVE  (w \div 2 ^ (LimbBits * Top)) % 2 ^ (LimbBits - 1) = TopLow(w)
BY TopLimb DEF TopLow, Weight

LEMMA LowColumns ==
  ASSUME NEW s, s.op \in {"Slt", "SltiI"}
  PROVE  /\ Row(s).rs1_byte3_low7 = TopLow(s.rs1_value)
         /\ s.op = "Slt" => Row(s).rs2_byte3_low7 = TopLow(s.rs2_value)
<1>1. CASE s.op = "Slt"
  <2>1. PICK a : a = RegisterColumns(s) ++
                     CompareColumns(s.rs1_value, s.rs2_value, Signed(s.rs1_value) < Signed(s.rs2_value))
    OBVIOUS
  <2>2. {"rs1_byte3_low7", "rs2_byte3_low7"} \cap DOMAIN a = {}
    BY <2>1 DEF RegisterColumns, PcColumns, ValueColumns, CompareColumns, ++
  <2>3. PICK g : g = [sign_rs1 |-> SignOf(s.rs1_value), rs1_byte3_low7 |-> TopLow(s.rs1_value),
                      sign_rs2 |-> SignOf(s.rs2_value), rs2_byte3_low7 |-> TopLow(s.rs2_value)]
    OBVIOUS
  <2>4. (a ++ g).rs1_byte3_low7 = TopLow(s.rs1_value) /\ (a ++ g).rs2_byte3_low7 = TopLow(s.rs2_value)
    BY <2>2, <2>3 DEF ++
  <2>5. Row(s) = a ++ g
    BY <1>1, <2>1, <2>3 DEF Row, SltRow
  <2> QED
    BY <1>1, <2>4, <2>5
<1>2. CASE s.op = "SltiI"
  <2>1. PICK i : i = RegisterColumns(s) ++ ImmColumns(s)
    OBVIOUS
  <2>2. "rs1_byte3_low7" \notin DOMAIN i
    BY <2>1 DEF RegisterColumns, PcColumns, ValueColumns, ImmColumns, ++
  <2>3. PICK a : a = i ++ CompareColumns(s.rs1_value, s.imm, Signed(s.rs1_value) < Signed(s.imm))
    OBVIOUS
  <2>4. "rs1_byte3_low7" \notin DOMAIN a
    BY <2>2, <2>3 DEF CompareColumns, ++
  <2>5. PICK g : g = [sign_rs1 |-> SignOf(s.rs1_value), rs1_byte3_low7 |-> TopLow(s.rs1_value)]
    OBVIOUS
  <2>6. (a ++ g).rs1_byte3_low7 = TopLow(s.rs1_value)
    BY <2>4, <2>5 DEF ++
  <2>7. Row(s) = a ++ g
    BY <1>2, <2>1, <2>3, <2>5 DEF Row, SltiIRow
  <2> QED
    BY <1>2, <2>6, <2>7
<1> QED
  BY <1>1, <1>2

LEMMA SignedMatched ==
  ASSUME NEW s, HonestStep(s), s.op \in {"Slt", "SltiI"}
  PROVE  Matched(s)
<1>1. s.op \in Ops /\ s.op \in Comparisons
  BY DEF Ops, Comparisons
<1>2. PICK b : b = TopLow(s.rs1_value)
  OBVIOUS
<1>3. PICK c : c = TopLow(s.rs2_value)
  OBVIOUS
<1>4. /\ (s.rs1_value \div 2 ^ (LimbBits * Top)) % 2 ^ (LimbBits - 1) = b
      /\ (s.rs2_value \div 2 ^ (LimbBits * Top)) % 2 ^ (LimbBits - 1) = c
  BY <1>2, <1>3, HonestOperands, LowOfTop
<1>5. Listed(Byte(b)) /\ Listed(Byte(c))
  BY ByteListed
<1>6. CASE s.op = "Slt"
  <2>1. PICK d : d = (s.rs1_value - s.rs2_value) % Size
    OBVIOUS
  <2>2. ThreeIn(ByteCheckedVals(s), s.rs1_value, s.rs2_value, d)
    BY <1>6, <2>1 DEF ByteCheckedVals, ThreeIn
  <2>3. Words(ByteCheckedVals(s)) = (Word(s.rs1_value) \o Word(s.rs2_value)) \o Word(d)
    BY <2>2, ThreeWords
  <2>4. TwoIn(ByteCheckedSingles(s), b, c)
    BY <1>4, <1>6 DEF ByteCheckedSingles, TwoIn
  <2>5. Singles(ByteCheckedSingles(s)) = Byte(b) \o Byte(c)
    BY <2>4, TwoWords
  <2>6. PICK w : w = (Word(s.rs1_value) \o Word(s.rs2_value)) \o Word(d) /\ Listed(w)
    BY JoinedWords
  <2>7. Bytes(Row(s).diff_bytes) = Word(d)
    BY <1>1, <1>6, <2>1, DifferenceWord DEF RegisterOps
  <2>8. Row(s).rs1_byte3_low7 = b /\ Row(s).rs2_byte3_low7 = c
    BY <1>2, <1>3, <1>6, LowColumns
  <2>9. Lookups(s.op, Row(s)) = (w \o Byte(b)) \o Byte(c)
    BY <1>1, <1>6, <2>6, <2>7, <2>8, RowWords DEF Lookups, SltLookups
  <2>10. (w \o Byte(b)) \o Byte(c) = w \o (Byte(b) \o Byte(c)) /\ Listed(Byte(b) \o Byte(c))
    BY <1>5, <2>6, ListedJoin
  <2>11. Rearranged(w \o (Byte(b) \o Byte(c)), w \o (Byte(b) \o Byte(c)))
    BY <2>6, <2>10, ListedJoin, RearrangedEquivalence
  <2> QED
    BY <1>6, <2>3, <2>5, <2>6, <2>9, <2>10, <2>11, CountedMatched DEF Counted, LogicOps, Shifts
<1>7. CASE s.op = "SltiI"
  <2>1. PICK d : d = (s.rs1_value - s.imm) % Size
    OBVIOUS
  <2>2. TwoIn(ByteCheckedVals(s), s.rs1_value, d)
    BY <1>7, <2>1 DEF ByteCheckedVals, TwoIn
  <2>3. Words(ByteCheckedVals(s)) = Word(s.rs1_value) \o Word(d)
    BY <2>2, TwoWords
  <2>4. OneIn(ByteCheckedSingles(s), b)
    BY <1>4, <1>7 DEF ByteCheckedSingles, OneIn
  <2>5. Singles(ByteCheckedSingles(s)) = Byte(b)
    BY <2>4, OneWord
  <2>6. PICK w : w = Word(s.rs1_value) \o Word(d) /\ Listed(w)
    BY JoinedWords
  <2>7. Bytes(Row(s).diff_bytes) = Word(d)
    BY <1>1, <1>7, <2>1, DifferenceWord DEF RegisterOps
  <2>8. Row(s).rs1_byte3_low7 = b
    BY <1>2, <1>7, LowColumns
  <2>9. Lookups(s.op, Row(s)) = w \o Byte(b)
    BY <1>1, <1>7, <2>6, <2>7, <2>8, RowWords DEF Lookups, SltiILookups
  <2>10. Rearranged(w \o Byte(b), w \o Byte(b))
    BY <1>5, <2>6, ListedJoin, RearrangedEquivalence
  <2> QED
    BY <1>5, <1>7, <2>3, <2>5, <2>6, <2>9, <2>10, CountedMatched DEF Counted, LogicOps, Shifts
<1> QED
  BY <1>6, <1>7

\* The limbs of the immediate but the lowest, looked up one by one.
LEMMA TailSingles ==
  ASSUME NEW x
  PROVE  /\ Singles([i \in 1 .. Top |-> x[i]]) = SubSeq(Bytes(x), 2, NumLimbs)
         /\ Listed(SubSeq(Bytes(x), 2, NumLimbs))
<1>1. PICK n \in Nat : n = NumLimbs /\ n >= 2
  BY Geometry
<1>2. PICK s : s = Bytes(x)
  OBVIOUS
<1>3. s = [i \in 1 .. n |-> <<"bytes", x[i - 1]>>]
  BY <1>1, <1>2 DEF Bytes, LimbwiseSeq
<1>4. PICK S : S = {s[k] : k \in 1 .. n}
  OBVIOUS
<1>5. s \in Seq(S) /\ Len(s) = n
  BY <1>3, <1>4
<1>6. PICK m \in Nat : m = n - 1 /\ m = Top
  BY <1>1 DEF Top
<1>7. PICK u : u = SubSeq(s, 2, n)
  OBVIOUS
<1>8. u \in Seq(S) /\ Len(u) = m /\ \A k \in 1 .. m : u[k] = s[2 + k - 1]
  BY <1>1, <1>5, <1>6, <1>7, SubSeqProperties
<1>9. \A k \in 1 .. m : 2 + k - 1 \in 1 .. n /\ (2 + k - 1) - 1 = k
  BY <1>6
<1>10. \A k \in 1 .. m : u[k] = <<"bytes", x[k]>>
  BY <1>3, <1>8, <1>9
<1>11. DOMAIN u = 1 .. m /\ u = [k \in 1 .. m |-> u[k]]
  BY <1>8
<1>12. u = [k \in 1 .. m |-> <<"bytes", x[k]>>]
  BY <1>10, <1>11
<1>13. Singles([i \in 1 .. m |-> x[i]]) = [k \in 1 .. m |-> <<"bytes", x[k]>>]
  BY DEF Singles, ByteRow
<1> QED
  BY <1>1, <1>2, <1>6, <1>7, <1>11, <1>12, <1>13 DEF Listed

LEMMA AuipcMatched ==
  ASSUME NEW s, s.op = "Auipc"
  PROVE  Matched(s)
<1>1. s.op \in Ops
  BY DEF Ops
<1>2. PICK u : u = LimbsOf(Upper(s.imm))
  OBVIOUS
<1>3. Row(s).imm_u = u
  <2>1. PICK a : a = RegisterColumns(s) ++ UpperColumns(s)
    OBVIOUS
  <2>2. "imm_u" \notin DOMAIN a
    BY <2>1 DEF RegisterColumns, PcColumns, ValueColumns, UpperColumns, ++
  <2>3. PICK g : g = [imm_u |-> u, add_carries |-> AddCarries(s.pc, Upper(s.imm))]
    OBVIOUS
  <2>4. (a ++ g).imm_u = u
    BY <2>2, <2>3 DEF ++
  <2>5. Row(s) = a ++ g
    BY <1>2, <2>1, <2>3 DEF Row, AuipcRow
  <2> QED
    BY <2>4, <2>5
<1>4. TwoIn(ByteCheckedVals(s), s.pc, s.rd_val)
  BY DEF ByteCheckedVals, TwoIn
<1>5. Words(ByteCheckedVals(s)) = Word(s.pc) \o Word(s.rd_val)
  BY <1>4, TwoWords
<1>6. ByteCheckedSingles(s) = [i \in 1 .. Top |-> u[i]]
  BY <1>2 DEF ByteCheckedSingles
<1>7. PICK t : t = SubSeq(Bytes(u), 2, NumLimbs) /\ Listed(t) /\ Singles(ByteCheckedSingles(s)) = t
  BY <1>6, TailSingles
<1>8. Lookups(s.op, Row(s)) = (Word(s.pc) \o t) \o Word(s.rd_val)
  BY <1>1, <1>3, <1>7, RowWords DEF Lookups, AuipcLookups
<1>9. Listed(Word(s.pc)) /\ Listed(Word(s.rd_val)) /\ Listed(Word(s.pc) \o Word(s.rd_val))
  BY JoinedWords
<1>10. Rearranged((Word(s.pc) \o Word(s.rd_val)) \o t, (Word(s.pc) \o t) \o Word(s.rd_val))
  BY <1>7, <1>9, LastTwoSwap
<1> QED
  BY <1>5, <1>7, <1>8, <1>9, <1>10, CountedMatched DEF Counted, LogicOps, Shifts

\* The rows of the logic tables that the limbs of two words need.
LogicRows(f(_, _), bus, x, y) ==
  LimbwiseSeq(LAMBDA i : LogicRow(f, bus, LimbsOf(x)[i], LimbsOf(y)[i]))

\* The limbs are counted as the tables have them.
LEMMA LogicCounted ==
  ASSUME NEW s
  PROVE  /\ s.op \in {"Xor", "XorI"} =>
              LogicCounts(s) = LogicRows(BitXor, "bytes_xor", s.rs1_value, SecondWord(s))
         /\ s.op \in {"Or", "OriI"} =>
              LogicCounts(s) = LogicRows(BitOr, "bytes_or", s.rs1_value, SecondWord(s))
         /\ s.op \in {"And", "AndiI"} =>
              LogicCounts(s) = LogicRows(BitAnd, "bytes_and", s.rs1_value, SecondWord(s))
BY DEF LogicCounts, LogicRows, XorTableRow, OrTableRow, AndTableRow, SecondWord

LEMMA LogicLookedUp ==
  ASSUME NEW r, NEW x \in Int, NEW y \in Int, r.rs1_value = LimbsOf(x)
  PROVE  /\ r.rd_new_value = LimbsOf(Bitwise(BitXor, x, y)) =>
              BytesLogic("bytes_xor", r, LimbsOf(y)) = LogicRows(BitXor, "bytes_xor", x, y)
         /\ r.rd_new_value = LimbsOf(Bitwise(BitOr, x, y)) =>
              BytesLogic("bytes_or", r, LimbsOf(y)) = LogicRows(BitOr, "bytes_or", x, y)
         /\ r.rd_new_value = LimbsOf(Bitwise(BitAnd, x, y)) =>
              BytesLogic("bytes_and", r, LimbsOf(y)) = LogicRows(BitAnd, "bytes_and", x, y)
<1>1. PICK n \in Nat : n = NumLimbs /\ Limb = 0 .. n - 1
  BY Geometry
<1>2. PICK u : u = LimbsOf(x)
  OBVIOUS
<1>3. PICK v : v = LimbsOf(y)
  OBVIOUS
<1>4. PICK w : w = r.rd_new_value
  OBVIOUS
<1>5. ASSUME NEW bus
      PROVE  BytesLogic(bus, r, v) = [k \in 1 .. n |-> <<bus, u[k - 1], v[k - 1], w[k - 1]>>]
  BY <1>1, <1>2, <1>3, <1>4 DEF BytesLogic, LimbwiseSeq
<1>6. \A k \in 1 .. n : k - 1 \in Limb
  BY <1>1
<1>7. ASSUME w = LimbsOf(Bitwise(BitXor, x, y))
      PROVE  BytesLogic("bytes_xor", r, v) = LogicRows(BitXor, "bytes_xor", x, y)
  <2>1. \A k \in 1 .. n : w[k - 1] = Bitwise(BitXor, u[k - 1], v[k - 1])
    BY <1>2, <1>3, <1>6, <1>7, BitwiseLimb
  <2>2. LogicRows(BitXor, "bytes_xor", x, y)
          = [k \in 1 .. n |-> <<"bytes_xor", u[k - 1], v[k - 1], Bitwise(BitXor, u[k - 1], v[k - 1])>>]
    BY <1>1, <1>2, <1>3 DEF LogicRows, LogicRow, LimbwiseSeq
  <2> QED
    BY <1>5, <2>1, <2>2
<1>8. ASSUME w = LimbsOf(Bitwise(BitOr, x, y))
      PROVE  BytesLogic("bytes_or", r, v) = LogicRows(BitOr, "bytes_or", x, y)
  <2>1. \A k \in 1 .. n : w[k - 1] = Bitwise(BitOr, u[k - 1], v[k - 1])
    BY <1>2, <1>3, <1>6, <1>8, BitwiseLimb
  <2>2. LogicRows(BitOr, "bytes_or", x, y)
          = [k \in 1 .. n |-> <<"bytes_or", u[k - 1], v[k - 1], Bitwise(BitOr, u[k - 1], v[k - 1])>>]
    BY <1>1, <1>2, <1>3 DEF LogicRows, LogicRow, LimbwiseSeq
  <2> QED
    BY <1>5, <2>1, <2>2
<1>9. ASSUME w = LimbsOf(Bitwise(BitAnd, x, y))
      PROVE  BytesLogic("bytes_and", r, v) = LogicRows(BitAnd, "bytes_and", x, y)
  <2>1. \A k \in 1 .. n : w[k - 1] = Bitwise(BitAnd, u[k - 1], v[k - 1])
    BY <1>2, <1>3, <1>6, <1>9, BitwiseLimb
  <2>2. LogicRows(BitAnd, "bytes_and", x, y)
          = [k \in 1 .. n |-> <<"bytes_and", u[k - 1], v[k - 1], Bitwise(BitAnd, u[k - 1], v[k - 1])>>]
    BY <1>1, <1>2, <1>3 DEF LogicRows, LogicRow, LimbwiseSeq
  <2> QED
    BY <1>5, <2>1, <2>2
<1> QED
  BY <1>3, <1>4, <1>7, <1>8, <1>9

\* A logic instruction looks up the table rows it is counted for.
LEMMA LogicServed ==
  ASSUME NEW s, HonestStep(s), s.op \in LogicOps
  PROVE  /\ Listed(LogicCounts(s))
         /\ s.op = "Xor" => BytesLogic("bytes_xor", Row(s), Row(s).rs2_value) = LogicCounts(s)
         /\ s.op = "Or" => BytesLogic("bytes_or", Row(s), Row(s).rs2_value) = LogicCounts(s)
         /\ s.op = "And" => BytesLogic("bytes_and", Row(s), Row(s).rs2_value) = LogicCounts(s)
         /\ s.op = "XorI" => BytesLogic("bytes_xor", Row(s), Row(s).imm_se_bytes) = LogicCounts(s)
         /\ s.op = "OriI" => BytesLogic("bytes_or", Row(s), Row(s).imm_se_bytes) = LogicCounts(s)
         /\ s.op = "AndiI" => BytesLogic("bytes_and", Row(s), Row(s).imm_se_bytes) = LogicCounts(s)
<1>1. PICK x \in Int : x = s.rs1_value
  BY HonestOperands
<1>2. PICK y \in Int : y = SecondWord(s)
  BY HonestOperands DEF SecondWord
<1>3. PICK r : r = Row(s)
  OBVIOUS
<1>4. r.rs1_value = LimbsOf(x) /\ r.rd_new_value = LimbsOf(s.rd_val) /\ r.rs2_value = LimbsOf(s.rs2_value)
  BY <1>1, <1>3, RowColumns DEF HasValues, LogicOps, Ops
<1>5. s.op \in {"Xor", "Or", "And"} => r.rs2_value = LimbsOf(y)
  BY <1>2, <1>4 DEF SecondWord, RegisterOps
<1>6. s.op \in {"XorI", "OriI", "AndiI"} => r.imm_se_bytes = LimbsOf(y)
  BY <1>2, <1>3, RowImmediate DEF SecondWord, RegisterOps, HasImm, ImmOps
<1>7. s.rd_val = Logical(s.op, x, y)
  BY <1>1, <1>2 DEF HonestStep, LogicOps, Logged, RvAlu, SecondWord, RegisterOps
<1>8. CASE s.op \in {"Xor", "XorI"}
  <2>1. s.rd_val = Bitwise(BitXor, x, y)
    BY <1>7, <1>8 DEF Logical
  <2>2. BytesLogic("bytes_xor", r, LimbsOf(y)) = LogicRows(BitXor, "bytes_xor", x, y)
    BY <1>4, <2>1, LogicLookedUp
  <2>3. LogicCounts(s) = BytesLogic("bytes_xor", r, LimbsOf(y))
    BY <1>1, <1>2, <1>8, <2>2, LogicCounted
  <2> QED
    BY <1>3, <1>5, <1>6, <1>8, <2>3, LogicListed
<1>9. CASE s.op \in {"Or", "OriI"}
  <2>1. s.rd_val = Bitwise(BitOr, x, y)
    BY <1>7, <1>9 DEF Logical
  <2>2. BytesLogic("bytes_or", r, LimbsOf(y)) = LogicRows(BitOr, "bytes_or", x, y)
    BY <1>4, <2>1, LogicLookedUp
  <2>3. LogicCounts(s) = BytesLogic("bytes_or", r, LimbsOf(y))
    BY <1>1, <1>2, <1>9, <2>2, LogicCounted
  <2> QED
    BY <1>3, <1>5, <1>6, <1>9, <2>3, LogicListed
<1>10. CASE s.op \in {"And", "AndiI"}
  <2>1. s.rd_val = Bitwise(BitAnd, x, y)
    BY <1>7, <1>10 DEF Logical
  <2>2. BytesLogic("bytes_and", r, LimbsOf(y)) = LogicRows(BitAnd, "bytes_and", x, y)
    BY <1>4, <2>1, LogicLookedUp
  <2>3. LogicCounts(s) = BytesLogic("bytes_and", r, LimbsOf(y))
    BY <1>1, <1>2, <1>10, <2>2, LogicCounted
  <2> QED
    BY <1>3, <1>5, <1>6, <1>10, <2>3, LogicListed
<1> QED
  BY <1>8, <1>9, <1>10 DEF LogicOps

LEMMA LogicMatched ==
  ASSUME NEW s, HonestStep(s), s.op \in LogicOps
  PROVE  Matched(s)
<1>1. ByteCheckedSingles(s) = <<>> /\ s.op \in Ops
  BY DEF ByteCheckedSingles, LogicOps, Ops
<1>2. PICK l : l = LogicCounts(s) /\ Listed(l)
  BY LogicServed
<1>3. ByteSllCounts(s) = <<>> /\ ByteSrlCounts(s) = <<>>
  BY DEF ByteSllCounts, ByteSrlCounts, LogicOps
<1>4. CASE s.op = "Xor"
  <2>1. TwoIn(ByteCheckedVals(s), s.rs1_value, s.rs2_value)
    BY <1>4 DEF ByteCheckedVals, TwoIn
  <2>2. Words(ByteCheckedVals(s)) = Word(s.rs1_value) \o Word(s.rs2_value)
    BY <2>1, TwoWords
  <2>3. PICK w : w = Word(s.rs1_value) \o Word(s.rs2_value) /\ Listed(w)
    BY JoinedWords
  <2>4. ByteCounts(s) = w
    BY <1>1, <2>2, <2>3, WordCounts
  <2>5. CountsOf(s) = w \o l
    BY <1>2, <1>3, <2>3, <2>4, ListedJoin DEF CountsOf
  <2>6. Lookups(s.op, Row(s)) = (l \o Word(s.rs1_value)) \o Word(s.rs2_value)
    BY <1>1, <1>2, <1>4, LogicServed, RowWords DEF Lookups, XorLookups
  <2>7. Lookups(s.op, Row(s)) = l \o w
    <3>1. Listed(Word(s.rs1_value)) /\ Listed(Word(s.rs2_value))
      BY JoinedWords
    <3>2. (l \o Word(s.rs1_value)) \o Word(s.rs2_value) = l \o (Word(s.rs1_value) \o Word(s.rs2_value))
      BY <1>2, <3>1, ListedJoin
    <3> QED
      BY <2>3, <2>6, <3>2
  <2> QED
    BY <1>2, <2>3, <2>5, <2>7, LastTwoSwap DEF Matched
<1>5. CASE s.op # "Xor"
  <2>1. ByteCheckedVals(s) = <<>>
    BY <1>5 DEF ByteCheckedVals, LogicOps
  <2>2. Listed(<<>>) /\ <<>> \o l = l /\ l \o <<>> = l
    BY <1>2, ListedJoin
  <2>3. ByteCounts(s) = <<>>
    BY <1>1, <2>1, <2>2, NoWords, WordCounts
  <2>4. CountsOf(s) = l
    BY <1>2, <1>3, <2>2, <2>3 DEF CountsOf
  <2>5. Lookups(s.op, Row(s)) = l
    BY <1>2, <1>5, LogicServed DEF Lookups, OrLookups, AndLookups, XorILookups, OriILookups,
       AndiILookups, LogicOps
  <2> QED
    BY <1>2, <2>4, <2>5, EqualMatched
<1> QED
  BY <1>4, <1>5

\* The rows of the shift tables: a shift by none carries nothing.
LEMMA ShiftRows ==
  ASSUME NEW b \in 0 .. Base - 1, NEW k \in 0 .. XLEN - 1
  PROVE  LET m == k % LimbBits
         IN  /\ SllTableRow(b, m) = <<"byte_sll", b, m, (b * 2 ^ m) % Base, b \div 2 ^ (LimbBits - m)>>
             /\ SrlTableRow(b, m) = <<"byte_srl", b, m, b \div 2 ^ m, (b * 2 ^ (LimbBits - m)) % Base>>
<1>1. PICK l \in Nat : l = LimbBits
  BY Geometry
<1>2. PICK p \in Nat \ {0} : p = Base /\ p = 2 ^ l
  BY <1>1, Weights DEF Base
<1>3. PICK c \in Int : c = b
  BY <1>2
<1>4. PICK m \in Nat : m = k % LimbBits
  BY <1>1, ShiftAmount
<1>5. m = 0 => c \div 2 ^ (l - m) = 0 /\ (c * 2 ^ (l - m)) % p = 0
  <2>1. ASSUME m = 0
        PROVE  c \div 2 ^ (l - m) = 0 /\ (c * 2 ^ (l - m)) % p = 0
    <3>1. l - m = l
      BY <2>1
    <3>2. PICK o \in Int : o = 0
      OBVIOUS
    <3>3. c = p * o + c /\ c \in 0 .. p - 1
      BY <1>2, <1>3, <3>2
    <3>4. c \div p = 0
      BY <3>2, <3>3, DivisionUnique
    <3>5. PICK d \in Int : d = c * p
      OBVIOUS
    <3>6. d = p * c
      BY <3>5
    <3>7. d % p = 0
      BY <3>6, Multiple
    <3> QED
      BY <1>2, <3>1, <3>4, <3>5, <3>7
  <2> QED
    BY <2>1
<1> QED
  BY <1>1, <1>2, <1>3, <1>4, <1>5 DEF SllTableRow, SrlTableRow

\* The rows of a shift table that the limbs of a word need.
SllRows(x, m) == LimbwiseSeq(LAMBDA i : SllTableRow(LimbsOf(x)[i], m))
SrlRows(x, m) == LimbwiseSeq(LAMBDA i : SrlTableRow(LimbsOf(x)[i], m))

\* The limbs are looked up as the table has them.
LEMMA ShiftLookedUp ==
  ASSUME NEW r, NEW x \in Int, NEW k \in 0 .. XLEN - 1, r.rs1_value = LimbsOf(x), HasShift(r, k)
  PROVE  /\ HasLeftParts(r, x, k) => BytesShift("byte_sll", r) = SllRows(x, k % LimbBits)
         /\ HasRightParts(r, x, k) => BytesShift("byte_srl", r) = SrlRows(x, k % LimbBits)
<1>1. PICK n \in Nat : n = NumLimbs /\ Limb = 0 .. n - 1
  BY Geometry
<1>2. PICK u : u = LimbsOf(x) /\ \A i \in Limb : u[i] \in 0 .. Base - 1
  BY LimbStep
<1>3. \A i \in 1 .. n : i - 1 \in Limb
  BY <1>1
<1>4. PICK m : m = k % LimbBits
  OBVIOUS
<1>5. ASSUME NEW bus
      PROVE  BytesShift(bus, r)
               = [i \in 1 .. n |-> <<bus, u[i - 1], m, r.shifted_bytes[i - 1], r.carry_bytes[i - 1]>>]
  BY <1>1, <1>2, <1>4 DEF BytesShift, LimbwiseSeq, HasShift
<1>6. /\ SllRows(x, m) = [i \in 1 .. n |-> SllTableRow(u[i - 1], m)]
      /\ SrlRows(x, m) = [i \in 1 .. n |-> SrlTableRow(u[i - 1], m)]
  BY <1>1, <1>2 DEF SllRows, SrlRows, LimbwiseSeq
<1>7. ASSUME HasLeftParts(r, x, k)
      PROVE  BytesShift("byte_sll", r) = SllRows(x, m)
  <2>1. ASSUME NEW i \in 1 .. n
        PROVE  <<"byte_sll", u[i - 1], m, r.shifted_bytes[i - 1], r.carry_bytes[i - 1]>>
                 = SllTableRow(u[i - 1], m)
    <3>1. PICK j \in Limb : j = i - 1
      BY <1>3
    <3>2. PICK b \in 0 .. Base - 1 : b = u[j]
      BY <1>2
    <3>3. r.shifted_bytes[j] = (b * 2 ^ m) % Base /\ r.carry_bytes[j] = b \div 2 ^ (LimbBits - m)
      BY <1>2, <1>4, <1>7, <3>2 DEF HasLeftParts
    <3>4. SllTableRow(b, m) = <<"byte_sll", b, m, (b * 2 ^ m) % Base, b \div 2 ^ (LimbBits - m)>>
      BY <1>4, ShiftRows
    <3> QED
      BY <3>1, <3>2, <3>3, <3>4
  <2>2. BytesShift("byte_sll", r)
          = [i \in 1 .. n |-> <<"byte_sll", u[i - 1], m, r.shifted_bytes[i - 1], r.carry_bytes[i - 1]>>]
    BY <1>5
  <2>3. [i \in 1 .. n |-> <<"byte_sll", u[i - 1], m, r.shifted_bytes[i - 1], r.carry_bytes[i - 1]>>]
          = [i \in 1 .. n |-> SllTableRow(u[i - 1], m)]
    BY <2>1
  <2> QED
    BY <1>6, <2>2, <2>3
<1>8. ASSUME HasRightParts(r, x, k)
      PROVE  BytesShift("byte_srl", r) = SrlRows(x, m)
  <2>1. ASSUME NEW i \in 1 .. n
        PROVE  <<"byte_srl", u[i - 1], m, r.shifted_bytes[i - 1], r.carry_bytes[i - 1]>>
                 = SrlTableRow(u[i - 1], m)
    <3>1. PICK j \in Limb : j = i - 1
      BY <1>3
    <3>2. PICK b \in 0 .. Base - 1 : b = u[j]
      BY <1>2
    <3>3. r.shifted_bytes[j] = b \div 2 ^ m /\ r.carry_bytes[j] = (b * 2 ^ (LimbBits - m)) % Base
      BY <1>2, <1>4, <1>8, <3>2 DEF HasRightParts
    <3>4. SrlTableRow(b, m) = <<"byte_srl", b, m, b \div 2 ^ m, (b * 2 ^ (LimbBits - m)) % Base>>
      BY <1>4, ShiftRows
    <3> QED
      BY <3>1, <3>2, <3>3, <3>4
  <2>2. BytesShift("byte_srl", r)
          = [i \in 1 .. n |-> <<"byte_srl", u[i - 1], m, r.shifted_bytes[i - 1], r.carry_bytes[i - 1]>>]
    BY <1>5
  <2>3. [i \in 1 .. n |-> <<"byte_srl", u[i - 1], m, r.shifted_bytes[i - 1], r.carry_bytes[i - 1]>>]
          = [i \in 1 .. n |-> SrlTableRow(u[i - 1], m)]
    BY <2>1
  <2> QED
    BY <1>6, <2>2, <2>3
<1> QED
  BY <1>4, <1>7, <1>8

\* What is counted for a shift: its words and single bytes, then table rows.
LEMMA ShiftTail ==
  ASSUME NEW s, NEW t, NEW l, Listed(t), Rearranged(ByteCounts(s), l),
         LogicCounts(s) = <<>>, Lookups(s.op, Row(s)) = t \o l,
         \/ ByteSllCounts(s) = t /\ ByteSrlCounts(s) = <<>>
         \/ ByteSllCounts(s) = <<>> /\ ByteSrlCounts(s) = t
  PROVE  Matched(s)
<1>1. PICK b : b = ByteCounts(s) /\ Listed(b)
  BY DEF Rearranged, Rearranges
<1>2. b \o <<>> = b /\ Listed(b \o t)
  BY <1>1, ListedJoin
<1>3. (b \o t) \o <<>> = b \o t
  BY <1>2, ListedJoin
<1>4. CountsOf(s) = b \o t
  BY <1>1, <1>2, <1>3 DEF CountsOf
<1>5. Rearranged(t, t)
  BY RearrangedEquivalence
<1>6. Rearranged(b \o t, t \o l)
  BY <1>1, <1>5, RearrangedJoin
<1> QED
  BY <1>4, <1>6 DEF Matched

LEMMA ShiftCounted ==
  ASSUME NEW s
  PROVE  /\ s.op \in {"Srl", "SrliI"} =>
              /\ ByteSllCounts(s) = <<>>
              /\ ByteSrlCounts(s) = SrlRows(s.rs1_value, BitShamt(s)) \o <<>>
         /\ s.op \in {"Sra", "SraiI"} =>
              /\ ByteSllCounts(s) = <<>>
              /\ ByteSrlCounts(s) = SrlRows(s.rs1_value, BitShamt(s))
                                      \o <<SrlTableRow(Base - 1, BitShamt(s))>>
<1> DEFINE a == LimbwiseSeq(LAMBDA i : SrlTableRow(LimbsOf(s.rs1_value)[i], BitShamt(s)))
<1>2. SrlRows(s.rs1_value, BitShamt(s)) = a
  BY DEF SrlRows
<1>3. PICK b : b = <<SrlTableRow(Base - 1, BitShamt(s))>>
  OBVIOUS
<1>4. ByteSrlCounts(s) = IF s.op \in {"Srl", "Sra", "SrliI", "SraiI"}
                         THEN a \o (IF s.op \in {"Sra", "SraiI"} THEN b ELSE <<>>)
                         ELSE <<>>
  BY <1>3 DEF ByteSrlCounts
<1>5. s.op \in {"Srl", "SrliI", "Sra", "SraiI"} => ByteSllCounts(s) = <<>>
  BY DEF ByteSllCounts
<1> HIDE DEF a
<1> QED
  BY <1>2, <1>3, <1>4, <1>5

\* A shift looks up the table rows it is counted for.
ShiftPart(s) ==
  IF s.op \in {"Sll", "SlliI"} THEN BytesShift("byte_sll", Row(s))
  ELSE IF s.op \in {"Srl", "SrliI"} THEN BytesShift("byte_srl", Row(s))
  ELSE BytesShift("byte_srl", Row(s)) \o OnesShift(Row(s))

LEMMA ShiftServed ==
  ASSUME NEW s, HonestStep(s), s.op \in Shifts, s.is_dummy = 1
  PROVE  /\ Listed(ShiftPart(s)) /\ LogicCounts(s) = <<>>
         /\ \/ ByteSllCounts(s) = ShiftPart(s) /\ ByteSrlCounts(s) = <<>>
            \/ ByteSllCounts(s) = <<>> /\ ByteSrlCounts(s) = ShiftPart(s)
<1>1. PICK x \in Int : x = s.rs1_value
  BY HonestOperands
<1>2. PICK k \in 0 .. XLEN - 1 : k = Shamt(SecondWord(s))
  BY Amounts DEF SecondWord
<1>3. PICK r : r = Row(s)
  OBVIOUS
<1>4. HasShift(r, k) /\ r.rs1_value = LimbsOf(x)
  <2>1. HasValues(r, s)
    BY <1>3, RowColumns DEF Shifts, Ops
  <2> QED
    BY <1>1, <1>2, <1>3, <2>1, ShiftColumnsOf DEF HasValues
<1>5. BitShamt(s) = k % LimbBits
  BY <1>2 DEF BitShamt, SecondWord
<1>6. LogicCounts(s) = <<>>
  BY DEF LogicCounts, Shifts
<1>7. Listed(BytesShift("byte_sll", r)) /\ Listed(BytesShift("byte_srl", r)) /\ Listed(OnesShift(r))
  BY ShiftUse, SinglesUse DEF Uses
<1>8. CASE s.op \in {"Sll", "SlliI"}
  <2>1. HasLeftParts(r, x, k)
    BY <1>1, <1>2, <1>3, <1>8, ShiftColumnsOf
  <2>2. BytesShift("byte_sll", r) = SllRows(x, k % LimbBits)
    BY <1>4, <2>1, ShiftLookedUp
  <2>3. ByteSllCounts(s) = SllRows(x, k % LimbBits) /\ ByteSrlCounts(s) = <<>>
    BY <1>1, <1>5, <1>8 DEF ByteSllCounts, ByteSrlCounts, SllRows
  <2> QED
    BY <1>3, <1>6, <1>7, <1>8, <2>2, <2>3 DEF ShiftPart
<1>9. s.op \notin {"Sll", "SlliI"} => BytesShift("byte_srl", r) = SrlRows(x, k % LimbBits)
  <2>1. ASSUME s.op \notin {"Sll", "SlliI"}
        PROVE  BytesShift("byte_srl", r) = SrlRows(x, k % LimbBits)
    <3>1. HasRightParts(r, x, k)
      BY <1>1, <1>2, <1>3, <2>1, ShiftColumnsOf
    <3> QED
      BY <1>4, <3>1, ShiftLookedUp
  <2> QED
    BY <2>1
<1>10. CASE s.op \in {"Srl", "SrliI"}
  <2>1. ByteSrlCounts(s) = SrlRows(x, k % LimbBits) \o <<>> /\ ByteSllCounts(s) = <<>>
    BY <1>1, <1>5, <1>10, ShiftCounted
  <2>2. SrlRows(x, k % LimbBits) \o <<>> = SrlRows(x, k % LimbBits)
    BY <1>7, <1>9, <1>10, ListedJoin
  <2> QED
    BY <1>3, <1>6, <1>7, <1>9, <1>10, <2>1, <2>2 DEF ShiftPart
<1>11. CASE s.op \in {"Sra", "SraiI"}
  <2>1. /\ ByteSrlCounts(s) = SrlRows(x, k % LimbBits) \o <<SrlTableRow(Base - 1, k % LimbBits)>>
        /\ ByteSllCounts(s) = <<>>
    BY <1>1, <1>5, <1>11, ShiftCounted
  <2>2. OnesShift(r) = <<SrlTableRow(Base - 1, k % LimbBits)>>
    <3>1. PICK b \in 0 .. Base - 1 : b = Base - 1
      <4>1. PICK m \in Nat \ {0} : m = Base
        BY Weights
      <4> QED
        BY <4>1
    <3>2. PICK m : m = k % LimbBits
      OBVIOUS
    <3>3. SrlTableRow(b, m) = <<"byte_srl", b, m, b \div 2 ^ m, (b * 2 ^ (LimbBits - m)) % Base>>
      BY <3>2, ShiftRows
    <3>4. HasOnes(r, s, k)
      BY <1>2, <1>3, <1>11, ShiftColumnsOf
    <3>5. r.bit_shamt = m
      BY <1>4, <3>2 DEF HasShift
    <3>6. r.srl_ff_shifted = b \div 2 ^ m /\ r.srl_ff_carry = (b * 2 ^ (LimbBits - m)) % Base
      <4>1. PICK p \in Nat \ {0}, q \in Nat \ {0} : p = 2 ^ m /\ q = 2 ^ (LimbBits - m)
        BY <3>2, ShiftAmount
      <4>2. PICK d \in Int : d = Base /\ d > 0
        BY Weights
      <4>3. PICK c \in Int : c = b
        BY <4>2
      <4>4. c \div p \in Int
        BY Division
      <4>5. PICK y \in Int : y = c * q
        OBVIOUS
      <4>6. y % d \in Int
        BY <4>2, Division
      <4>7. 1 * (c \div p) = c \div p /\ 1 * (y % d) = y % d
        BY <4>4, <4>6
      <4> QED
        BY <3>1, <3>2, <3>4, <4>1, <4>2, <4>3, <4>5, <4>7 DEF HasOnes
    <3> QED
      BY <3>1, <3>2, <3>3, <3>5, <3>6 DEF OnesShift
  <2>3. Listed(BytesShift("byte_srl", r) \o OnesShift(r))
    BY <1>7, ListedJoin
  <2> QED
    BY <1>3, <1>6, <1>9, <1>11, <2>1, <2>2, <2>3 DEF ShiftPart
<1> QED
  BY <1>8, <1>10, <1>11 DEF Shifts

\* The lowest limb of a word.
LEMMA LowestLimb ==
  ASSUME NEW w \in 0 .. Size - 1
  PROVE  LimbsOf(w)[0] = w % Base
<1>1. PICK m \in Nat \ {0} : m = Size
  BY Weights, Geometry
<1>2. w \in Int
  BY <1>1
<1>3. PICK o \in Limb : o = 0
  BY Geometry
<1>4. LimbsOf(w)[o] = (w \div Weight(o)) % Base
  BY <1>2, <1>3, LimbStep
<1>5. w \div Weight(0) = w
  BY <1>2, QuotientEnds
<1> QED
  BY <1>3, <1>4, <1>5

\* The order of the words and bytes of a shift, counted and looked up.
AllListed(a, d, h, l, t) == Listed(a) /\ Listed(d) /\ Listed(h) /\ Listed(l) /\ Listed(t)

SameJoined(a, d, h, l, t) ==
  /\ Rearranged((a \o d) \o h, (a \o h) \o d)
  /\ ((t \o a) \o h) \o d = t \o ((a \o h) \o d)
  /\ Rearranged((a \o d) \o (h \o l), ((a \o h) \o d) \o l)
  /\ (((t \o a) \o h) \o d) \o l = t \o (((a \o h) \o d) \o l)

ThreeListed(a, b, c) == Listed(a) /\ Listed(b) /\ Listed(c)
Associates(a, b, c)  == (a \o b) \o c = a \o (b \o c)

LEMMA JoinAssociates ==
  ASSUME NEW a, NEW b, NEW c, ThreeListed(a, b, c)
  PROVE  Associates(a, b, c) /\ Listed(a \o b)
BY ListedJoin DEF ThreeListed, Associates

LEMMA ShiftOrder ==
  ASSUME NEW a, NEW d, NEW h, NEW l, NEW t, AllListed(a, d, h, l, t)
  PROVE  SameJoined(a, d, h, l, t)
<1>0. Listed(a) /\ Listed(d) /\ Listed(h) /\ Listed(l) /\ Listed(t)
  BY DEF AllListed
<1>1. Rearranged((a \o d) \o h, (a \o h) \o d)
  BY <1>0, LastTwoSwap
<1>2. PICK ah : ah = a \o h /\ Listed(ah)
  <2>1. ThreeListed(a, h, l)
    BY <1>0 DEF ThreeListed
  <2> QED
    BY <2>1, JoinAssociates
<1>3. PICK ad : ad = a \o d /\ Listed(ad)
  <2>1. ThreeListed(a, d, l)
    BY <1>0 DEF ThreeListed
  <2> QED
    BY <2>1, JoinAssociates
<1>4. PICK ahd : ahd = ah \o d /\ Listed(ahd)
  <2>1. ThreeListed(ah, d, l)
    BY <1>0, <1>2 DEF ThreeListed
  <2> QED
    BY <2>1, JoinAssociates
<1>5. /\ ThreeListed(t, a, h) /\ ThreeListed(t, ah, d) /\ ThreeListed(t, ahd, l)
      /\ ThreeListed(ad, h, l)
  BY <1>0, <1>2, <1>3, <1>4 DEF ThreeListed
<1>6. (t \o a) \o h = t \o ah
  BY <1>2, <1>5, JoinAssociates DEF Associates
<1>7. (t \o ah) \o d = t \o ahd
  BY <1>4, <1>5, JoinAssociates DEF Associates
<1>8. (t \o ahd) \o l = t \o (ahd \o l)
  BY <1>5, JoinAssociates DEF Associates
<1>9. ad \o (h \o l) = (ad \o h) \o l
  BY <1>5, JoinAssociates DEF Associates
<1>10. Rearranged(ad \o h, ahd)
  BY <1>1, <1>2, <1>3, <1>4
<1>11. Rearranged((ad \o h) \o l, ahd \o l)
  <2>1. Rearranged(l, l)
    BY <1>0, RearrangedEquivalence
  <2> QED
    BY <1>10, <2>1, RearrangedJoin
<1>12. Rearranged((a \o d) \o (h \o l), ((a \o h) \o d) \o l)
  BY <1>2, <1>3, <1>4, <1>9, <1>11
<1>13. ((t \o a) \o h) \o d = t \o ((a \o h) \o d)
  BY <1>2, <1>4, <1>6, <1>7
<1>14. (((t \o a) \o h) \o d) \o l = t \o (((a \o h) \o d) \o l)
  BY <1>2, <1>4, <1>8, <1>13
<1> QED
  BY <1>1, <1>12, <1>13, <1>14 DEF SameJoined

LEMMA ShiftMatched ==
  ASSUME NEW s, HonestStep(s), s.op \in Shifts, s.is_dummy = 1
  PROVE  Matched(s)
<1>1. s.op \in Ops
  BY DEF Shifts, Ops
<1>2. PICK t : /\ t = ShiftPart(s) /\ Listed(t) /\ LogicCounts(s) = <<>>
               /\ \/ ByteSllCounts(s) = t /\ ByteSrlCounts(s) = <<>>
                  \/ ByteSllCounts(s) = <<>> /\ ByteSrlCounts(s) = t
  BY ShiftServed
<1>3. ASSUME NEW l, Rearranged(ByteCounts(s), l), Lookups(s.op, Row(s)) = t \o l
      PROVE  Matched(s)
  BY <1>2, <1>3, ShiftTail
<1>4. PICK a : a = Word(s.rs2_value) /\ Listed(a) /\ Bytes(Row(s).rs2_value) = a
  BY <1>1, JoinedWords, RowWords
<1>5. PICK d : d = Word(s.rd_val) /\ Listed(d) /\ Bytes(Row(s).rd_new_value) = d
  BY <1>1, JoinedWords, RowWords
<1>6. PICK y : y = (s.rs2_value % Base) \div XLEN
  OBVIOUS
<1>7. PICK b : b = TopLow(s.rs1_value)
  OBVIOUS
<1>8. (s.rs1_value \div 2 ^ (LimbBits * Top)) % 2 ^ (LimbBits - 1) = b
  BY <1>7, HonestOperands, LowOfTop
<1>9. PICK h : h = Byte(y) /\ Listed(h)
  BY ByteListed
<1>10. PICK l : l = Byte(b) /\ Listed(l)
  BY ByteListed
<1>11. s.op \in {"Sll", "Srl", "Sra"} => Row(s).rs2_shamt_high = y
  BY <1>6, HonestOperands, LowestLimb, ShiftColumnsOf DEF HasHigh
<1>12. s.op \in {"Sra", "SraiI"} => Row(s).rs1_byte3_low7 = b
  BY <1>7, ShiftColumnsOf DEF HasOnes
<1>13. ByteCounts(s) = Words(ByteCheckedVals(s)) \o Singles(ByteCheckedSingles(s))
  BY CountsAreWords
<1>14. ASSUME s.op \in {"Sll", "Srl", "Sra"}
       PROVE  Words(ByteCheckedVals(s)) = a \o d
  <2>1. TwoIn(ByteCheckedVals(s), s.rs2_value, s.rd_val)
    BY <1>14 DEF ByteCheckedVals, TwoIn
  <2>2. Words(ByteCheckedVals(s)) = Word(s.rs2_value) \o Word(s.rd_val)
    BY <2>1, TwoWords
  <2> QED
    BY <1>4, <1>5, <2>2
<1>15. ASSUME s.op \in {"SlliI", "SrliI", "SraiI"}
       PROVE  Words(ByteCheckedVals(s)) = d
  <2>1. OneIn(ByteCheckedVals(s), s.rd_val)
    BY <1>15 DEF ByteCheckedVals, OneIn
  <2> QED
    BY <1>5, <2>1, OneWord
<1>20. AllListed(a, d, h, l, t)
  BY <1>2, <1>4, <1>5, <1>9, <1>10 DEF AllListed
<1>21. /\ Rearranged((a \o d) \o h, (a \o h) \o d)
       /\ ((t \o a) \o h) \o d = t \o ((a \o h) \o d)
       /\ Rearranged((a \o d) \o (h \o l), ((a \o h) \o d) \o l)
       /\ (((t \o a) \o h) \o d) \o l = t \o (((a \o h) \o d) \o l)
  <2>1. SameJoined(a, d, h, l, t)
    BY <1>20, ShiftOrder
  <2> QED
    BY <2>1 DEF SameJoined
<1>16. CASE s.op \in {"Sll", "Srl"}
  <2>1. OneIn(ByteCheckedSingles(s), y)
    BY <1>6, <1>16 DEF ByteCheckedSingles, OneIn
  <2>2. Singles(ByteCheckedSingles(s)) = h
    BY <1>9, <2>1, OneWord
  <2>3. ByteCounts(s) = (a \o d) \o h
    BY <1>13, <1>14, <1>16, <2>2
  <2>4. Lookups(s.op, Row(s)) = ((t \o a) \o h) \o d
    <3>1. Lookups(s.op, Row(s)) = ((t \o Bytes(Row(s).rs2_value)) \o Byte(Row(s).rs2_shamt_high))
                                   \o Bytes(Row(s).rd_new_value)
      <4>1. CASE s.op = "Sll"
        BY <1>2, <4>1 DEF Lookups, SllLookups, ShiftPart
      <4>2. CASE s.op = "Srl"
        BY <1>2, <4>2 DEF Lookups, SrlLookups, ShiftPart
      <4> QED
        BY <1>16, <4>1, <4>2
    <3> QED
      BY <1>4, <1>5, <1>9, <1>11, <1>16, <3>1
  <2>5. /\ Rearranged((a \o d) \o h, (a \o h) \o d)
        /\ ((t \o a) \o h) \o d = t \o ((a \o h) \o d)
    BY <1>21
  <2> QED
    BY <1>3, <2>3, <2>4, <2>5
<1>17. CASE s.op = "Sra"
  <2>1. TwoIn(ByteCheckedSingles(s), y, b)
    BY <1>6, <1>8, <1>17 DEF ByteCheckedSingles, TwoIn
  <2>2. Singles(ByteCheckedSingles(s)) = h \o l
    BY <1>9, <1>10, <2>1, TwoWords
  <2>3. ByteCounts(s) = (a \o d) \o (h \o l)
    BY <1>13, <1>14, <1>17, <2>2
  <2>4. Lookups(s.op, Row(s)) = (((t \o a) \o h) \o d) \o l
    <3>1. Lookups(s.op, Row(s)) = (((t \o Bytes(Row(s).rs2_value)) \o Byte(Row(s).rs2_shamt_high))
                                   \o Bytes(Row(s).rd_new_value)) \o Byte(Row(s).rs1_byte3_low7)
      BY <1>2, <1>17 DEF Lookups, SraLookups, ShiftPart
    <3> QED
      BY <1>4, <1>5, <1>9, <1>10, <1>11, <1>12, <1>17, <3>1
  <2>5. /\ Rearranged((a \o d) \o (h \o l), ((a \o h) \o d) \o l)
        /\ (((t \o a) \o h) \o d) \o l = t \o (((a \o h) \o d) \o l)
    BY <1>21
  <2> QED
    BY <1>3, <2>3, <2>4, <2>5
<1>18. CASE s.op \in {"SlliI", "SrliI"}
  <2>1. ByteCheckedSingles(s) = <<>>
    BY <1>18 DEF ByteCheckedSingles
  <2>2. Words(ByteCheckedVals(s)) = d
    BY <1>15, <1>18
  <2>3. ByteCounts(s) = d
    BY <1>5, <2>1, <2>2, WordCounts
  <2>4. Lookups(s.op, Row(s)) = t \o d
    <3>1. CASE s.op = "SlliI"
      BY <1>2, <1>5, <3>1 DEF Lookups, SlliILookups, ShiftPart
    <3>2. CASE s.op = "SrliI"
      BY <1>2, <1>5, <3>2 DEF Lookups, SrliILookups, ShiftPart
    <3> QED
      BY <1>18, <3>1, <3>2
  <2>5. Rearranged(d, d)
    BY <1>5, RearrangedEquivalence
  <2> QED
    BY <1>3, <2>3, <2>4, <2>5
<1>19. CASE s.op = "SraiI"
  <2>1. OneIn(ByteCheckedSingles(s), b)
    BY <1>8, <1>19 DEF ByteCheckedSingles, OneIn
  <2>2. Singles(ByteCheckedSingles(s)) = l
    BY <1>10, <2>1, OneWord
  <2>3. ByteCounts(s) = d \o l
    BY <1>13, <1>15, <1>19, <2>2
  <2>4. Lookups(s.op, Row(s)) = (t \o d) \o l
    BY <1>2, <1>5, <1>10, <1>12, <1>19 DEF Lookups, SraiILookups, ShiftPart
  <2>5. (t \o d) \o l = t \o (d \o l) /\ Listed(d \o l)
    BY <1>2, <1>5, <1>10, ListedJoin
  <2>6. Rearranged(d \o l, d \o l)
    BY <2>5, RearrangedEquivalence
  <2> QED
    BY <1>3, <2>3, <2>4, <2>5, <2>6
<1> QED
  BY <1>16, <1>17, <1>18, <1>19 DEF Shifts

\* Every step of a run looks up what it is counted for.
LEMMA StepMatched ==
  ASSUME NEW s \in StepsFrom(Inputs)
  PROVE  Matched(s)
<1>1. s.op \in Ops /\ s.is_dummy = 1
  BY StepFields
<1>2. s.op # "Jalr" => HonestStep(s)
  BY StepHonest
<1>3. CASE s.op \in {"Jal", "Jalr"}
  BY <1>3, JumpMatched
<1>4. CASE s.op \in {"Add", "Sub", "AddI", "Lui"}
  BY <1>4, ArithmeticMatched
<1>5. CASE s.op = "Auipc"
  BY <1>5, AuipcMatched
<1>6. CASE s.op \in {"Slt", "SltiI"}
  BY <1>2, <1>6, SignedMatched
<1>7. CASE s.op \in {"Sltu", "SltiuI"}
  BY <1>2, <1>7, UnsignedMatched
<1>8. CASE s.op \in LogicOps
  BY <1>2, <1>8, LogicMatched DEF LogicOps
<1>9. CASE s.op \in Shifts
  BY <1>1, <1>2, <1>9, ShiftMatched DEF Shifts
<1> QED
  BY <1>1, <1>3, <1>4, <1>5, <1>6, <1>7, <1>8, <1>9 DEF Ops, LogicOps, Shifts

\* A row has the flag of its step.
LEMMA RowFlag ==
  ASSUME NEW s, s.op \in Ops
  PROVE  Row(s).is_dummy = s.is_dummy
<1>1. CASE s.op \notin {"Jal", "Jalr"}
  BY <1>1, RowColumns DEF HasPc
<1>2. CASE s.op = "Jal"
  BY <1>2, RowColumns DEF HasLink
<1>3. CASE s.op = "Jalr"
  BY <1>3, RowColumns DEF HasLink
<1> QED
  BY <1>1, <1>2, <1>3

LEMMA PaddingSilent ==
  ASSUME NEW op \in Ops
  PROVE  Sends(op, PaddingRow(op)) = <<>>
<1>1. PICK s : s = [op |-> op, pc |-> 0, rd |-> 0, imm |-> 0, rs1_value |-> 0, rs2_value |-> 0,
                    rd_val |-> IF op \in {"Jal", "Jalr"} THEN 4 ELSE 0, is_dummy |-> 0]
  OBVIOUS
<1>2. s.op = op /\ s.is_dummy = 0
  BY <1>1
<1>3. PaddingRow(op) = Row(s)
  BY <1>1 DEF PaddingRow
<1> QED
  BY <1>2, <1>3, RowFlag DEF Sends

(***************************************************************************)
(* The lookups of all rows against all that is counted.                    *)
(***************************************************************************)
\* By step: what is counted, what its row looks up, its instruction.
CountedFor == [i \in DOMAIN trace |-> CountsOf(trace[i])]
LookedUp   == [i \in DOMAIN trace |-> Lookups(trace[i].op, Row(trace[i]))]
Kinds      == [i \in DOMAIN trace |-> trace[i].op]

\* By row: what the table of an instruction sends.
SentBy(op) == [i \in DOMAIN tables[op] |-> Sends(op, tables[op][i])]

LEMMA StepsMatched ==
  ASSUME TableInv
  PROVE  /\ Nested(CountedFor) /\ Nested(LookedUp)
         /\ Rearranged(FlattenSeq(CountedFor), FlattenSeq(LookedUp))
<1>1. PICK n \in Nat : n = Len(trace) /\ DOMAIN trace = 1 .. n
  BY DEF TableInv
<1>2. \A i \in 1 .. n : trace[i] \in StepsFrom(Inputs)
  BY <1>1 DEF TableInv
<1>3. PICK c : c = CountedFor
  OBVIOUS
<1>4. PICK d : d = LookedUp
  OBVIOUS
<1>5. /\ DOMAIN c = 1 .. n /\ c = [i \in 1 .. n |-> c[i]]
      /\ \A i \in 1 .. n : c[i] = CountsOf(trace[i])
  BY <1>1, <1>3 DEF CountedFor
<1>6. /\ DOMAIN d = 1 .. n /\ d = [i \in 1 .. n |-> d[i]]
      /\ \A i \in 1 .. n : d[i] = Lookups(trace[i].op, Row(trace[i]))
  BY <1>1, <1>4 DEF LookedUp
<1>7. \A i \in 1 .. n : Rearranged(c[i], d[i])
  BY <1>2, <1>5, <1>6, StepMatched DEF Matched
<1>8. Listed(c) /\ Listed(d)
  BY <1>5, <1>6 DEF Listed
<1>9. \A i \in 1 .. n : Listed(c[i]) /\ Listed(d[i])
  BY <1>7 DEF Rearranged, Rearranges
<1>10. Nested(c) /\ Nested(d)
  BY <1>5, <1>6, <1>8, <1>9 DEF Nested
<1>11. PICK A : A = 1 .. n
  OBVIOUS
<1>12. PICK h : h = [i \in A |-> i]
  OBVIOUS
<1>13. h \in Bijection(A, A)
  BY <1>12, BijectionIs
<1>14. BlocksMatch(h, A, A, c, d)
  BY <1>5, <1>6, <1>7, <1>10, <1>11, <1>12, <1>13 DEF BlocksMatch
<1> QED
  BY <1>3, <1>4, <1>10, <1>14, BlocksRearranged

\* A table sends what the rows of its steps look up; the padding rows send nothing.
LEMMA TableMatched ==
  ASSUME TableInv, NEW op \in DOMAIN tables
  PROVE  /\ Nested(SentBy(op))
         /\ Rearranged(FlattenSeq(Group(LookedUp, Kinds, op)), FlattenSeq(SentBy(op)))
<1>1. Generated
  <2>1. ASSUME tables = <<>>
        PROVE  FALSE
    BY <2>1
  <2> QED
    BY <2>1 DEF TableInv
<1>2. PICK n \in Nat : n = Len(trace) /\ DOMAIN trace = 1 .. n
  BY DEF TableInv
<1>3. PICK A : A = {i \in DOMAIN trace : trace[i].op = op}
  OBVIOUS
<1>4. PICK B : B = 1 .. Len(StepsOf(op))
  OBVIOUS
<1>5. /\ op \in Ops /\ RealRows(op) = B /\ B \subseteq DOMAIN tables[op]
      /\ \A i \in B : /\ StepAt(op, i) \in StepsFrom(Inputs) /\ StepAt(op, i).op = op
                      /\ tables[op][i] = Row(StepAt(op, i))
      /\ \A i \in DOMAIN tables[op] : i \notin B => tables[op][i] = PaddingRow(op)
  BY <1>4, TableShape
<1>6. PICK p \in Bijection(A, B) : \A i \in A : StepsOf(op)[p[i]] = trace[i]
  <2>1. \E p \in Bijection({i \in DOMAIN trace : trace[i].op = op}, 1 .. Len(StepsOf(op))) :
          \A i \in DOMAIN trace : trace[i].op = op => StepsOf(op)[p[i]] = trace[i]
    BY StepsSelected DEF TableInv
  <2> QED
    BY <1>3, <1>4, <2>1
<1>7. PICK k \in Nat : DOMAIN tables[op] = 1 .. k
  <2>1. StepsOf(op) \in Seq(StepsFrom(Inputs))
    BY StepsSelected DEF TableInv
  <2>2. PICK l \in Nat : l = Len(StepsOf(op))
    BY <2>1
  <2>3. NumRows(l) \in Nat
    BY NumRowsFit
  <2> QED
    BY <1>1, <2>2, <2>3 DEF Generated, Table
<1>8. PICK t : t = SentBy(op)
  OBVIOUS
<1>9. /\ DOMAIN t = 1 .. k /\ t = [i \in 1 .. k |-> t[i]]
      /\ \A i \in 1 .. k : t[i] = Sends(op, tables[op][i])
  BY <1>7, <1>8 DEF SentBy
<1>10. ASSUME NEW i \in B
       PROVE  t[i] = Lookups(op, Row(StepAt(op, i))) /\ Listed(t[i])
  <2>1. PICK s \in StepsFrom(Inputs) : s = StepAt(op, i) /\ s.op = op /\ tables[op][i] = Row(s)
    BY <1>5
  <2>2. Row(s).is_dummy = 1
    BY <1>5, <2>1, RowFlag, StepFields
  <2>3. t[i] = Lookups(op, Row(s))
    BY <1>5, <1>7, <1>9, <2>1, <2>2 DEF Sends
  <2>4. Matched(s)
    BY StepMatched
  <2> QED
    BY <2>1, <2>3, <2>4 DEF Matched, Rearranged, Rearranges
<1>11. ASSUME NEW i \in 1 .. k, i \notin B
       PROVE  t[i] = <<>>
  BY <1>5, <1>7, <1>9, <1>11, PaddingSilent
<1>12. Nested(t)
  <2>1. Listed(<<>>)
    <3>1. <<>> \in Seq({})
      OBVIOUS
    <3> QED
      BY <3>1, ListedIs
  <2>2. \A i \in 1 .. k : Listed(t[i])
    BY <1>10, <1>11, <2>1
  <2>3. Listed(t)
    BY <1>9 DEF Listed
  <2> QED
    BY <1>9, <2>2, <2>3 DEF Nested
<1>13. PICK g : g = Group(LookedUp, Kinds, op)
  OBVIOUS
<1>14. Nested(g)
  BY <1>13, StepsMatched, GroupNested
<1>15. /\ DOMAIN g = DOMAIN trace
       /\ \A i \in A : g[i] = Lookups(op, Row(trace[i]))
       /\ \A i \in DOMAIN g \ A : DOMAIN g[i] = {}
  <2>1. DOMAIN LookedUp = DOMAIN trace /\ DOMAIN Kinds = DOMAIN trace
    BY DEF LookedUp, Kinds
  <2>2. \A i \in DOMAIN trace : g[i] = IF Kinds[i] = op THEN LookedUp[i] ELSE <<>>
    BY <1>13, <2>1 DEF Group
  <2>3. \A i \in DOMAIN trace : Kinds[i] = trace[i].op /\ LookedUp[i] = Lookups(trace[i].op, Row(trace[i]))
    BY DEF LookedUp, Kinds
  <2>4. DOMAIN g = DOMAIN trace
    BY <1>13, <2>1 DEF Group
  <2>5. DOMAIN <<>> = {}
    OBVIOUS
  <2> QED
    BY <1>3, <2>2, <2>3, <2>4, <2>5
<1>16. \A i \in A : p[i] \in B
  BY <1>6, BijectionIs
<1>17. ASSUME NEW i \in A
       PROVE  Rearranged(g[i], t[p[i]])
  <2>1. PICK j \in B : j = p[i]
    BY <1>16
  <2>2. StepAt(op, j) = trace[i]
    BY <1>6, <2>1 DEF StepAt
  <2>3. t[j] = Lookups(op, Row(trace[i])) /\ Listed(t[j])
    BY <1>10, <2>2
  <2>4. g[i] = t[j] /\ Rearranged(t[j], t[j])
    BY <1>15, <2>3, RearrangedEquivalence
  <2> QED
    BY <2>1, <2>4
<1>18. A \subseteq DOMAIN g /\ B \subseteq DOMAIN t
  BY <1>3, <1>5, <1>7, <1>9, <1>15
<1>19. \A i \in DOMAIN t \ B : DOMAIN t[i] = {}
  <2>1. DOMAIN <<>> = {}
    OBVIOUS
  <2> QED
    BY <1>9, <1>11, <2>1
<1>20. BlocksMatch(p, A, B, g, t)
  BY <1>6, <1>12, <1>14, <1>15, <1>17, <1>18, <1>19 DEF BlocksMatch
<1>21. Rearranged(FlattenSeq(g), FlattenSeq(t))
  BY <1>20, BlocksRearranged
<1> QED
  BY <1>8, <1>12, <1>13, <1>21

\* What is the same up to the order has each element as often.
LEMMA SameOccurrences ==
  ASSUME NEW a, NEW b, Rearranged(a, b)
  PROVE  Occurrences(a) = Occurrences(b)
<1>1. PICK p : Rearranges(p, a, b)
  BY DEF Rearranged
<1>2. /\ p \in Bijection(DOMAIN a, DOMAIN b) /\ \A i \in DOMAIN a : b[p[i]] = a[i]
      /\ Listed(a)
  BY <1>1 DEF Rearranges
<1>3. IsFiniteSet(DOMAIN a)
  <2>1. PICK n \in Nat : DOMAIN a = 1 .. n
    BY <1>2 DEF Listed
  <2>2. IsFiniteSet(1 .. n)
    BY FS_Interval
  <2> QED
    BY <2>1, <2>2
<1>4. ToBag(a) = ToBag(b)
  BY <1>2, <1>3, SameBag
<1>5. ASSUME NEW s
      PROVE  Occurrences(s) = ToBag(s)
  BY DEF Occurrences, ToBag, ToSet, Range
<1> QED
  BY <1>4, <1>5

\* What is received is what is sent.
LEMMA ReceivedSent ==
  ASSUME TableInv, tables # <<>>
  PROVE  Sent = received
<1>1. Generated
  BY DEF TableInv
<1>2. PICK n \in Nat : n = Len(trace) /\ DOMAIN trace = 1 .. n
  BY DEF TableInv
<1>3. PICK u : u = SetToSeq(DOMAIN tables)
  OBVIOUS
<1>4. DOMAIN tables = {trace[i].op : i \in DOMAIN trace}
  BY <1>1 DEF Generated
<1>5. PICK q : q = Kinds
  OBVIOUS
<1>6. DOMAIN q = DOMAIN trace /\ \A i \in DOMAIN trace : q[i] = trace[i].op
  BY <1>5 DEF Kinds
<1>7. IsFiniteSet(DOMAIN tables)
  <2>1. q \in [DOMAIN trace -> DOMAIN tables]
    BY <1>4, <1>5 DEF Kinds
  <2>2. \A x \in DOMAIN tables : \E i \in DOMAIN trace : q[i] = x
    BY <1>4, <1>6
  <2>3. q \in Surjection(DOMAIN trace, DOMAIN tables)
    BY <2>1, <2>2 DEF Surjection
  <2>4. IsFiniteSet(DOMAIN trace)
    BY <1>2, FS_Interval
  <2> QED
    BY <2>3, <2>4, FS_Surjection
<1>8. /\ Listed(u) /\ \A m \in DOMAIN u : u[m] \in DOMAIN tables
      /\ \A m, l \in DOMAIN u : u[m] = u[l] => m = l
      /\ \A x \in DOMAIN tables : \E m \in DOMAIN u : u[m] = x
  BY <1>3, <1>7, SetListed
<1>9. PICK d : d = LookedUp
  OBVIOUS
<1>10. Nested(d) /\ DOMAIN d = DOMAIN trace
  BY <1>9, StepsMatched DEF LookedUp
<1>11. PICK e : e = [m \in DOMAIN u |-> FlattenSeq(Group(d, q, u[m]))]
  OBVIOUS
<1>12. GroupsOf(e, d, q, u)
  BY <1>4, <1>6, <1>8, <1>10, <1>11 DEF GroupsOf
<1>13. Nested(e) /\ Rearranged(FlattenSeq(d), FlattenSeq(e))
  BY <1>12, GroupsRearranged
<1>14. PICK t : t = [m \in DOMAIN u |-> FlattenSeq(SentBy(u[m]))]
  OBVIOUS
<1>15. \A m \in DOMAIN u : Rearranged(e[m], t[m])
  BY <1>5, <1>8, <1>9, <1>11, <1>14, TableMatched
<1>16. Nested(t)
  <2>1. PICK k \in Nat : DOMAIN u = 1 .. k
    BY <1>8 DEF Listed
  <2>2. DOMAIN t = 1 .. k /\ t = [m \in 1 .. k |-> t[m]]
    BY <1>14, <2>1
  <2>3. \A m \in 1 .. k : Listed(t[m])
    BY <1>15, <2>1 DEF Rearranged, Rearranges
  <2>4. Listed(t)
    BY <2>2 DEF Listed
  <2> QED
    BY <2>2, <2>3, <2>4 DEF Nested
<1>17. Rearranged(FlattenSeq(e), FlattenSeq(t))
  <2>1. PICK A : A = DOMAIN u
    OBVIOUS
  <2>2. PICK h : h = [m \in A |-> m]
    OBVIOUS
  <2>3. h \in Bijection(A, A)
    BY <2>2, BijectionIs
  <2>4. DOMAIN e = A /\ DOMAIN t = A
    BY <1>11, <1>14, <2>1
  <2>5. BlocksMatch(h, A, A, e, t)
    BY <1>13, <1>15, <1>16, <2>1, <2>2, <2>3, <2>4 DEF BlocksMatch
  <2> QED
    BY <2>5, BlocksRearranged
<1>18. PICK c : c = CountedFor /\ Rearranged(FlattenSeq(c), FlattenSeq(d))
  BY <1>9, StepsMatched
<1>19. Rearranged(FlattenSeq(c), FlattenSeq(t))
  BY <1>13, <1>17, <1>18, RearrangedEquivalence
<1>20. Occurrences(FlattenSeq(c)) = Occurrences(FlattenSeq(t))
  BY <1>19, SameOccurrences
<1>21. received = Occurrences(FlattenSeq(c))
  BY <1>1, <1>18 DEF Generated, Received, CountedFor, CountsOf
<1>22. Sent = Occurrences(FlattenSeq(t))
  BY <1>3, <1>14 DEF Sent, SentBy
<1> QED
  BY <1>20, <1>21, <1>22

\* What the rows of all tables look up, the padding rows included, is what the
\* steps were counted for, tuple by tuple and as often, for every run of steps
\* and words and limbs of any size.
THEOREM LookupsAlwaysBalanced == ListSpec => []LookupsBalanced
<1>1. TableInv => LookupsBalanced
  BY ReceivedSent DEF LookupsBalanced
<1> QED
  BY <1>1, TableInvInductive, PTL

=============================================================================
