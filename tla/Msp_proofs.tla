----------------------------- MODULE Msp_proofs -----------------------------
(***************************************************************************)
(* Theorems about the two decoders that share this module, Framing (the    *)
(* frames of MSP) and Huffman (what a dataflash read is compressed with),  *)
(* for payloads and inputs of any length.  Their loops over a sequence are *)
(* recursive functions in the models; here each is the last value of a run *)
(* (IsRun), of which there is exactly one, and what a loop computes is     *)
(* proved along its run.                                                   *)
(***************************************************************************)
EXTENDS Framing, Huffman, Integers, SequenceTheorems, FiniteSetTheorems,
        WellFoundedInduction, TLAPS

-------------------------------------------------------------------------------
(* The exclusive or of bytes. *)

\* f is a table of the exclusive or of the numbers up to m.
IsXor(f, m) == f = [x \in 0..m |-> [y \in 0..m |->
    IF x = 0 \/ y = 0 THEN x + y
    ELSE (2 * f[x \div 2][y \div 2]) + ((x + y) % 2)]]

\* One entry of such a table.
LEMMA XorAt ==
  ASSUME NEW m \in Nat, NEW f, IsXor(f, m), NEW x \in 0..m, NEW y \in 0..m
  PROVE  f[x][y] = IF x = 0 \/ y = 0 THEN x + y
                   ELSE (2 * f[x \div 2][y \div 2]) + ((x + y) % 2)
<1>1. f[x] = [z \in 0..m |-> IF x = 0 \/ z = 0 THEN x + z
                             ELSE (2 * f[x \div 2][z \div 2]) + ((x + z) % 2)]
  BY Zenon DEF IsXor
<1>. QED
  BY <1>1

\* What holds of 0, and of 2m + 1 whenever it holds of m, holds of 255: a way to go
\* from the bits of a byte to the byte.
LEMMA Doubling ==
  ASSUME NEW S, 0 \in S, \A m \in 0..127 : m \in S => (2 * m) + 1 \in S
  PROVE  255 \in S
<1>1. 1 \in S /\ 3 \in S
  <2>1. (2 * 0) + 1 \in S
    OBVIOUS
  <2>2. (2 * 1) + 1 \in S
    BY <2>1
  <2>. QED
    BY <2>1, <2>2
<1>2. (2 * 3) + 1 \in S
  BY <1>1
<1>3. (2 * 7) + 1 \in S
  BY <1>2
<1>4. (2 * 15) + 1 \in S
  BY <1>3
<1>5. (2 * 31) + 1 \in S
  BY <1>4
<1>6. (2 * 63) + 1 \in S
  BY <1>5
<1>7. (2 * 127) + 1 \in S
  BY <1>6
<1>. QED
  BY <1>7

\* Halves and last bits of the numbers up to 2m + 1.
LEMMA Halves ==
  \A m \in Nat : \A x \in 0..(2 * m) + 1 : x \div 2 \in 0..m /\ x % 2 \in 0..1
<1>1. ASSUME NEW m \in Nat, NEW x \in 0..(2 * m) + 1
      PROVE  x \div 2 \in 0..m /\ x % 2 \in 0..1
  <2>1. x = (2 * (x \div 2)) + (x % 2)
    OBVIOUS
  <2>2. x % 2 \in 0..1 /\ x \div 2 \in Nat
    OBVIOUS
  <2>. QED
    BY <2>1, <2>2
<1>. QED
  BY <1>1

\* Halving takes back the doubling.
LEMMA Quotient ==
  \A a \in Nat : \A p \in 0..1 : ((2 * a) + p) \div 2 = a /\ ((2 * a) + p) % 2 = p
OBVIOUS

\* The last bit, added twice, is gone.
LEMMA Parity ==
  \A x \in Nat : \A y \in Nat : \A v \in Nat : v % 2 = (x + y) % 2 => (v + y) % 2 = x % 2
<1>1. ASSUME NEW x \in Nat, NEW y \in Nat, NEW v \in Nat, v % 2 = (x + y) % 2
      PROVE  (v + y) % 2 = x % 2
  <2>1. /\ v = (2 * (v \div 2)) + (v % 2) /\ v \div 2 \in Nat /\ v % 2 \in 0..1
        /\ x + y = (2 * ((x + y) \div 2)) + ((x + y) % 2) /\ (x + y) \div 2 \in Nat
    OBVIOUS
  <2>2. v + y = (2 * ((v \div 2) - ((x + y) \div 2) + y)) + x
    BY <1>1, <2>1
  <2>3. x = (2 * (x \div 2)) + (x % 2) /\ x % 2 \in 0..1 /\ x \div 2 \in Nat
    OBVIOUS
  <2>. DEFINE a == (v \div 2) - ((x + y) \div 2) + y + (x \div 2)
  <2>4. a \in Int /\ v + y = (2 * a) + (x % 2)
    BY <2>1, <2>2, <2>3
  <2>5. a \in Nat
    BY <2>3, <2>4
  <2>. HIDE DEF a
  <2>. QED
    BY <2>3, <2>4, <2>5, Quotient
<1>. QED
  BY <1>1

\* A table up to m gives one up to 2m + 1.
LEMMA XorDoubles ==
  ASSUME NEW m \in Nat, NEW f, IsXor(f, m)
  PROVE  \E g : IsXor(g, (2 * m) + 1)
<1>. DEFINE k == (2 * m) + 1
            g == [x \in 0..k |-> [y \in 0..k |->
                    IF x = 0 \/ y = 0 THEN x + y
                    ELSE (2 * f[x \div 2][y \div 2]) + ((x + y) % 2)]]
<1>1. ASSUME NEW x \in 0..m, NEW y \in 0..m PROVE f[x][y] = g[x][y]
  <2>1. x \in 0..k /\ y \in 0..k
    OBVIOUS
  <2>. QED
    BY <2>1, XorAt
<1>2. \A x \in 0..k : x \div 2 \in 0..m
  BY Halves
<1>3. g = [x \in 0..k |-> [y \in 0..k |->
                    IF x = 0 \/ y = 0 THEN x + y
                    ELSE (2 * g[x \div 2][y \div 2]) + ((x + y) % 2)]]
  BY <1>1, <1>2
<1>. QED
  BY <1>3 DEF IsXor

\* xor, defined in Framing by recursion on the halves of its arguments, is such a
\* table of the bytes.
LEMMA XorDef == IsXor(xor, 255)
<1>0. \E f : IsXor(f, 0)
  <2>. DEFINE f == [x \in 0..0 |-> [y \in 0..0 |-> 0]]
  <2>1. f = [x \in 0..0 |-> [y \in 0..0 |->
               IF x = 0 \/ y = 0 THEN x + y
               ELSE (2 * f[x \div 2][y \div 2]) + ((x + y) % 2)]]
    OBVIOUS
  <2>2. IsXor(f, 0)
    BY <2>1 DEF IsXor
  <2>. QED
    BY <2>2
<1>. DEFINE S == {m \in Nat : \E f : IsXor(f, m)}
<1>1. 0 \in S
  BY <1>0
<1>2. \A m \in Nat : m \in S => (2 * m) + 1 \in S
  BY XorDoubles
<1>. HIDE DEF S
<1>3. \E f : IsXor(f, 255)
  <2>1. 255 \in S
    BY <1>1, <1>2, Doubling
  <2>. QED
    BY <2>1 DEF S
<1>4. xor = CHOOSE f : IsXor(f, 255)
  BY DEF xor, Bytes, IsXor
<1>. QED
  BY <1>3, <1>4, Zenon

\* If the exclusive or stays within m, it stays within 2m + 1.
LEMMA XorBound ==
  ASSUME NEW m \in Nat, (2 * m) + 1 <= 255, \A x \in 0..m : \A y \in 0..m : xor[x][y] \in 0..m
  PROVE  \A x \in 0..(2 * m) + 1 : \A y \in 0..(2 * m) + 1 : xor[x][y] \in 0..(2 * m) + 1
<1>1. SUFFICES ASSUME NEW x \in 0..(2 * m) + 1, NEW y \in 0..(2 * m) + 1
               PROVE  xor[x][y] \in 0..(2 * m) + 1
  OBVIOUS
<1>2. xor[x][y] = IF x = 0 \/ y = 0 THEN x + y
                  ELSE (2 * xor[x \div 2][y \div 2]) + ((x + y) % 2)
  BY XorDef, XorAt
<1>3. x \div 2 \in 0..m /\ y \div 2 \in 0..m /\ (x + y) % 2 \in 0..1
  BY Halves
<1>4. xor[x \div 2][y \div 2] \in 0..m
  BY <1>3
<1>. QED
  BY <1>2, <1>3, <1>4

\* The exclusive or of two bytes is a byte.
LEMMA XorType == xor \in [Bytes -> [Bytes -> Bytes]]
<1>. DEFINE S == {m \in Nat : \A x \in 0..m : \A y \in 0..m : xor[x][y] \in 0..m}
<1>1. 0 \in S
  BY XorDef, XorAt
<1>2. ASSUME NEW m \in 0..127, m \in S PROVE (2 * m) + 1 \in S
  <2>1. (2 * m) + 1 \in Nat /\ (2 * m) + 1 <= 255
    OBVIOUS
  <2>. QED
    BY <1>2, <2>1, XorBound
<1>9. 255 \in S
  <2>. HIDE DEF S
  <2>. QED
    BY <1>1, <1>2, Doubling
<1>10. \A x \in Bytes : \A y \in Bytes : xor[x][y] \in Bytes
  BY <1>9 DEF Bytes
<1>11. ASSUME NEW x \in Bytes PROVE xor[x] \in [Bytes -> Bytes]
  <2>1. xor[x] = [y \in Bytes |-> IF x = 0 \/ y = 0 THEN x + y
                                 ELSE (2 * xor[x \div 2][y \div 2]) + ((x + y) % 2)]
    BY XorDef, Zenon DEF IsXor, Bytes
  <2>. QED
    BY <2>1, <1>10, Zenon
<1>12. xor = [x \in Bytes |-> [y \in Bytes |->
                IF x = 0 \/ y = 0 THEN x + y
                ELSE (2 * xor[x \div 2][y \div 2]) + ((x + y) % 2)]]
  BY XorDef, Zenon DEF IsXor, Bytes
<1>. QED
  BY <1>11, <1>12, Zenon

\* The equation of the definition, for bytes.
LEMMA XorSum ==
  ASSUME NEW x \in Bytes, NEW y \in Bytes
  PROVE  xor[x][y] = IF x = 0 \/ y = 0 THEN x + y
                     ELSE (2 * xor[x \div 2][y \div 2]) + ((x + y) % 2)
<1>1. 255 \in Nat /\ x \in 0..255 /\ y \in 0..255
  BY DEF Bytes
<1>. QED
  BY <1>1, XorDef, XorAt

\* 0 is neutral.
LEMMA XorZero == \A b \in Bytes : xor[0][b] = b
BY XorDef, XorAt DEF Bytes

\* Twice is not at all; so no two bytes have the same exclusive or with a third.
LEMMA XorTwice ==
  \A x \in Bytes : \A y \in Bytes : xor[xor[x][y]][y] = x
<1>. DEFINE S == {m \in Nat : \A x \in 0..m : \A y \in 0..m : xor[xor[x][y]][y] = x}
<1>1. ASSUME NEW m \in 0..127, m \in S,
             NEW x \in 0..(2 * m) + 1, NEW y \in 0..(2 * m) + 1
      PROVE  xor[xor[x][y]][y] = x
  <2>. DEFINE h == x \div 2
              k == y \div 2
              v == xor[x][y]
  <2>1. /\ h \in 0..m /\ k \in 0..m /\ x \in Bytes /\ y \in Bytes /\ h \in Bytes /\ k \in Bytes
        /\ v \in Bytes /\ xor[h][k] \in Bytes /\ xor[xor[h][k]][k] = h
    <3>1. h \in 0..m /\ k \in 0..m
      BY Halves
    <3>2. x \in Bytes /\ y \in Bytes /\ h \in Bytes /\ k \in Bytes
      BY <1>1, <3>1 DEF Bytes
    <3>. QED
      BY <1>1, <3>1, <3>2, XorType
  <2>2. CASE x = 0 \/ y = 0
    <3>1. CASE x = 0 /\ y # 0
      <4>1. v = y /\ h = 0
        BY <3>1, <2>1, XorZero
      <4>2. xor[k][k] = 0
        BY <2>1, <4>1, XorZero
      <4>3. xor[y][y] = (2 * xor[k][k]) + ((y + y) % 2)
        BY <2>1, <3>1, XorSum
      <4>. QED
        BY <3>1, <2>1, <4>1, <4>2, <4>3 DEF Bytes
    <3>2. CASE y = 0
      <4>1. xor[x][y] = x + y /\ x + y = x
        <5>1. x \in Bytes /\ 0 \in Bytes /\ x + 0 = x
          BY <2>1 DEF Bytes
        <5>2. xor[x][0] = x + 0
          BY <5>1, XorSum
        <5>. QED
          BY <3>2, <5>1, <5>2
      <4>. QED
        BY <4>1
    <3>. QED
      BY <2>2, <3>1, <3>2
  <2>3. CASE x # 0 /\ y # 0
    <3>1. v = (2 * xor[h][k]) + ((x + y) % 2)
      BY <2>1, <2>3, XorSum DEF Bytes
    <3>2. v \div 2 = xor[h][k] /\ v % 2 = (x + y) % 2
      <4>1. (x + y) % 2 \in 0..1 /\ xor[h][k] \in Nat
        BY <2>1 DEF Bytes
      <4>. QED
        BY <3>1, <4>1, Quotient
    <3>3. CASE v = 0
      <4>1. h = k /\ (x + y) % 2 = 0
        BY <2>1, <3>2, <3>3, XorZero DEF Bytes
      <4>2. x = y
        BY <2>1, <4>1 DEF Bytes
      <4>. QED
        BY <2>1, <3>3, <4>2, XorZero
    <3>4. CASE v # 0
      <4>1. xor[v][y] = (2 * xor[v \div 2][k]) + ((v + y) % 2)
        BY <2>1, <2>3, <3>4, XorSum DEF Bytes
      <4>2. (v + y) % 2 = x % 2
        <5>1. x \in Nat /\ y \in Nat /\ v \in Nat /\ v % 2 = (x + y) % 2
          BY <2>1, <3>2 DEF Bytes
        <5>. HIDE DEF v
        <5>. QED
          BY <5>1, Parity
      <4>3. x = (2 * h) + (x % 2)
        BY <2>1 DEF Bytes
      <4>. QED
        BY <2>1, <3>2, <4>1, <4>2, <4>3
    <3>. QED
      BY <3>3, <3>4
  <2>. QED
    BY <2>2, <2>3
<1>0. 0 \in S
  BY XorZero DEF Bytes
<1>2. ASSUME NEW m \in 0..127, m \in S PROVE (2 * m) + 1 \in S
  <2>1. (2 * m) + 1 \in Nat
    OBVIOUS
  <2>. QED
    BY <1>1, <1>2, <2>1
<1>3. 255 \in S
  <2>. HIDE DEF S
  <2>. QED
    BY <1>0, <1>2, Doubling
<1>. QED
  BY <1>3 DEF Bytes

\* The order does not matter.
LEMMA XorCommutes ==
  \A x \in Bytes : \A y \in Bytes : xor[x][y] = xor[y][x]
<1>. DEFINE S == {m \in Nat : \A x \in 0..m : \A y \in 0..m : xor[x][y] = xor[y][x]}
<1>1. ASSUME NEW m \in 0..127, m \in S,
             NEW x \in 0..(2 * m) + 1, NEW y \in 0..(2 * m) + 1
      PROVE  xor[x][y] = xor[y][x]
  <2>1. x \div 2 \in 0..m /\ y \div 2 \in 0..m
    BY Halves
  <2>2. x \in Bytes /\ y \in Bytes /\ x + y = y + x
    <3>1. (2 * m) + 1 <= 255
      OBVIOUS
    <3>. HIDE DEF S
    <3>. QED
      BY <1>1, <3>1 DEF Bytes
  <2>3. xor[x \div 2][y \div 2] = xor[y \div 2][x \div 2]
    BY <1>1, <2>1
  <2>. QED
    BY <2>2, <2>3, XorSum
<1>0. 0 \in S
  OBVIOUS
<1>2. ASSUME NEW m \in 0..127, m \in S PROVE (2 * m) + 1 \in S
  <2>1. (2 * m) + 1 \in Nat
    OBVIOUS
  <2>. QED
    BY <1>1, <1>2, <2>1
<1>3. 255 \in S
  <2>. HIDE DEF S
  <2>. QED
    BY <1>0, <1>2, Doubling
<1>. QED
  BY <1>3 DEF Bytes

-------------------------------------------------------------------------------
(* Loops over a sequence, and the two checksums. *)

\* Induction over the numbers, for a set S rather than a predicate: the numbers
\* that are not in S would have a least one.
LEMMA Induction ==
  ASSUME NEW S, 0 \in S, \A n \in Nat : n \in S => n + 1 \in S
  PROVE  Nat \subseteq S
<1>. DEFINE T == Nat \ S
<1>1. SUFFICES ASSUME T # {} PROVE FALSE
  OBVIOUS
<1>2. IsWellFoundedOn(OpToRel(<, Nat), Nat)
  BY NatLessThanWellFounded
<1>3. PICK x : x \in T
  BY <1>1
<1>4. PICK y \in T : \A z \in T : ~(<<z, y>> \in OpToRel(<, Nat))
  BY <1>2, <1>3, WFMin
<1>5. \A z \in T : ~(z < y)
  BY <1>4 DEF OpToRel
<1>6. y # 0 /\ y - 1 \in Nat /\ y = (y - 1) + 1
  OBVIOUS
<1>7. y - 1 \in S
  BY <1>5, <1>6
<1>. QED
  BY <1>6, <1>7

\* f[i] is the value in V after i steps from a: what a loop over n elements computes.
IsRun(f, V, a, step, n) ==
    /\ f[0] = a
    /\ \A i \in 1..n : f[i - 1] \in V => f[i] = step[f[i - 1]][i]

\* Every loop has a run, and its values are of the loop's type.
LEMMA RunExists ==
  ASSUME NEW V, NEW a \in V, NEW n \in Nat, NEW step \in [V -> [1..n -> V]]
  PROVE  \E f \in [0..n -> V] : IsRun(f, V, a, step, n)
<1>. DEFINE S == {m \in Nat : m <= n => \E f \in [0..m -> V] : IsRun(f, V, a, step, m)}
<1>1. 0 \in S
  <2>. DEFINE f == [i \in 0..0 |-> a]
  <2>1. f \in [0..0 -> V] /\ IsRun(f, V, a, step, 0)
    BY DEF IsRun
  <2>2. \E h \in [0..0 -> V] : IsRun(h, V, a, step, 0)
    BY <2>1, Zenon
  <2>. QED
    BY <2>2
<1>2. ASSUME NEW m \in Nat, m \in S PROVE m + 1 \in S
  <2>1. ASSUME m + 1 <= n PROVE \E g \in [0..m + 1 -> V] : IsRun(g, V, a, step, m + 1)
    <3>1. PICK f \in [0..m -> V] : IsRun(f, V, a, step, m)
      <4>1. m <= n
        BY <2>1
      <4>. QED
        BY <1>2, <4>1
    <3>. DEFINE v == step[f[m]][m + 1]
                g == [i \in 0..m + 1 |-> IF i = m + 1 THEN v ELSE f[i]]
    <3>2. v \in V
      <4>1. f[m] \in V /\ m + 1 \in 1..n
        BY <2>1
      <4>. QED
        BY <4>1
    <3>3. \A i \in 0..m : g[i] = f[i] /\ f[i] \in V
      OBVIOUS
    <3>4. g[m + 1] = v
      OBVIOUS
    <3>5. g \in [0..m + 1 -> V]
      <4>. HIDE DEF v
      <4>1. \A i \in 0..m + 1 : (IF i = m + 1 THEN v ELSE f[i]) \in V
        BY <3>2, <3>3
      <4>. QED
        BY <4>1
    <3>6. ASSUME NEW i \in 1..m + 1 PROVE g[i] = step[g[i - 1]][i]
      <4>. HIDE DEF g
      <4>1. CASE i = m + 1
        BY <3>3, <3>4, <4>1
      <4>2. CASE i \in 1..m
        <5>1. i - 1 \in 0..m /\ i \in 0..m
          BY <4>2
        <5>2. f[i] = step[f[i - 1]][i]
          BY <3>1, <4>2 DEF IsRun
        <5>. QED
          BY <3>3, <5>1, <5>2
      <4>. QED
        BY <4>1, <4>2
    <3>7. g[0] = a
      BY <3>1, <3>3 DEF IsRun
    <3>. HIDE DEF g
    <3>8. IsRun(g, V, a, step, m + 1)
      BY <3>6, <3>7 DEF IsRun
    <3>. QED
      BY <3>5, <3>8
  <2>. QED
    BY <2>1
<1>3. n \in S
  <2>. HIDE DEF S
  <2>. QED
    BY <1>1, <1>2, Induction
<1>. QED
  BY <1>3

\* There is only one, so that whatever obeys the loop's equations is that run.
LEMMA RunUnique ==
  ASSUME NEW V, NEW n \in Nat, NEW a, NEW step,
         NEW f \in [0..n -> V], IsRun(f, V, a, step, n),
         NEW g, IsRun(g, V, a, step, n)
  PROVE  \A i \in 0..n : f[i] = g[i]
<1>. DEFINE S == {i \in Nat : i <= n => f[i] = g[i]}
<1>1. 0 \in S
  BY DEF IsRun
<1>2. ASSUME NEW i \in Nat, i \in S PROVE i + 1 \in S
  <2>1. ASSUME i + 1 <= n PROVE f[i + 1] = g[i + 1]
    <3>1. i + 1 \in 1..n /\ (i + 1) - 1 = i /\ i <= n
      BY <2>1
    <3>2. f[i + 1] = step[f[i]][i + 1] /\ f[i] \in V
      BY <3>1 DEF IsRun
    <3>3. f[i] = g[i]
      BY <1>2, <3>1
    <3>4. g[i + 1] = step[g[i]][i + 1]
      BY <3>1, <3>2, <3>3 DEF IsRun
    <3>. QED
      BY <3>2, <3>3, <3>4
  <2>. QED
    BY <2>1
<1>3. Nat \subseteq S
  <2>. HIDE DEF S
  <2>. QED
    BY <1>1, <1>2, Induction
<1>. QED
  BY <1>3

\* One step of the polynomial stays within a byte.
LEMMA ShiftType == Shift \in [Bytes -> Bytes]
<1>1. ASSUME NEW c \in 0..255
      PROVE  (IF c >= 128 THEN xor[(2 * c) % 256][213] ELSE 2 * c) \in 0..255
  <2>1. CASE c >= 128
    <3>1. (2 * c) % 256 \in Bytes /\ 213 \in Bytes
      BY DEF Bytes
    <3>2. xor[(2 * c) % 256][213] \in Bytes
      BY <3>1, XorType
    <3>. QED
      BY <2>1, <3>2 DEF Bytes
  <2>. QED
    BY <2>1
<1>. QED
  BY <1>1 DEF Shift, Bytes

\* So does crc8Table.
LEMMA TableType == crc8Table \in [Bytes -> Bytes]
<1>1. \A c \in Bytes : Shift[c] \in Bytes
  BY ShiftType
<1>. QED
  BY <1>1, Zenon DEF crc8Table, Bytes

\* A step of CRC8DVBS2 over the bytes of data.
DVBS2Step(data) == [v \in Bytes |-> [i \in 1..Len(data) |-> crc8Table[xor[v][data[i]]]]]

\* Its type and its values.
LEMMA DVBS2StepType ==
  ASSUME NEW data \in Seq(Bytes)
  PROVE  /\ DVBS2Step(data) \in [Bytes -> [1..Len(data) -> Bytes]]
         /\ \A v \in Bytes : \A i \in 1..Len(data) :
               DVBS2Step(data)[v][i] = crc8Table[xor[v][data[i]]]
<1>1. \A i \in 1..Len(data) : data[i] \in Bytes
  OBVIOUS
<1>2. \A v \in Bytes : \A i \in 1..Len(data) : crc8Table[xor[v][data[i]]] \in Bytes
  BY <1>1, XorType, TableType
<1>. QED
  BY <1>2, Zenon DEF DVBS2Step

\* The checksum is the last value of the loop's run over the data.
LEMMA DVBS2Run ==
  ASSUME NEW data \in Seq(Bytes), NEW initial \in Bytes
  PROVE  \E f \in [0..Len(data) -> Bytes] :
            /\ IsRun(f, Bytes, initial, DVBS2Step(data), Len(data))
            /\ f[0] = initial /\ \A i \in 1..Len(data) : f[i - 1] \in Bytes /\ f[i] = crc8Table[xor[f[i - 1]][data[i]]]
            /\ CRC8DVBS2(data, initial) = f[Len(data)]
<1>. DEFINE n == Len(data)
            step == DVBS2Step(data)
            F == CHOOSE f : f = [i \in 0..n |-> IF i = 0 THEN initial
                                                ELSE crc8Table[xor[f[i - 1]][data[i]]]]
<1>1. n \in Nat /\ step \in [Bytes -> [1..n -> Bytes]]
  BY DVBS2StepType
<1>2. PICK f \in [0..n -> Bytes] : IsRun(f, Bytes, initial, step, n)
  <2>. HIDE DEF step, n
  <2>. QED
    BY <1>1, RunExists
<1>3. \A i \in 1..n : f[i - 1] \in Bytes
  <2>. HIDE DEF n, step, F
  <2>1. \A i \in 1..n : i - 1 \in 0..n
    BY <1>1
  <2>. QED
    BY <2>1
<1>4. \A i \in 1..n : f[i] = crc8Table[xor[f[i - 1]][data[i]]]
  BY <1>2, <1>3, DVBS2StepType, Zenon DEF IsRun
<1>5. f = [i \in 0..n |-> IF i = 0 THEN initial ELSE crc8Table[xor[f[i - 1]][data[i]]]]
  <2>. HIDE DEF step, n
  <2>1. \A i \in 0..n : f[i] = IF i = 0 THEN initial ELSE crc8Table[xor[f[i - 1]][data[i]]]
    <3>. HIDE DEF F
    <3>1. f[0] = initial
      BY <1>2 DEF IsRun
    <3>2. \A i \in 0..n : i # 0 => i \in 1..n
      BY <1>1
    <3>. QED
      BY <1>4, <3>1, <3>2, Zenon
  <2>. QED
    BY <2>1, Zenon
<1>6. F = [i \in 0..n |-> IF i = 0 THEN initial ELSE crc8Table[xor[F[i - 1]][data[i]]]]
  BY <1>5, Zenon
<1>7. CRC8DVBS2(data, initial) = F[n]
  BY Zenon DEF CRC8DVBS2
<1>8. F[0] = initial /\ \A i \in 1..n : F[i] = crc8Table[xor[F[i - 1]][data[i]]]
  <2>. HIDE DEF F, n
  <2>1. 0 \in 0..n /\ \A i \in 1..n : i \in 0..n /\ i # 0
    BY <1>1
  <2>. QED
    BY <1>6, <2>1, Zenon
<1>9. F[n] = f[n]
  <2>1. \A i \in 1..n : F[i - 1] \in Bytes => F[i] = step[F[i - 1]][i]
    BY <1>8, DVBS2StepType
  <2>. HIDE DEF F, n, step
  <2>2. IsRun(F, Bytes, initial, step, n)
    BY <1>8, <2>1, Zenon DEF IsRun
  <2>3. \A i \in 0..n : f[i] = F[i]
    <3>1. n \in Nat
      BY <1>1
    <3>. QED
      BY <3>1, <1>2, <2>2, RunUnique
  <2>. QED
    BY <1>1, <2>3
<1>10. IsRun(f, Bytes, initial, step, n) /\ f[0] = initial
  BY <1>2 DEF IsRun
<1>. HIDE DEF F
<1>. QED
  BY <1>3, <1>4, <1>7, <1>9, <1>10

\* Whatever follows the loop's equations ends in the checksum.
LEMMA DVBS2Value ==
  ASSUME NEW data \in Seq(Bytes), NEW initial \in Bytes, NEW g, g[0] = initial,
         \A i \in 1..Len(data) : g[i - 1] \in Bytes => g[i] = crc8Table[xor[g[i - 1]][data[i]]]
  PROVE  CRC8DVBS2(data, initial) = g[Len(data)] /\ CRC8DVBS2(data, initial) \in Bytes
<1>1. PICK f \in [0..Len(data) -> Bytes] :
         /\ IsRun(f, Bytes, initial, DVBS2Step(data), Len(data))
         /\ CRC8DVBS2(data, initial) = f[Len(data)]
  BY DVBS2Run
<1>2. IsRun(g, Bytes, initial, DVBS2Step(data), Len(data))
  BY DVBS2StepType, Zenon DEF IsRun
<1>. DEFINE n == Len(data)
            step == DVBS2Step(data)
<1>3. n \in Nat /\ n \in 0..n
  OBVIOUS
<1>. HIDE DEF n, step
<1>4. f[n] = g[n]
  <2>1. f \in [0..n -> Bytes] /\ IsRun(f, Bytes, initial, step, n) /\ IsRun(g, Bytes, initial, step, n)
    BY <1>1, <1>2 DEF n, step
  <2>. QED
    BY <1>3, <2>1, RunUnique
<1>. QED
  BY <1>1, <1>3, <1>4 DEF n

\* A step of CRC8Xor over the bytes of data.
XorStep(data) == [v \in Bytes |-> [i \in 1..Len(data) |-> xor[v][data[i]]]]

\* Its type and its values.
LEMMA XorStepType ==
  ASSUME NEW data \in Seq(Bytes)
  PROVE  /\ XorStep(data) \in [Bytes -> [1..Len(data) -> Bytes]]
         /\ \A v \in Bytes : \A i \in 1..Len(data) :
               XorStep(data)[v][i] = xor[v][data[i]]
<1>1. \A i \in 1..Len(data) : data[i] \in Bytes
  OBVIOUS
<1>2. \A v \in Bytes : \A i \in 1..Len(data) : xor[v][data[i]] \in Bytes
  BY <1>1, XorType
<1>. QED
  BY <1>2, Zenon DEF XorStep

\* The checksum is the last value of the loop's run over the data.
LEMMA CRC8XorRun ==
  ASSUME NEW data \in Seq(Bytes)
  PROVE  \E f \in [0..Len(data) -> Bytes] :
            /\ IsRun(f, Bytes, 0, XorStep(data), Len(data))
            /\ f[0] = 0 /\ \A i \in 1..Len(data) : f[i - 1] \in Bytes /\ f[i] = xor[f[i - 1]][data[i]]
            /\ CRC8Xor(data) = f[Len(data)]
<1>. DEFINE n == Len(data)
            step == XorStep(data)
            F == CHOOSE f : f = [i \in 0..n |-> IF i = 0 THEN 0
                                                ELSE xor[f[i - 1]][data[i]]]
<1>0. 0 \in Bytes
  BY DEF Bytes
<1>1. n \in Nat /\ step \in [Bytes -> [1..n -> Bytes]]
  BY XorStepType
<1>2. PICK f \in [0..n -> Bytes] : IsRun(f, Bytes, 0, step, n)
  <2>. HIDE DEF step, n
  <2>. QED
    BY <1>0, <1>1, RunExists
<1>3. \A i \in 1..n : f[i - 1] \in Bytes
  <2>. HIDE DEF n, step, F
  <2>1. \A i \in 1..n : i - 1 \in 0..n
    BY <1>1
  <2>. QED
    BY <2>1
<1>4. \A i \in 1..n : f[i] = xor[f[i - 1]][data[i]]
  BY <1>2, <1>3, XorStepType, Zenon DEF IsRun
<1>5. f = [i \in 0..n |-> IF i = 0 THEN 0 ELSE xor[f[i - 1]][data[i]]]
  <2>. HIDE DEF step, n
  <2>1. \A i \in 0..n : f[i] = IF i = 0 THEN 0 ELSE xor[f[i - 1]][data[i]]
    <3>. HIDE DEF F
    <3>1. f[0] = 0
      BY <1>2 DEF IsRun
    <3>2. \A i \in 0..n : i # 0 => i \in 1..n
      BY <1>1
    <3>. QED
      BY <1>4, <3>1, <3>2, Zenon
  <2>. QED
    BY <2>1, Zenon
<1>6. F = [i \in 0..n |-> IF i = 0 THEN 0 ELSE xor[F[i - 1]][data[i]]]
  BY <1>5, Zenon
<1>7. CRC8Xor(data) = F[n]
  BY Zenon DEF CRC8Xor
<1>8. F[0] = 0 /\ \A i \in 1..n : F[i] = xor[F[i - 1]][data[i]]
  <2>. HIDE DEF F, n
  <2>1. 0 \in 0..n /\ \A i \in 1..n : i \in 0..n /\ i # 0
    BY <1>1
  <2>. QED
    BY <1>6, <2>1, Zenon
<1>9. F[n] = f[n]
  <2>1. \A i \in 1..n : F[i - 1] \in Bytes => F[i] = step[F[i - 1]][i]
    BY <1>8, XorStepType
  <2>. HIDE DEF F, n, step
  <2>2. IsRun(F, Bytes, 0, step, n)
    BY <1>8, <2>1, Zenon DEF IsRun
  <2>3. \A i \in 0..n : f[i] = F[i]
    <3>1. n \in Nat
      BY <1>1
    <3>. QED
      BY <3>1, <1>2, <2>2, RunUnique
  <2>. QED
    BY <1>1, <2>3
<1>10. IsRun(f, Bytes, 0, step, n) /\ f[0] = 0
  BY <1>2 DEF IsRun
<1>. HIDE DEF F
<1>. QED
  BY <1>3, <1>4, <1>7, <1>9, <1>10

\* Whatever follows the loop's equations ends in the checksum.
LEMMA CRC8XorValue ==
  ASSUME NEW data \in Seq(Bytes), NEW g, g[0] = 0,
         \A i \in 1..Len(data) : g[i - 1] \in Bytes => g[i] = xor[g[i - 1]][data[i]]
  PROVE  CRC8Xor(data) = g[Len(data)] /\ CRC8Xor(data) \in Bytes
<1>1. PICK f \in [0..Len(data) -> Bytes] :
         /\ IsRun(f, Bytes, 0, XorStep(data), Len(data))
         /\ CRC8Xor(data) = f[Len(data)]
  BY CRC8XorRun
<1>2. IsRun(g, Bytes, 0, XorStep(data), Len(data))
  BY XorStepType, Zenon DEF IsRun
<1>. DEFINE n == Len(data)
            step == XorStep(data)
<1>3. n \in Nat /\ n \in 0..n
  OBVIOUS
<1>. HIDE DEF n, step
<1>4. f[n] = g[n]
  <2>1. f \in [0..n -> Bytes] /\ IsRun(f, Bytes, 0, step, n) /\ IsRun(g, Bytes, 0, step, n)
    BY <1>1, <1>2 DEF n, step
  <2>. QED
    BY <1>3, <2>1, RunUnique
<1>. QED
  BY <1>1, <1>3, <1>4 DEF n

\* The checksum of a concatenation: that of the second part, starting from that
\* of the first.
LEMMA DVBS2Concat ==
  ASSUME NEW d \in Seq(Bytes), NEW e \in Seq(Bytes), NEW initial \in Bytes
  PROVE  /\ CRC8DVBS2(d, initial) \in Bytes
         /\ CRC8DVBS2(d \o e, initial) = CRC8DVBS2(e, CRC8DVBS2(d, initial))
<1>. DEFINE de == d \o e
            m == Len(d)
            n == Len(e)
<1>1. /\ m \in Nat /\ n \in Nat
      /\ de \in Seq(Bytes) /\ Len(de) = m + n
      /\ \A i \in 1..m : de[i] = d[i]
      /\ \A i \in 1..n : de[m + i] = e[i]
  OBVIOUS
<1>2. PICK f \in [0..Len(de) -> Bytes] :
         /\ f[0] = initial
         /\ \A i \in 1..Len(de) : f[i - 1] \in Bytes /\ f[i] = crc8Table[xor[f[i - 1]][de[i]]]
         /\ CRC8DVBS2(de, initial) = f[Len(de)]
  <2>. HIDE DEF de
  <2>. QED
    BY <1>1, DVBS2Run
<1>3. /\ f[0] = initial /\ \A i \in 0..m + n : f[i] \in Bytes
      /\ \A i \in 1..m + n : f[i] = crc8Table[xor[f[i - 1]][de[i]]]
  <2>. HIDE DEF de, m, n
  <2>. QED
    BY <1>1, <1>2
<1>. HIDE DEF de
<1>4. CRC8DVBS2(d, initial) = f[m] /\ f[m] \in Bytes
  <2>1. \A i \in 1..m : f[i] = crc8Table[xor[f[i - 1]][d[i]]]
    <3>1. \A i \in 1..m : i \in 1..m + n
      BY <1>1
    <3>. QED
      BY <1>1, <1>3, <3>1
  <2>. QED
    <3>. DEFINE g == f
    <3>1. g[0] = initial /\ \A i \in 1..Len(d) : g[i - 1] \in Bytes => g[i] = crc8Table[xor[g[i - 1]][d[i]]]
      BY <1>3, <2>1
    <3>. HIDE DEF g
    <3>2. CRC8DVBS2(d, initial) = g[Len(d)] /\ CRC8DVBS2(d, initial) \in Bytes
      BY <3>1, DVBS2Value
    <3>. QED
      BY <3>2 DEF g
<1>5. CRC8DVBS2(e, f[m]) = f[m + n]
  <2>. DEFINE g == [i \in 0..n |-> f[m + i]]
  <2>1. g[0] = f[m] /\ g[n] = f[m + n]
    BY <1>1
  <2>2. ASSUME NEW i \in 1..n PROVE g[i] = crc8Table[xor[g[i - 1]][e[i]]]
    <3>1. m + i \in 1..m + n /\ (m + i) - 1 = m + (i - 1) /\ i - 1 \in 0..n /\ i \in 0..n
      BY <1>1
    <3>2. g[i] = f[m + i] /\ g[i - 1] = f[(m + i) - 1]
      BY <3>1
    <3>. HIDE DEF g
    <3>. QED
      BY <1>1, <1>3, <3>1, <3>2
  <2>. HIDE DEF g
  <2>. QED
    BY <1>4, <2>1, <2>2, DVBS2Value
<1>. QED
  BY <1>1, <1>2, <1>4, <1>5 DEF de

\* A byte more: the checksum as the decoder keeps it while it reads.
LEMMA CRC8XorAppend ==
  ASSUME NEW d \in Seq(Bytes), NEW b \in Bytes
  PROVE  CRC8Xor(d) \in Bytes /\ CRC8Xor(Append(d, b)) = xor[CRC8Xor(d)][b]
<1>. DEFINE n == Len(d)
            db == Append(d, b)
<1>1. PICK f \in [0..n -> Bytes] :
         /\ f[0] = 0 /\ \A i \in 1..n : f[i - 1] \in Bytes /\ f[i] = xor[f[i - 1]][d[i]]
         /\ CRC8Xor(d) = f[n]
  BY CRC8XorRun
<1>2. /\ n \in Nat /\ n \in 0..n
      /\ db \in Seq(Bytes) /\ Len(db) = n + 1
      /\ \A i \in 1..n : db[i] = d[i]
      /\ db[n + 1] = b
  OBVIOUS
<1>3. f[0] = 0 /\ \A i \in 1..n : f[i] = xor[f[i - 1]][d[i]]
  BY <1>1
<1>. DEFINE g == [i \in 0..n + 1 |-> IF i = n + 1 THEN xor[f[n]][b] ELSE f[i]]
<1>4. g[0] = 0 /\ g[n + 1] = xor[f[n]][b] /\ \A i \in 0..n : g[i] = f[i]
  BY <1>2, <1>3
<1>5. ASSUME NEW i \in 1..n + 1 PROVE g[i] = xor[g[i - 1]][db[i]]
  <2>. HIDE DEF g, db
  <2>1. CASE i = n + 1
    BY <1>2, <1>4, <2>1
  <2>2. CASE i \in 1..n
    <3>1. i - 1 \in 0..n /\ i \in 0..n
      BY <2>2
    <3>. QED
      BY <1>2, <1>3, <1>4, <2>2, <3>1
  <2>. QED
    BY <1>2, <2>1, <2>2
<1>6. CRC8Xor(db) = xor[f[n]][b]
  <2>. HIDE DEF g, db
  <2>. QED
    <3>1. \A i \in 1..Len(db) : g[i - 1] \in Bytes => g[i] = xor[g[i - 1]][db[i]]
      BY <1>2, <1>5
    <3>2. CRC8Xor(db) = g[Len(db)]
      BY <1>2, <1>4, <3>1, CRC8XorValue
    <3>. QED
      BY <1>2, <1>4, <3>2
<1>. QED
  BY <1>1, <1>2, <1>6

\* It starts from 0.
LEMMA CRC8XorEmpty == CRC8Xor(<<>>) = 0
<1>. DEFINE g == [i \in 0..0 |-> 0]
<1>1. g[0] = 0 /\ <<>> \in Seq(Bytes) /\ Len(<<>>) = 0
  OBVIOUS
<1>2. \A i \in 1..Len(<<>>) : g[i - 1] \in Bytes => g[i] = xor[g[i - 1]][<<>>[i]]
  BY <1>1
<1>. HIDE DEF g
<1>. QED
  BY <1>1, <1>2, CRC8XorValue

-------------------------------------------------------------------------------
(* Frames of version 1. *)

\* What is appended to two parts is appended to the second.
LEMMA AppendConcat ==
  ASSUME NEW S, NEW s \in Seq(S), NEW t \in Seq(S), NEW b \in S
  PROVE  Append(s \o t, b) = s \o Append(t, b)
<1>1. s \o t \in Seq(S) /\ <<b>> \in Seq(S)
  OBVIOUS
<1>2. Append(s \o t, b) = (s \o t) \o <<b>>
  BY <1>1, AppendIsConcat
<1>3. Append(t, b) = t \o <<b>>
  BY AppendIsConcat
<1>. QED
  BY <1>1, <1>2, <1>3, ConcatAssociative

\* Three bytes and two are five.
LEMMA Prefix ==
  ASSUME NEW a \in Bytes, NEW b \in Bytes, NEW c \in Bytes, NEW d \in Bytes, NEW e \in Bytes
  PROVE  <<a, b, c>> \o <<d, e>> = <<a, b, c, d, e>>
<1>. DEFINE s == <<a, b, c>> \o <<d, e>>
            t == <<a, b, c, d, e>>
<1>1. s \in Seq(Bytes) /\ t \in Seq(Bytes) /\ Len(s) = 5 /\ Len(t) = 5
  OBVIOUS
<1>2. s[1] = a /\ s[2] = b /\ s[3] = c /\ s[4] = d /\ s[5] = e
  OBVIOUS
<1>3. t[1] = a /\ t[2] = b /\ t[3] = c /\ t[4] = d /\ t[5] = e
  OBVIOUS
<1>. HIDE DEF s, t
<1>4. \A i \in 1..5 : i \in {1, 2, 3, 4, 5}
  OBVIOUS
<1>5. \A i \in 1..Len(s) : s[i] = t[i]
  BY <1>1, <1>2, <1>3, <1>4
<1>6. s = t
  BY <1>1, <1>5, SeqEqual
<1>. QED
  BY <1>6 DEF s, t

\* The parts of a header, a payload and a checksum put together.
LEMMA Parts ==
  ASSUME NEW S, NEW head \in Seq(S), NEW p \in Seq(S), NEW b \in S
  PROVE  /\ Append(head \o p, b) \in Seq(S)
         /\ Len(Append(head \o p, b)) = Len(head) + Len(p) + 1
         /\ \A i \in 1..Len(head) : Append(head \o p, b)[i] = head[i]
         /\ SubSeq(Append(head \o p, b), Len(head) + 1, Len(head) + Len(p)) = p
<1>. DEFINE s == Append(head \o p, b)
            k == Len(head)
            n == Len(p)
<1>1. k \in Nat /\ n \in Nat
  OBVIOUS
<1>. DEFINE hp == head \o p
<1>2. /\ hp \in Seq(S) /\ Len(hp) = k + n
      /\ \A i \in 1..k + n : hp[i] = IF i <= k THEN head[i] ELSE p[i - k]
  BY ConcatProperties
<1>3. s = Append(hp, b)
  OBVIOUS
<1>. HIDE DEF hp, s
<1>4. s \in Seq(S) /\ Len(s) = k + n + 1 /\ \A i \in 1..k + n : s[i] = hp[i]
  BY <1>1, <1>2, <1>3, AppendProperties
<1>5. \A i \in 1..k : s[i] = head[i]
  <2>1. \A i \in 1..k : i \in 1..k + n /\ i <= k
    BY <1>1
  <2>. QED
    BY <1>2, <1>4, <2>1, Zenon
<1>6. \A i \in 1..n : s[k + i] = p[i]
  <2>1. \A i \in 1..n : k + i \in 1..k + n /\ ~(k + i <= k) /\ (k + i) - k = i
    BY <1>1
  <2>. QED
    BY <1>2, <1>4, <2>1
<1>7. SubSeq(s, k + 1, k + n) = p
  <2>. DEFINE q == SubSeq(s, k + 1, k + n)
  <2>1. \A i \in (k + 1)..(k + n) : s[i] \in S
    BY <1>1, <1>4, ElementOfSeq
  <2>2. k + 1 \in Int /\ k + n \in Int /\ (k + n) - (k + 1) + 1 = n
    BY <1>1
  <2>3. /\ q \in Seq(S) /\ Len(q) = IF k + 1 <= k + n THEN (k + n) - (k + 1) + 1 ELSE 0
        /\ \A i \in 1..(k + n) - (k + 1) + 1 : q[i] = s[(k + 1) + i - 1]
    BY <2>1, <2>2, SubSeqProperties
  <2>. HIDE DEF q
  <2>4. Len(q) = n /\ \A i \in 1..n : q[i] = s[k + i]
    <3>1. \A i \in 1..n : (k + 1) + i - 1 = k + i
      BY <1>1
    <3>2. k + 1 <= k + n \/ n = 0
      BY <1>1
    <3>. QED
      BY <1>1, <2>2, <2>3, <3>1, <3>2
  <2>5. q = p
    BY <1>6, <2>3, <2>4, SeqEqual
  <2>. QED
    BY <2>5 DEF q
<1>. QED
  BY <1>4, <1>5, <1>7 DEF s

\* A run of a few bytes is not one.
LEMMA FrameOfShort ==
  ASSUME NEW s, Len(s) \in 0..5
  PROVE  FrameOf(s) = {}
<1>1. ~(Len(s) > 5) /\ ~(Len(s) > 8)
  <2>1. \A n \in 0..5 : ~(n > 5) /\ ~(n > 8)
    OBVIOUS
  <2>. QED
    BY <2>1, Zenon
<1>2. ~IsV1(s) /\ ~IsV2(s)
  BY <1>1, Zenon DEF IsV1, IsV2
<1>. QED
  BY <1>2, Zenon DEF FrameOf

\* The bytes of version 1 are a frame exactly when the checksum is right, and then
\* the one their fields say.
LEMMA V1Frame ==
  ASSUME NEW d \in Directions, NEW c \in Bytes, NEW p \in Seq(Bytes), Len(p) \in Bytes, NEW b \in Bytes
  PROVE  FrameOf(Append(<<Dollar, ProtoM, d, Len(p), c>> \o p, b)) =
            IF b = CRC8Xor(<<Len(p), c>> \o p)
            THEN {[version |-> 1, direction |-> d, code |-> c, payload |-> p]}
            ELSE {}
<1>. DEFINE n == Len(p)
            head == <<Dollar, ProtoM, d, n, c>>
            s == Append(head \o p, b)
            v1 == [version |-> 1, direction |-> d, code |-> c, payload |-> p]
            crc == CRC8Xor(<<n, c>> \o p)
<1>1. /\ n \in Nat /\ head \in Seq(Bytes) /\ Len(head) = 5
      /\ <<Dollar, ProtoM, d>> \in Seq(Bytes) /\ <<n, c>> \in Seq(Bytes)
  BY DEF Bytes, Directions, Dollar, ProtoM
<1>2. /\ s \in Seq(Bytes) /\ Len(s) = n + 6
      /\ s[2] = ProtoM /\ s[3] = d /\ s[5] = c
      /\ SubSeq(s, 6, Len(s) - 1) = p
  <2>1. head[2] = ProtoM /\ head[3] = d /\ head[5] = c
    OBVIOUS
  <2>2. /\ n \in Nat /\ 5 = Len(head) /\ head \in Seq(Bytes)
        /\ p \in Seq(Bytes) /\ b \in Bytes /\ s = Append(head \o p, b) /\ n = Len(p)
    BY <1>1
  <2>. HIDE DEF head, s, n
  <2>3. /\ s \in Seq(Bytes) /\ Len(s) = 5 + n + 1
        /\ \A i \in 1..5 : s[i] = head[i]
        /\ SubSeq(s, 5 + 1, 5 + n) = p
    <3>1. /\ Append(head \o p, b) \in Seq(Bytes)
          /\ Len(Append(head \o p, b)) = Len(head) + Len(p) + 1
          /\ \A i \in 1..Len(head) : Append(head \o p, b)[i] = head[i]
          /\ SubSeq(Append(head \o p, b), Len(head) + 1, Len(head) + Len(p)) = p
      BY <2>2, Parts
    <3>. QED
      BY <2>2, <3>1
  <2>4. Len(s) = n + 6 /\ Len(s) - 1 = 5 + n /\ 5 + 1 = 6
    BY <2>2, <2>3
  <2>5. s[2] = head[2] /\ s[3] = head[3] /\ s[5] = head[5]
    BY <2>3
  <2>. QED
    BY <2>1, <2>3, <2>4, <2>5
<1>3. crc \in Bytes
  <2>1. <<n, c>> \o p \in Seq(Bytes)
    BY <1>1
  <2>. QED
    BY <2>1, CRC8XorAppend
<1>4. EncodeV1(v1) = Append(head \o p, crc)
  <2>1. EncodeV1(v1) = <<Dollar, ProtoM, d>> \o (<<n, c>> \o p) \o <<crc>>
    BY DEF EncodeV1
  <2>2. <<Dollar, ProtoM, d>> \o (<<n, c>> \o p) = head \o p
    <3>1. <<Dollar, ProtoM, d>> \o <<n, c>> = head
      <4>1. Dollar \in Bytes /\ ProtoM \in Bytes /\ d \in Bytes /\ n \in Bytes
        BY DEF Bytes, Directions, Dollar, ProtoM
      <4>. QED
        BY <4>1, Prefix
    <3>. QED
      BY <1>1, <3>1, ConcatAssociative
  <2>3. (<<Dollar, ProtoM, d>> \o (<<n, c>> \o p)) \o <<crc>>
           = <<Dollar, ProtoM, d>> \o ((<<n, c>> \o p) \o <<crc>>)
    BY <1>1, <1>3, ConcatAssociative
  <2>4. head \o p \in Seq(Bytes)
    BY <1>1
  <2>. HIDE DEF head, crc
  <2>. QED
    BY <1>1, <1>3, <2>1, <2>2, <2>3, AppendIsConcat
<1>5. EncodeV1(v1) = s <=> b = crc
  <2>1. head \o p \in Seq(Bytes)
    BY <1>1
  <2>. HIDE DEF head, crc
  <2>. QED
    BY <1>3, <1>4, <2>1, AppendInjective
<1>6. FieldsV1(s) = v1
  BY <1>2 DEF FieldsV1
<1>7. IsV1(s) <=> EncodeV1(v1) = s
  <2>1. Len(s) > 5
    BY <1>1, <1>2
  <2>. HIDE DEF s, v1
  <2>. QED
    BY <1>2, <1>6, <2>1 DEF IsV1
<1>8. ~IsV2(s)
  BY <1>2 DEF IsV2, ProtoM, ProtoX
<1>. HIDE DEF s, v1, crc
<1>9. FrameOf(s) = IF b = crc THEN {v1} ELSE {}
  BY <1>5, <1>6, <1>7, <1>8, Zenon DEF FrameOf
<1>. QED
  BY <1>9 DEF s, v1, crc

-------------------------------------------------------------------------------
(* Frames of version 2. *)

\* A number of two bytes, low byte first.
LEMMA TwoBytes ==
  ASSUME NEW lo \in Bytes, NEW hi \in Bytes, NEW x, x = lo + (256 * hi)
  PROVE  x \in Nat /\ x % 256 = lo /\ x \div 256 = hi
<1>1. lo \in 0..255 /\ hi \in 0..255
  BY DEF Bytes
<1>2. x \in Nat
  BY <1>1
<1>3. x = (256 * (x \div 256)) + (x % 256) /\ x % 256 \in 0..255 /\ x \div 256 \in Int
  BY <1>2
<1>4. x \div 256 = hi
  BY <1>1, <1>3
<1>5. x % 256 = lo
  BY <1>1, <1>3, <1>4
<1>. QED
  BY <1>2, <1>4, <1>5

\* Two bytes make a uint16.
LEMMA WordOfBytes ==
  \A lo \in Int : \A hi \in Int : lo \in Bytes /\ hi \in Bytes => lo + (256 * hi) \in Words
<1>1. MaxWord \in Nat /\ \A lo \in 0..255 : \A hi \in 0..255 : lo + (256 * hi) <= MaxWord
  BY DEF MaxWord
<1>. QED
  BY <1>1 DEF Bytes, Words

\* The elements of a version 2 header are bytes.
LEMMA HeaderBytes ==
  ASSUME NEW h \in Seq(Bytes), Len(h) = 5
  PROVE  /\ h[1] \in Bytes /\ h[2] \in Bytes /\ h[3] \in Bytes
         /\ h[4] \in Bytes /\ h[5] \in Bytes
<1>1. \A i \in {1, 2, 3, 4, 5} : i \in 1..Len(h)
  OBVIOUS
<1>2. \A i \in 1..Len(h) : h[i] \in Bytes
  BY ElementOfSeq
<1>. QED
  BY <1>1, <1>2

\* It is the sequence of its elements.
LEMMA FiveBytes ==
  ASSUME NEW h \in Seq(Bytes), Len(h) = 5
  PROVE  h = <<h[1], h[2], h[3], h[4], h[5]>>
<1>. DEFINE t == <<h[1], h[2], h[3], h[4], h[5]>>
<1>1. t \in Seq(Bytes) /\ Len(t) = 5
  BY HeaderBytes
<1>2. t[1] = h[1] /\ t[2] = h[2] /\ t[3] = h[3] /\ t[4] = h[4] /\ t[5] = h[5]
  OBVIOUS
<1>. HIDE DEF t
<1>3. \A i \in 1..5 : i \in {1, 2, 3, 4, 5}
  OBVIOUS
<1>4. \A i \in 1..Len(h) : h[i] = t[i]
  BY <1>2, <1>3
<1>5. h = t
  BY <1>1, <1>4, SeqEqual
<1>. QED
  BY <1>5 DEF t

\* A number by its two bytes.
Word(lo, hi) == lo + (256 * hi)

\* The bytes of a version 2 header.
LEMMA V2Head ==
  ASSUME NEW pre \in Seq(Bytes), Len(pre) = 3, NEW h \in Seq(Bytes), Len(h) = 5
  PROVE  /\ pre \o h \in Seq(Bytes) /\ Len(pre \o h) = 8
         /\ (pre \o h)[2] = pre[2] /\ (pre \o h)[3] = pre[3]
         /\ (pre \o h)[4] = h[1] /\ (pre \o h)[5] = h[2] /\ (pre \o h)[6] = h[3]
         /\ (pre \o h)[7] = h[4] /\ (pre \o h)[8] = h[5]
<1>. DEFINE s == pre \o h
<1>1. /\ s \in Seq(Bytes) /\ Len(s) = Len(pre) + Len(h)
      /\ \A i \in 1..Len(pre) + Len(h) : s[i] = IF i <= Len(pre) THEN pre[i] ELSE h[i - Len(pre)]
  BY ConcatProperties
<1>. HIDE DEF s
<1>2. \A i \in 1..8 : s[i] = IF i <= 3 THEN pre[i] ELSE h[i - 3]
  BY <1>1
<1>3. /\ s[2] = pre[2] /\ s[3] = pre[3] /\ s[4] = h[1] /\ s[5] = h[2] /\ s[6] = h[3]
      /\ s[7] = h[4] /\ s[8] = h[5]
  BY <1>2
<1>. QED
  BY <1>1, <1>3 DEF s

\* The bytes of version 2 are a frame exactly when the checksum is right, and then
\* the one their fields say.
LEMMA V2Frame ==
  ASSUME NEW d \in Directions, NEW h \in Seq(Bytes), Len(h) = 5,
         NEW p \in Seq(Bytes), Len(p) = Word(h[4], h[5]), NEW b \in Bytes
  PROVE  FrameOf(Append((<<Dollar, ProtoX, d>> \o h) \o p, b)) =
            IF b = CRC8DVBS2(p, CRC8DVBS2(h, 0))
            THEN {[version |-> 2, direction |-> d, code |-> Word(h[2], h[3]), payload |-> p]}
            ELSE {}
<1>. DEFINE n == Len(p)
            c == Word(h[2], h[3])
            head == <<Dollar, ProtoX, d>> \o h
            s == Append(head \o p, b)
            v2 == [version |-> 2, direction |-> d, code |-> c, payload |-> p]
            crc == CRC8DVBS2(p, CRC8DVBS2(h, 0))
<1>0. Dollar \in Bytes /\ ProtoX \in Bytes /\ d \in Bytes /\ 0 \in Bytes
  BY DEF Bytes, Directions, Dollar, ProtoX
<1>1. /\ n \in Nat /\ <<Dollar, ProtoX, d>> \in Seq(Bytes) /\ 0 \in Bytes
      /\ h[1] \in Bytes /\ h[2] \in Bytes /\ h[3] \in Bytes /\ h[4] \in Bytes /\ h[5] \in Bytes
  BY <1>0, HeaderBytes
<1>2. /\ head \in Seq(Bytes) /\ Len(head) = 8
      /\ head[2] = ProtoX /\ head[3] = d /\ head[4] = h[1] /\ head[5] = h[2] /\ head[6] = h[3]
  <2>. DEFINE pre == <<Dollar, ProtoX, d>>
  <2>1. pre \in Seq(Bytes) /\ Len(pre) = 3 /\ pre[2] = ProtoX /\ pre[3] = d
    BY <1>1
  <2>. HIDE DEF pre
  <2>2. /\ pre \o h \in Seq(Bytes) /\ Len(pre \o h) = 8
        /\ (pre \o h)[2] = pre[2] /\ (pre \o h)[3] = pre[3]
        /\ (pre \o h)[4] = h[1] /\ (pre \o h)[5] = h[2] /\ (pre \o h)[6] = h[3]
    BY <2>1, V2Head
  <2>. QED
    BY <2>1, <2>2 DEF pre
<1>3. /\ s \in Seq(Bytes) /\ Len(s) = n + 9
      /\ s[2] = ProtoX /\ s[3] = d /\ s[4] = h[1] /\ s[5] = h[2] /\ s[6] = h[3]
      /\ SubSeq(s, 9, Len(s) - 1) = p
  <2>0. /\ n \in Nat /\ 8 = Len(head) /\ head \in Seq(Bytes)
        /\ p \in Seq(Bytes) /\ b \in Bytes /\ s = Append(head \o p, b) /\ n = Len(p)
    BY <1>1, <1>2
  <2>. HIDE DEF head, s, n
  <2>1. /\ s \in Seq(Bytes) /\ Len(s) = 8 + n + 1
        /\ \A i \in 1..8 : s[i] = head[i]
        /\ SubSeq(s, 8 + 1, 8 + n) = p
    <3>1. /\ Append(head \o p, b) \in Seq(Bytes)
          /\ Len(Append(head \o p, b)) = Len(head) + Len(p) + 1
          /\ \A i \in 1..Len(head) : Append(head \o p, b)[i] = head[i]
          /\ SubSeq(Append(head \o p, b), Len(head) + 1, Len(head) + Len(p)) = p
      BY <2>0, Parts
    <3>. QED
      BY <2>0, <3>1
  <2>2. Len(s) = n + 9 /\ Len(s) - 1 = 8 + n /\ 8 + 1 = 9
    BY <1>1, <2>1
  <2>3. s[2] = head[2] /\ s[3] = head[3] /\ s[4] = head[4] /\ s[5] = head[5] /\ s[6] = head[6]
    BY <2>1
  <2>. QED
    BY <1>2, <2>1, <2>2, <2>3
<1>4. crc \in Bytes /\ CRC8DVBS2(h \o p, 0) = crc
  <2>1. CRC8DVBS2(h, 0) \in Bytes
    BY <1>1, DVBS2Concat
  <2>2. crc \in Bytes
    BY <2>1, DVBS2Concat
  <2>3. CRC8DVBS2(h \o p, 0) = crc
    BY <1>1, DVBS2Concat
  <2>. QED
    BY <2>2, <2>3
<1>5. EncodeV2(v2, h[1]) = Append(head \o p, crc)
  <2>1. <<h[1], c % 256, c \div 256, n % 256, n \div 256>> = h
    <3>0. c = h[2] + (256 * h[3]) /\ n = h[4] + (256 * h[5])
      BY DEF Word
    <3>1. c % 256 = h[2] /\ c \div 256 = h[3] /\ n % 256 = h[4] /\ n \div 256 = h[5]
      <4>. HIDE DEF c, n
      <4>. QED
        BY <1>1, <3>0, TwoBytes
    <3>. HIDE DEF c, n
    <3>. QED
      BY <3>1, FiveBytes
  <2>2. EncodeV2(v2, h[1]) = <<Dollar, ProtoX, d>> \o (h \o p) \o <<CRC8DVBS2(h \o p, 0)>>
    <3>1. v2.code = c /\ v2.payload = p /\ v2.direction = d
      OBVIOUS
    <3>. HIDE DEF v2, c, n
    <3>. QED
      BY <2>1, <3>1 DEF EncodeV2, n
  <2>3. <<Dollar, ProtoX, d>> \o (h \o p) = head \o p
    BY <1>1, ConcatAssociative
  <2>4. (<<Dollar, ProtoX, d>> \o (h \o p)) \o <<crc>>
           = <<Dollar, ProtoX, d>> \o ((h \o p) \o <<crc>>)
    BY <1>1, <1>4, ConcatAssociative
  <2>5. head \o p \in Seq(Bytes)
    BY <1>2
  <2>. HIDE DEF head, crc
  <2>. QED
    BY <1>1, <1>4, <2>2, <2>3, <2>4, <2>5, AppendIsConcat
<1>6. EncodeV2(v2, h[1]) = s <=> b = crc
  <2>1. head \o p \in Seq(Bytes)
    BY <1>2
  <2>. HIDE DEF head, crc
  <2>. QED
    BY <1>4, <1>5, <2>1, AppendInjective
<1>7. FieldsV2(s) = v2
  <2>. HIDE DEF head, s
  <2>1. s[5] + (256 * s[6]) = c
    BY <1>3 DEF Word
  <2>. HIDE DEF c
  <2>. QED
    BY <1>3, <2>1 DEF FieldsV2
<1>8. IsV2(s) <=> EncodeV2(v2, h[1]) = s
  <2>1. Len(s) > 8
    BY <1>1, <1>3
  <2>. HIDE DEF s, v2, c, head
  <2>. QED
    BY <1>3, <1>7, <2>1 DEF IsV2
<1>9. ~IsV1(s)
  <2>. HIDE DEF head, s
  <2>. QED
    BY <1>3 DEF IsV1, ProtoM, ProtoX
<1>. HIDE DEF s, v2, crc
<1>10. FrameOf(s) = IF b = crc THEN {v2} ELSE {}
  BY <1>6, <1>7, <1>8, <1>9, Zenon DEF FrameOf
<1>. QED
  BY <1>10 DEF s, v2, crc

-------------------------------------------------------------------------------
(* The decoder's invariant. *)

\* Tuples grow by what is appended.
LEMMA Tuple1 ==
  ASSUME NEW a \in Bytes
  PROVE  Append(<<>>, a) = <<a>>
<1>. DEFINE s == Append(<<>>, a)
            t == <<a>>
<1>1. /\ s \in Seq(Bytes) /\ Len(s) = 1 /\ t \in Seq(Bytes) /\ Len(t) = 1
      /\ s[1] = t[1]
  OBVIOUS
<1>. HIDE DEF s, t
<1>2. \A i \in 1..Len(s) : s[i] = t[i]
  BY <1>1
<1>3. s = t
  BY <1>1, <1>2, SeqEqual
<1>. QED
  BY <1>3 DEF s, t

\* Two bytes.
LEMMA Tuple2 ==
  ASSUME NEW a \in Bytes, NEW b \in Bytes
  PROVE  Append(<<a>>, b) = <<a, b>>
<1>. DEFINE s == Append(<<a>>, b)
            t == <<a, b>>
<1>1. /\ s \in Seq(Bytes) /\ Len(s) = 2 /\ t \in Seq(Bytes) /\ Len(t) = 2
      /\ s[1] = t[1] /\ s[2] = t[2]
  OBVIOUS
<1>. HIDE DEF s, t
<1>2. \A i \in 1..Len(s) : s[i] = t[i]
  BY <1>1
<1>3. s = t
  BY <1>1, <1>2, SeqEqual
<1>. QED
  BY <1>3 DEF s, t

\* Three bytes.
LEMMA Tuple3 ==
  ASSUME NEW a \in Bytes, NEW b \in Bytes, NEW c \in Bytes
  PROVE  Append(<<a, b>>, c) = <<a, b, c>>
<1>. DEFINE s == Append(<<a, b>>, c)
            t == <<a, b, c>>
<1>1. /\ s \in Seq(Bytes) /\ Len(s) = 3 /\ t \in Seq(Bytes) /\ Len(t) = 3
      /\ s[1] = t[1] /\ s[2] = t[2] /\ s[3] = t[3]
  OBVIOUS
<1>. HIDE DEF s, t
<1>2. \A i \in 1..Len(s) : s[i] = t[i]
  BY <1>1
<1>3. s = t
  BY <1>1, <1>2, SeqEqual
<1>. QED
  BY <1>3 DEF s, t

\* Four bytes.
LEMMA Tuple4 ==
  ASSUME NEW a \in Bytes, NEW b \in Bytes, NEW c \in Bytes, NEW d \in Bytes
  PROVE  Append(<<a, b, c>>, d) = <<a, b, c, d>>
<1>. DEFINE s == Append(<<a, b, c>>, d)
            t == <<a, b, c, d>>
<1>1. /\ s \in Seq(Bytes) /\ Len(s) = 4 /\ t \in Seq(Bytes) /\ Len(t) = 4
      /\ s[1] = t[1] /\ s[2] = t[2] /\ s[3] = t[3] /\ s[4] = t[4]
  OBVIOUS
<1>. HIDE DEF s, t
<1>2. \A i \in 1..Len(s) : s[i] = t[i]
  BY <1>1
<1>3. s = t
  BY <1>1, <1>2, SeqEqual
<1>. QED
  BY <1>3 DEF s, t

\* Five bytes.
LEMMA Tuple5 ==
  ASSUME NEW a \in Bytes, NEW b \in Bytes, NEW c \in Bytes, NEW d \in Bytes, NEW e \in Bytes
  PROVE  Append(<<a, b, c, d>>, e) = <<a, b, c, d, e>>
<1>. DEFINE s == Append(<<a, b, c, d>>, e)
            t == <<a, b, c, d, e>>
<1>1. /\ s \in Seq(Bytes) /\ Len(s) = 5 /\ t \in Seq(Bytes) /\ Len(t) = 5
      /\ s[1] = t[1] /\ s[2] = t[2] /\ s[3] = t[3] /\ s[4] = t[4] /\ s[5] = t[5]
  OBVIOUS
<1>. HIDE DEF s, t
<1>2. \A i \in 1..Len(s) : s[i] = t[i]
  BY <1>1
<1>3. s = t
  BY <1>1, <1>2, SeqEqual
<1>. QED
  BY <1>3 DEF s, t

\* The checksum of the length and the code of a version 1 frame.
LEMMA CRC8XorTwo ==
  ASSUME NEW a \in Bytes, NEW b \in Bytes
  PROVE  CRC8Xor(<<a, b>>) = xor[a][b]
<1>1. <<>> \in Seq(Bytes) /\ <<a>> \in Seq(Bytes)
  OBVIOUS
<1>2. Append(<<>>, a) = <<a>> /\ Append(<<a>>, b) = <<a, b>>
  BY Tuple1, Tuple2
<1>3. CRC8Xor(<<a>>) = a
  BY <1>1, <1>2, CRC8XorAppend, CRC8XorEmpty, XorZero
<1>. QED
  BY <1>1, <1>2, <1>3, CRC8XorAppend

\* Nothing of a frame is stored.
Fresh == code = 0 /\ size = 0 /\ payload = <<>> /\ checksum = 0 /\ v2Header = <<>>

\* Between two attempts.
InIdle == state = "Idle" => /\ Fresh /\ version = 0 /\ direction = 0
                            /\ frames = {} \/ \E frame : frames = {frame}
                            /\ seen # <<>> => frames = FrameOf(seen)

\* The preamble, and a direction expected.
InPreamble ==
    /\ state = "Proto" => /\ Fresh /\ version = 0 /\ direction = 0
                          /\ seen = <<Dollar>>
    /\ state = "Direction" => /\ Fresh /\ direction = 0 /\ version \in {1, 2}
                              /\ version = 1 => seen = <<Dollar, ProtoM>>
                              /\ version = 2 => seen = <<Dollar, ProtoX>>

\* Version 1: the bytes so far are the stored fields, in order, and the checksum
\* is that of the bytes after the direction.
InV1Header ==
    /\ state = "V1Len" => /\ version = 1 /\ direction \in Directions /\ Fresh
                          /\ seen = <<Dollar, ProtoM, direction>>
    /\ state = "V1Code" => /\ version = 1 /\ direction \in Directions
                           /\ code = 0 /\ payload = <<>> /\ v2Header = <<>>
                           /\ size \in Bytes /\ size <= MaxSize /\ checksum = size
                           /\ seen = <<Dollar, ProtoM, direction, size>>

InV1Body ==
    state \in {"V1Payload", "V1Checksum"} =>
        /\ version = 1 /\ direction \in Directions /\ v2Header = <<>>
        /\ size \in Bytes /\ size <= MaxSize /\ code \in Bytes /\ payload \in Seq(Bytes)
        /\ state = "V1Payload" => Len(payload) < size
        /\ state = "V1Checksum" => Len(payload) = size
        /\ checksum = CRC8Xor(<<size, code>> \o payload)
        /\ seen = <<Dollar, ProtoM, direction, size, code>> \o payload

\* Version 2: the header is stored as it came, and the code and the size are made
\* of its bytes.
InV2Header ==
    /\ state = "V2Flag" => /\ version = 2 /\ direction \in Directions /\ Fresh
                           /\ seen = <<Dollar, ProtoX, direction>>
    /\ state \in {"V2CodeLo", "V2CodeHi", "V2LenLo", "V2LenHi"} =>
          /\ version = 2 /\ direction \in Directions /\ payload = <<>> /\ checksum = 0
          /\ size \in Bytes /\ size <= MaxSize
          /\ seen = <<Dollar, ProtoX, direction>> \o v2Header
          /\ v2Header \in Seq(Bytes)
    /\ state = "V2CodeLo" => code = 0 /\ size = 0 /\ Len(v2Header) = 1
    /\ state = "V2CodeHi" => /\ size = 0 /\ code \in Bytes
                             /\ Len(v2Header) = 2 /\ v2Header[2] = code
    /\ state = "V2LenLo" => size = 0 /\ Len(v2Header) = 3
    /\ state = "V2LenHi" => Len(v2Header) = 4 /\ v2Header[4] = size
    /\ state \in {"V2LenLo", "V2LenHi"} => code = Word(v2Header[2], v2Header[3])

InV2Body ==
    state \in {"V2Payload", "V2Checksum"} =>
        /\ version = 2 /\ direction \in Directions /\ checksum = 0
        /\ v2Header \in Seq(Bytes) /\ Len(v2Header) = 5
        /\ code = Word(v2Header[2], v2Header[3])
        /\ size = Word(v2Header[4], v2Header[5]) /\ size <= MaxSize
        /\ payload \in Seq(Bytes)
        /\ state = "V2Payload" => Len(payload) < size
        /\ state = "V2Checksum" => Len(payload) = size
        /\ seen = (<<Dollar, ProtoX, direction>> \o v2Header) \o payload

\* The inductive invariant: in each state, what is stored is what the bytes of the
\* attempt have said so far.
FramingInv ==
    /\ state \in DecoderStates
    /\ state # "Idle" => frames = {}
    /\ InIdle /\ InPreamble
    /\ InV1Header /\ InV1Body
    /\ InV2Header /\ InV2Body

\* What Feed is given is a byte, and a length within the bound.
LEMMA OfferedAreBytes ==
  ASSUME FramingInv, NEW b \in Offered
  PROVE  /\ b \in Bytes
         /\ state \in {"V1Len", "V2LenLo"} => b <= MaxSize
         /\ state = "V2LenHi" => size + 256 * b <= MaxSize
<1>1. Expected \in Bytes \/ state \notin {"V1Checksum", "V2Checksum"}
  <2>1. CASE state = "V1Checksum"
    <3>1. version = 1 /\ size \in Bytes /\ code \in Bytes /\ payload \in Seq(Bytes)
          /\ checksum = CRC8Xor(<<size, code>> \o payload)
      BY <2>1 DEF FramingInv, InV1Body
    <3>2. <<size, code>> \o payload \in Seq(Bytes)
      BY <3>1
    <3>3. 0 \in Bytes
      BY DEF Bytes
    <3>4. checksum \in Bytes
      BY <3>1, <3>2, <3>3, CRC8XorAppend
    <3>. QED
      BY <3>1, <3>4 DEF Expected
  <2>2. CASE state = "V2Checksum"
    <3>1. version = 2 /\ v2Header \in Seq(Bytes) /\ payload \in Seq(Bytes)
      BY <2>2 DEF FramingInv, InV2Body
    <3>2. 0 \in Bytes
      BY DEF Bytes
    <3>3. CRC8DVBS2(v2Header, 0) \in Bytes
      BY <3>1, <3>2, DVBS2Concat
    <3>4. CRC8DVBS2(payload, CRC8DVBS2(v2Header, 0)) \in Bytes
      BY <3>1, <3>3, DVBS2Concat
    <3>. QED
      BY <3>1, <3>4 DEF Expected
  <2>. QED
    BY <2>1, <2>2
<1>. QED
  BY <1>1, FramingAssumption DEF Offered

-------------------------------------------------------------------------------
(* Its steps: idle and the preamble. *)

\* One byte more of the attempt, or the first of a new one.
Grow(b) == seen' = IF state = "Idle" THEN <<b>> ELSE Append(seen, b)

\* Idle, case by case of the switch in Feed: "$" begins an attempt, and whatever
\* else arrives is dropped.
LEMMA StepIdle ==
  ASSUME FramingInv, NEW b \in Bytes, Idle(b), Grow(b)
  PROVE  FramingInv'
<1>1. state = "Idle" /\ Fresh /\ version = 0 /\ direction = 0
  BY DEF Idle, FramingInv, InIdle
<1>2. /\ seen' = <<b>> /\ frames' = {}
      /\ UNCHANGED <<version, direction, code, size, payload, checksum, v2Header>>
      /\ state' = IF b = Dollar THEN "Proto" ELSE "Idle"
  BY <1>1 DEF Idle, Grow, Goto
<1>3. CASE b = Dollar
  BY <1>1, <1>2, <1>3 DEF FramingInv, InIdle, InPreamble, InV1Header, InV1Body,
        InV2Header, InV2Body, Fresh, DecoderStates
<1>4. CASE b # Dollar
  <2>1. FrameOf(<<b>>) = {}
    BY FrameOfShort
  <2>. QED
    BY <1>1, <1>2, <1>4, <2>1 DEF FramingInv, InIdle, InPreamble, InV1Header, InV1Body,
        InV2Header, InV2Body, Fresh, DecoderStates
<1>. QED
  BY <1>3, <1>4

\* Reset leaves nothing stored, whatever it reports.
LEMMA AfterReset ==
  ASSUME Reset, seen' # <<>> => frames' = FrameOf(seen)',
         frames' = {} \/ \E frame : frames' = {frame}
  PROVE  FramingInv'
BY DEF Reset, FramingInv, InIdle, InPreamble, InV1Header, InV1Body,
       InV2Header, InV2Body, Fresh, DecoderStates

\* The letter of the version.
LEMMA StepProto ==
  ASSUME FramingInv, NEW b \in Bytes, Proto(b), Grow(b)
  PROVE  FramingInv'
<1>1. state = "Proto" /\ Fresh /\ version = 0 /\ direction = 0 /\ seen = <<Dollar>>
  BY DEF Proto, FramingInv, InPreamble
<1>2. seen' = <<Dollar, b>>
  <2>1. Dollar \in Bytes
    BY DEF Dollar, Bytes
  <2>2. Append(<<Dollar>>, b) = <<Dollar, b>>
    BY <2>1, Tuple2
  <2>. QED
    BY <1>1, <2>2 DEF Grow
<1>3. CASE b \in {ProtoM, ProtoX}
  <2>1. /\ version' = (IF b = ProtoM THEN 1 ELSE 2) /\ state' = "Direction" /\ frames' = {}
        /\ UNCHANGED <<direction, code, size, payload, checksum, v2Header>>
    BY <1>3 DEF Proto, Goto
  <2>2. ProtoM # ProtoX
    BY DEF ProtoM, ProtoX
  <2>. QED
    BY <1>1, <1>2, <1>3, <2>1, <2>2 DEF FramingInv, InIdle, InPreamble, InV1Header, InV1Body,
        InV2Header, InV2Body, Fresh, DecoderStates
<1>4. CASE b \notin {ProtoM, ProtoX}
  <2>1. Reset /\ frames' = {}
    BY <1>4 DEF Proto
  <2>2. FrameOf(<<Dollar, b>>) = {}
    BY FrameOfShort
  <2>. QED
    BY <1>2, <2>1, <2>2, AfterReset
<1>. QED
  BY <1>3, <1>4

\* The direction.
LEMMA StepDirection ==
  ASSUME FramingInv, NEW b \in Bytes, Direction(b), Grow(b)
  PROVE  FramingInv'
<1>1. /\ state = "Direction" /\ Fresh /\ direction = 0 /\ version \in {1, 2}
      /\ version = 1 => seen = <<Dollar, ProtoM>>
      /\ version = 2 => seen = <<Dollar, ProtoX>>
  BY DEF Direction, FramingInv, InPreamble
<1>2. /\ version = 1 => seen' = <<Dollar, ProtoM, b>>
      /\ version = 2 => seen' = <<Dollar, ProtoX, b>>
      /\ version' = 1 => version = 1
  <2>1. Dollar \in Bytes /\ ProtoM \in Bytes /\ ProtoX \in Bytes
    BY DEF Dollar, ProtoM, ProtoX, Bytes
  <2>2. seen' = Append(seen, b)
    BY <1>1 DEF Grow
  <2>3. version' = 1 => version = 1
    BY <1>1 DEF Direction, Reset
  <2>4. /\ Append(<<Dollar, ProtoM>>, b) = <<Dollar, ProtoM, b>>
        /\ Append(<<Dollar, ProtoX>>, b) = <<Dollar, ProtoX, b>>
    BY <2>1, Tuple3
  <2>. QED
    BY <1>1, <2>2, <2>3, <2>4
<1>3. CASE b \in Directions
  <2>1. /\ direction' = b /\ state' = (IF version = 1 THEN "V1Len" ELSE "V2Flag") /\ frames' = {}
        /\ UNCHANGED <<version, code, size, payload, checksum, v2Header>>
    BY <1>3 DEF Direction, Goto
  <2>. QED
    BY <1>1, <1>2, <1>3, <2>1 DEF FramingInv, InIdle, InPreamble, InV1Header, InV1Body,
        InV2Header, InV2Body, Fresh, DecoderStates
<1>4. CASE b \notin Directions
  <2>1. Reset /\ frames' = {}
    BY <1>4 DEF Direction
  <2>2. FrameOf(<<Dollar, ProtoM, b>>) = {} /\ FrameOf(<<Dollar, ProtoX, b>>) = {}
    BY FrameOfShort
  <2>3. FrameOf(seen)' = {}
    BY <1>1, <1>2, <2>2
  <2>. QED
    BY <2>1, <2>3, AfterReset
<1>. QED
  BY <1>3, <1>4

-------------------------------------------------------------------------------
(* Its steps: version 1 and the payloads. *)

\* The same of three parts.
LEMMA AppendConcat3 ==
  ASSUME NEW S, NEW r \in Seq(S), NEW s \in Seq(S), NEW t \in Seq(S), NEW b \in S
  PROVE  Append((r \o s) \o t, b) = (r \o s) \o Append(t, b)
<1>. DEFINE head == r \o s
<1>1. head \in Seq(S)
  OBVIOUS
<1>. HIDE DEF head
<1>2. head \o Append(t, b) = Append(head \o t, b)
  BY <1>1, AppendConcat
<1>. QED
  BY <1>2 DEF head

\* The bound is a number.
LEMMA MaxSizeNat == MaxSize \in Nat
<1>1. MaxWord \in Nat
  BY DEF MaxWord
<1>. QED
  BY <1>1, FramingAssumption DEF Words

\* So is a number of two bytes.
LEMMA WordNat ==
  ASSUME NEW lo \in Bytes, NEW hi \in Bytes
  PROVE  Word(lo, hi) \in Nat
BY DEF Bytes, Word

\* Version 1: the length.
LEMMA StepV1Len ==
  ASSUME FramingInv, NEW b \in Bytes, b <= MaxSize, V1Len(b), Grow(b)
  PROVE  FramingInv'
<1>1. /\ state = "V1Len" /\ version = 1 /\ direction \in Directions /\ Fresh
      /\ seen = <<Dollar, ProtoM, direction>>
  BY DEF V1Len, FramingInv, InV1Header
<1>2. seen' = <<Dollar, ProtoM, direction, b>>
  <2>1. Dollar \in Bytes /\ ProtoM \in Bytes /\ direction \in Bytes
    BY <1>1 DEF Dollar, ProtoM, Directions, Bytes
  <2>2. Append(<<Dollar, ProtoM, direction>>, b) = <<Dollar, ProtoM, direction, b>>
    BY <2>1, Tuple4
  <2>. QED
    BY <1>1, <2>2 DEF Grow
<1>3. /\ size' = b /\ checksum' = b /\ state' = "V1Code" /\ frames' = {}
      /\ UNCHANGED <<version, direction, code, payload, v2Header>>
  BY DEF V1Len, Goto
<1>. QED
  BY <1>1, <1>2, <1>3 DEF FramingInv, InIdle, InPreamble, InV1Header, InV1Body,
      InV2Header, InV2Body, Fresh, DecoderStates

\* Version 1: the code, after which a payload or the checksum is expected.
LEMMA StepV1Code ==
  ASSUME FramingInv, NEW b \in Bytes, V1Code(b), Grow(b)
  PROVE  FramingInv'
<1>1. /\ state = "V1Code" /\ version = 1 /\ direction \in Directions
      /\ code = 0 /\ payload = <<>> /\ v2Header = <<>>
      /\ size \in Bytes /\ size <= MaxSize /\ checksum = size
      /\ seen = <<Dollar, ProtoM, direction, size>>
  BY DEF V1Code, FramingInv, InV1Header
<1>2. Dollar \in Bytes /\ ProtoM \in Bytes /\ direction \in Bytes
  BY <1>1 DEF Dollar, ProtoM, Directions, Bytes
<1>3. seen' = <<Dollar, ProtoM, direction, size, b>> \o <<>>
  <2>1. Append(<<Dollar, ProtoM, direction, size>>, b) = <<Dollar, ProtoM, direction, size, b>>
    BY <1>1, <1>2, Tuple5
  <2>2. <<Dollar, ProtoM, direction, size, b>> \in Seq(Bytes)
    BY <1>1, <1>2
  <2>3. <<Dollar, ProtoM, direction, size, b>> \o <<>> = <<Dollar, ProtoM, direction, size, b>>
    BY <2>2, ConcatEmptySeq
  <2>. QED
    BY <1>1, <2>1, <2>3 DEF Grow
<1>4. xor[size][b] = CRC8Xor(<<size, b>> \o <<>>)
  <2>1. <<size, b>> \in Seq(Bytes)
    BY <1>1
  <2>2. <<size, b>> \o <<>> = <<size, b>>
    BY <2>1, ConcatEmptySeq
  <2>. QED
    BY <1>1, <2>2, CRC8XorTwo
<1>5. /\ code' = b /\ checksum' = xor[checksum][b] /\ frames' = {}
      /\ state' = IF size = 0 THEN "V1Checksum" ELSE "V1Payload"
      /\ UNCHANGED <<version, direction, size, payload, v2Header>>
  BY DEF V1Code, Goto
<1>6. /\ version' = 1 /\ direction' \in Directions /\ v2Header' = <<>>
      /\ size' \in Bytes /\ size' <= MaxSize /\ code' \in Bytes /\ payload' = <<>>
      /\ checksum' = CRC8Xor(<<size', code'>> \o payload')
      /\ seen' = <<Dollar, ProtoM, direction', size', code'>> \o payload'
  BY <1>1, <1>3, <1>4, <1>5
<1>7. /\ payload' \in Seq(Bytes)
      /\ state' = "V1Payload" => Len(payload') < size'
      /\ state' = "V1Checksum" => Len(payload') = size'
  BY <1>1, <1>5, <1>6 DEF Bytes
<1>8. InV1Body'
  BY <1>6, <1>7, Zenon DEF InV1Body
<1>9. state' \in {"V1Payload", "V1Checksum"}
  BY <1>5
<1>. QED
  BY <1>5, <1>8, <1>9 DEF FramingInv, InIdle, InPreamble, InV1Header,
      InV2Header, InV2Body, DecoderStates

\* Version 1: a byte of the payload, the last or not.
LEMMA StepV1Payload ==
  ASSUME FramingInv, NEW b \in Bytes, Payload(b), Grow(b), state = "V1Payload"
  PROVE  FramingInv'
<1>1. /\ version = 1 /\ direction \in Directions /\ v2Header = <<>>
      /\ size \in Bytes /\ size <= MaxSize /\ code \in Bytes /\ payload \in Seq(Bytes)
      /\ Len(payload) < size
      /\ checksum = CRC8Xor(<<size, code>> \o payload)
      /\ seen = <<Dollar, ProtoM, direction, size, code>> \o payload
  BY DEF FramingInv, InV1Body
<1>2. Dollar \in Bytes /\ ProtoM \in Bytes /\ direction \in Bytes
  BY <1>1 DEF Dollar, ProtoM, Directions, Bytes
<1>3. /\ payload' = Append(payload, b) /\ checksum' = xor[checksum][b] /\ frames' = {}
      /\ state' = IF Len(payload) + 1 < size THEN "V1Payload" ELSE "V1Checksum"
      /\ UNCHANGED <<version, direction, code, size, v2Header>>
  BY DEF Payload, Goto
<1>4. seen' = <<Dollar, ProtoM, direction, size, code>> \o payload'
  <2>1. <<Dollar, ProtoM, direction, size, code>> \in Seq(Bytes)
    BY <1>1, <1>2
  <2>2. Append(<<Dollar, ProtoM, direction, size, code>> \o payload, b)
           = <<Dollar, ProtoM, direction, size, code>> \o Append(payload, b)
    BY <1>1, <2>1, AppendConcat
  <2>. QED
    BY <1>1, <1>3, <2>2 DEF Grow
<1>5. checksum' = CRC8Xor(<<size, code>> \o payload')
  <2>1. <<size, code>> \in Seq(Bytes)
    BY <1>1
  <2>2. <<size, code>> \o payload \in Seq(Bytes)
    BY <1>1, <2>1
  <2>3. Append(<<size, code>> \o payload, b) = <<size, code>> \o Append(payload, b)
    BY <1>1, <2>1, AppendConcat
  <2>4. CRC8Xor(Append(<<size, code>> \o payload, b)) = xor[CRC8Xor(<<size, code>> \o payload)][b]
    BY <2>2, CRC8XorAppend
  <2>. QED
    BY <1>1, <1>3, <2>3, <2>4
<1>6. /\ payload' \in Seq(Bytes)
      /\ state' = "V1Payload" => Len(payload') < size'
      /\ state' = "V1Checksum" => Len(payload') = size'
  <2>1. Append(payload, b) \in Seq(Bytes) /\ Len(Append(payload, b)) = Len(payload) + 1
        /\ Len(payload) \in Nat /\ size \in Nat
    BY <1>1 DEF Bytes
  <2>. QED
    BY <1>1, <1>3, <2>1
<1>7. /\ version' = 1 /\ direction' \in Directions /\ v2Header' = <<>>
      /\ size' \in Bytes /\ size' <= MaxSize /\ code' \in Bytes
      /\ checksum' = CRC8Xor(<<size', code'>> \o payload')
      /\ seen' = <<Dollar, ProtoM, direction', size', code'>> \o payload'
  BY <1>1, <1>3, <1>4, <1>5
<1>8. InV1Body'
  BY <1>6, <1>7, Zenon DEF InV1Body
<1>9. state' \in {"V1Payload", "V1Checksum"}
  BY <1>3
<1>. QED
  BY <1>3, <1>8, <1>9 DEF FramingInv, InIdle, InPreamble, InV1Header,
      InV2Header, InV2Body, DecoderStates

\* Version 2: a byte of the payload, the last or not.
LEMMA StepV2Payload ==
  ASSUME FramingInv, NEW b \in Bytes, Payload(b), Grow(b), state = "V2Payload"
  PROVE  FramingInv'
<1>1. /\ version = 2 /\ direction \in Directions /\ checksum = 0
      /\ v2Header \in Seq(Bytes) /\ Len(v2Header) = 5
      /\ code = Word(v2Header[2], v2Header[3])
      /\ size = Word(v2Header[4], v2Header[5]) /\ size <= MaxSize
      /\ payload \in Seq(Bytes) /\ Len(payload) < size
      /\ seen = (<<Dollar, ProtoX, direction>> \o v2Header) \o payload
  BY DEF FramingInv, InV2Body
<1>2. /\ payload' = Append(payload, b) /\ checksum' = checksum /\ frames' = {}
      /\ state' = IF Len(payload) + 1 < size THEN "V2Payload" ELSE "V2Checksum"
      /\ UNCHANGED <<version, direction, code, size, v2Header>>
  BY DEF Payload, Goto
<1>3. seen' = (<<Dollar, ProtoX, direction>> \o v2Header) \o payload'
  <2>1. Dollar \in Bytes /\ ProtoX \in Bytes /\ direction \in Bytes
    BY <1>1 DEF Dollar, ProtoX, Directions, Bytes
  <2>2. <<Dollar, ProtoX, direction>> \o v2Header \in Seq(Bytes)
    BY <1>1, <2>1
  <2>3. (<<Dollar, ProtoX, direction>> \o v2Header) \o Append(payload, b)
           = Append((<<Dollar, ProtoX, direction>> \o v2Header) \o payload, b)
    <3>1. <<Dollar, ProtoX, direction>> \in Seq(Bytes)
      BY <2>1
    <3>. QED
      BY <1>1, <3>1, AppendConcat3
  <2>. QED
    BY <1>1, <1>2, <2>3 DEF Grow
<1>4. size \in Nat
  <2>1. v2Header[4] \in Bytes /\ v2Header[5] \in Bytes
    BY <1>1, HeaderBytes
  <2>. QED
    BY <1>1, <2>1 DEF Bytes, Word
<1>5. /\ payload' \in Seq(Bytes)
      /\ state' = "V2Payload" => Len(payload') < size'
      /\ state' = "V2Checksum" => Len(payload') = size'
  <2>1. Append(payload, b) \in Seq(Bytes) /\ Len(Append(payload, b)) = Len(payload) + 1
        /\ Len(payload) \in Nat
    BY <1>1
  <2>. QED
    BY <1>1, <1>2, <1>4, <2>1
<1>6. /\ version' = 2 /\ direction' \in Directions /\ checksum' = 0
      /\ v2Header' \in Seq(Bytes) /\ Len(v2Header') = 5
      /\ code' = Word(v2Header'[2], v2Header'[3])
      /\ size' = Word(v2Header'[4], v2Header'[5]) /\ size' <= MaxSize
      /\ seen' = (<<Dollar, ProtoX, direction'>> \o v2Header') \o payload'
  BY <1>1, <1>2, <1>3
<1>7. InV2Body'
  BY <1>5, <1>6, Zenon DEF InV2Body
<1>8. state' \in {"V2Payload", "V2Checksum"}
  BY <1>2
<1>. QED
  BY <1>2, <1>7, <1>8 DEF FramingInv, InIdle, InPreamble, InV1Header, InV1Body,
      InV2Header, DecoderStates

-------------------------------------------------------------------------------
(* Its steps: the header of version 2. *)

\* Version 2: the flag.
LEMMA StepV2Flag ==
  ASSUME FramingInv, NEW b \in Bytes, V2Flag(b), Grow(b)
  PROVE  FramingInv'
<1>1. /\ state = "V2Flag" /\ version = 2 /\ direction \in Directions /\ Fresh
      /\ seen = <<Dollar, ProtoX, direction>>
  BY DEF V2Flag, FramingInv, InV2Header
<1>2. Dollar \in Bytes /\ ProtoX \in Bytes /\ direction \in Bytes
  BY <1>1 DEF Dollar, ProtoX, Directions, Bytes
<1>3. /\ v2Header' = <<b>> /\ state' = "V2CodeLo" /\ frames' = {}
      /\ UNCHANGED <<version, direction, code, size, payload, checksum>>
  BY DEF V2Flag, Goto
<1>4. seen' = <<Dollar, ProtoX, direction'>> \o v2Header'
  <2>1. Append(<<Dollar, ProtoX, direction>>, b) = <<Dollar, ProtoX, direction>> \o <<b>>
    BY <1>2, AppendIsConcat
  <2>. QED
    BY <1>1, <1>3, <2>1 DEF Grow
<1>5. v2Header' \in Seq(Bytes) /\ Len(v2Header') = 1
  BY <1>3
<1>6. /\ version' = 2 /\ direction' \in Directions /\ payload' = <<>> /\ checksum' = 0
      /\ code' = 0 /\ size' = 0 /\ size' \in Bytes /\ size' <= MaxSize
  BY <1>1, <1>3, MaxSizeNat DEF Fresh, Bytes
<1>7. InV2Header'
  BY <1>3, <1>4, <1>5, <1>6 DEF InV2Header
<1>. QED
  BY <1>3, <1>7 DEF FramingInv, InIdle, InPreamble, InV1Header, InV1Body,
      InV2Body, DecoderStates

\* A byte more of the version 2 header.
LEMMA HeaderGrows ==
  ASSUME FramingInv, NEW b \in Bytes, Grow(b), v2Header' = Append(v2Header, b),
         state \in {"V2CodeLo", "V2CodeHi", "V2LenLo", "V2LenHi"}
  PROVE  /\ v2Header' \in Seq(Bytes) /\ Len(v2Header') = Len(v2Header) + 1
         /\ \A i \in 1..Len(v2Header) : v2Header'[i] = v2Header[i]
         /\ v2Header'[Len(v2Header) + 1] = b
         /\ seen' = <<Dollar, ProtoX, direction>> \o v2Header'
<1>1. /\ direction \in Directions /\ v2Header \in Seq(Bytes)
      /\ seen = <<Dollar, ProtoX, direction>> \o v2Header
  BY DEF FramingInv, InV2Header
<1>2. <<Dollar, ProtoX, direction>> \in Seq(Bytes)
  BY <1>1 DEF Dollar, ProtoX, Directions, Bytes
<1>3. Append(<<Dollar, ProtoX, direction>> \o v2Header, b)
         = <<Dollar, ProtoX, direction>> \o Append(v2Header, b)
  BY <1>1, <1>2, AppendConcat
<1>4. seen' = Append(seen, b)
  BY DEF Grow
<1>. QED
  BY <1>1, <1>3, <1>4, AppendProperties

\* Version 2: the low byte of the code.
LEMMA StepV2CodeLo ==
  ASSUME FramingInv, NEW b \in Bytes, V2Code(b), Grow(b), state = "V2CodeLo"
  PROVE  FramingInv'
<1>1. /\ version = 2 /\ direction \in Directions /\ payload = <<>> /\ checksum = 0
      /\ size = 0 /\ size \in Bytes /\ size <= MaxSize /\ Len(v2Header) = 1
  BY DEF FramingInv, InV2Header
<1>2. /\ code' = b /\ v2Header' = Append(v2Header, b) /\ state' = "V2CodeHi" /\ frames' = {}
      /\ UNCHANGED <<version, direction, size, payload, checksum>>
  BY DEF V2Code, Goto
<1>3. /\ v2Header' \in Seq(Bytes) /\ Len(v2Header') = 2 /\ v2Header'[2] = b
      /\ seen' = <<Dollar, ProtoX, direction>> \o v2Header'
  <2>1. Len(v2Header) + 1 = 2
    BY <1>1
  <2>. QED
    BY <1>2, <2>1, HeaderGrows
<1>4. InV2Header'
  BY <1>1, <1>2, <1>3 DEF InV2Header
<1>. QED
  BY <1>2, <1>4 DEF FramingInv, InIdle, InPreamble, InV1Header, InV1Body,
      InV2Body, DecoderStates

\* Version 2: its high byte.
LEMMA StepV2CodeHi ==
  ASSUME FramingInv, NEW b \in Bytes, V2Code(b), Grow(b), state = "V2CodeHi"
  PROVE  FramingInv'
<1>1. /\ version = 2 /\ direction \in Directions /\ payload = <<>> /\ checksum = 0
      /\ size = 0 /\ size \in Bytes /\ size <= MaxSize /\ Len(v2Header) = 2
      /\ v2Header[2] = code
  BY DEF FramingInv, InV2Header
<1>2. /\ code' = Word(code, b) /\ v2Header' = Append(v2Header, b)
      /\ state' = "V2LenLo" /\ frames' = {}
      /\ UNCHANGED <<version, direction, size, payload, checksum>>
  BY DEF V2Code, Goto, Word
<1>3. /\ v2Header' \in Seq(Bytes) /\ Len(v2Header') = 3
      /\ v2Header'[2] = code /\ v2Header'[3] = b
      /\ seen' = <<Dollar, ProtoX, direction>> \o v2Header'
  <2>1. Len(v2Header) + 1 = 3 /\ 2 \in 1..Len(v2Header)
    BY <1>1
  <2>. QED
    BY <1>1, <1>2, <2>1, HeaderGrows
<1>4. code' = Word(v2Header'[2], v2Header'[3])
  BY <1>2, <1>3
<1>5. InV2Header'
  BY <1>1, <1>2, <1>3, <1>4 DEF InV2Header
<1>. QED
  BY <1>2, <1>5 DEF FramingInv, InIdle, InPreamble, InV1Header, InV1Body,
      InV2Body, DecoderStates

\* Version 2: the low byte of the length.
LEMMA StepV2LenLo ==
  ASSUME FramingInv, NEW b \in Bytes, b <= MaxSize, V2LenLo(b), Grow(b)
  PROVE  FramingInv'
<1>1. /\ state = "V2LenLo"
      /\ version = 2 /\ direction \in Directions /\ payload = <<>> /\ checksum = 0
      /\ Len(v2Header) = 3 /\ code = Word(v2Header[2], v2Header[3])
  BY DEF V2LenLo, FramingInv, InV2Header
<1>2. /\ size' = b /\ v2Header' = Append(v2Header, b)
      /\ state' = "V2LenHi" /\ frames' = {}
      /\ UNCHANGED <<version, direction, code, payload, checksum>>
  BY DEF V2LenLo, Goto
<1>3. /\ v2Header' \in Seq(Bytes) /\ Len(v2Header') = 4 /\ v2Header'[4] = b
      /\ v2Header'[2] = v2Header[2] /\ v2Header'[3] = v2Header[3]
      /\ seen' = <<Dollar, ProtoX, direction>> \o v2Header'
  <2>1. Len(v2Header) + 1 = 4 /\ 2 \in 1..Len(v2Header) /\ 3 \in 1..Len(v2Header)
    BY <1>1
  <2>. QED
    BY <1>1, <1>2, <2>1, HeaderGrows
<1>4. code' = Word(v2Header'[2], v2Header'[3])
  BY <1>1, <1>2, <1>3
<1>5. InV2Header'
  BY <1>1, <1>2, <1>3, <1>4 DEF InV2Header
<1>. QED
  BY <1>2, <1>5 DEF FramingInv, InIdle, InPreamble, InV1Header, InV1Body,
      InV2Body, DecoderStates

\* Version 2: its high byte; the header is complete.
LEMMA StepV2LenHi ==
  ASSUME FramingInv, NEW b \in Bytes, size + 256 * b <= MaxSize, V2LenHi(b), Grow(b)
  PROVE  FramingInv'
<1>1. /\ state = "V2LenHi"
      /\ version = 2 /\ direction \in Directions /\ payload = <<>> /\ checksum = 0
      /\ v2Header \in Seq(Bytes) /\ Len(v2Header) = 4 /\ v2Header[4] = size
      /\ code = Word(v2Header[2], v2Header[3])
  BY DEF V2LenHi, FramingInv, InV2Header
<1>2. /\ size' = Word(size, b) /\ v2Header' = Append(v2Header, b) /\ frames' = {}
      /\ state' = IF size' = 0 THEN "V2Checksum" ELSE "V2Payload"
      /\ UNCHANGED <<version, direction, code, payload, checksum>>
      /\ size' <= MaxSize
  BY DEF V2LenHi, Goto, Word
<1>3. /\ v2Header' \in Seq(Bytes) /\ Len(v2Header') = 5
      /\ v2Header'[2] = v2Header[2] /\ v2Header'[3] = v2Header[3]
      /\ v2Header'[4] = size /\ v2Header'[5] = b
      /\ seen' = <<Dollar, ProtoX, direction>> \o v2Header'
  <2>1. Len(v2Header) + 1 = 5 /\ 2 \in 1..Len(v2Header) /\ 3 \in 1..Len(v2Header)
        /\ 4 \in 1..Len(v2Header)
    BY <1>1
  <2>. QED
    BY <1>1, <1>2, <2>1, HeaderGrows
<1>4. /\ code' = Word(v2Header'[2], v2Header'[3])
      /\ size' = Word(v2Header'[4], v2Header'[5])
  BY <1>1, <1>2, <1>3
<1>5. seen' = (<<Dollar, ProtoX, direction'>> \o v2Header') \o payload'
  <2>1. <<Dollar, ProtoX, direction>> \in Seq(Bytes)
    BY <1>1 DEF Dollar, ProtoX, Directions, Bytes
  <2>2. <<Dollar, ProtoX, direction>> \o v2Header' \in Seq(Bytes)
    BY <1>3, <2>1
  <2>. DEFINE head == <<Dollar, ProtoX, direction>> \o v2Header'
  <2>3. head \in Seq(Bytes) /\ seen' = head
    BY <1>3, <2>2
  <2>. HIDE DEF head
  <2>4. head \o <<>> = head
    BY <2>3, ConcatEmptySeq
  <2>5. payload' = <<>> /\ direction' = direction
    BY <1>1, <1>2
  <2>. QED
    BY <2>3, <2>4, <2>5 DEF head
<1>6. /\ payload' \in Seq(Bytes)
      /\ state' = "V2Payload" => Len(payload') < size'
      /\ state' = "V2Checksum" => Len(payload') = size'
  <2>1. size' \in Nat
    <3>1. v2Header'[4] \in Bytes /\ v2Header'[5] \in Bytes
      BY <1>3, HeaderBytes
    <3>. QED
      BY <1>4, <3>1, WordNat
  <2>2. payload' = <<>>
    BY <1>1, <1>2
  <2>. QED
    BY <1>2, <2>1, <2>2
<1>7. version' = 2 /\ direction' \in Directions /\ checksum' = 0 /\ size' <= MaxSize
  BY <1>1, <1>2
<1>8. InV2Body'
  BY <1>3, <1>4, <1>5, <1>6, <1>7, Zenon DEF InV2Body
<1>9. state' \in {"V2Payload", "V2Checksum"}
  BY <1>2
<1>. QED
  BY <1>2, <1>8, <1>9 DEF FramingInv, InIdle, InPreamble, InV1Header, InV1Body,
      InV2Header, DecoderStates

-------------------------------------------------------------------------------
(* Its steps: the checksums. *)

\* An attempt of version 1 ends: its bytes are a frame exactly when the checksum
\* is right.
LEMMA StepV1Checksum ==
  ASSUME FramingInv, NEW b \in Bytes, Checksum(b), Grow(b), state = "V1Checksum"
  PROVE  FramingInv'
<1>1. /\ version = 1 /\ direction \in Directions
      /\ size \in Bytes /\ code \in Bytes /\ payload \in Seq(Bytes)
      /\ Len(payload) = size
      /\ checksum = CRC8Xor(<<size, code>> \o payload)
      /\ seen = <<Dollar, ProtoM, direction, size, code>> \o payload
  BY DEF FramingInv, InV1Body
<1>2. FrameOf(Append(<<Dollar, ProtoM, direction, Len(payload), code>> \o payload, b)) =
         IF b = CRC8Xor(<<Len(payload), code>> \o payload)
         THEN {[version |-> 1, direction |-> direction, code |-> code, payload |-> payload]}
         ELSE {}
  BY <1>1, V1Frame
<1>3. /\ frames' = IF b = checksum
                   THEN {[version |-> 1, direction |-> direction,
                          code |-> code, payload |-> payload]}
                   ELSE {}
      /\ Reset
  BY <1>1 DEF Checksum, Expected
<1>4. seen' = Append(<<Dollar, ProtoM, direction, size, code>> \o payload, b)
  BY <1>1 DEF Grow
<1>5. frames' = FrameOf(seen)'
  BY <1>1, <1>2, <1>3, <1>4, Zenon
<1>6. frames' = {} \/ \E frame : frames' = {frame}
  BY <1>3
<1>. QED
  BY <1>3, <1>5, <1>6, AfterReset

\* The same of version 2.
LEMMA StepV2Checksum ==
  ASSUME FramingInv, NEW b \in Bytes, Checksum(b), Grow(b), state = "V2Checksum"
  PROVE  FramingInv'
<1>1. /\ version = 2 /\ direction \in Directions
      /\ v2Header \in Seq(Bytes) /\ Len(v2Header) = 5
      /\ code = Word(v2Header[2], v2Header[3])
      /\ size = Word(v2Header[4], v2Header[5])
      /\ payload \in Seq(Bytes) /\ Len(payload) = size
      /\ seen = (<<Dollar, ProtoX, direction>> \o v2Header) \o payload
  BY DEF FramingInv, InV2Body
<1>2. Len(payload) = Word(v2Header[4], v2Header[5])
  BY <1>1
<1>3. FrameOf(Append((<<Dollar, ProtoX, direction>> \o v2Header) \o payload, b)) =
         IF b = CRC8DVBS2(payload, CRC8DVBS2(v2Header, 0))
         THEN {[version |-> 2, direction |-> direction,
                code |-> Word(v2Header[2], v2Header[3]), payload |-> payload]}
         ELSE {}
  BY <1>1, <1>2, V2Frame
<1>4. /\ frames' = IF b = CRC8DVBS2(payload, CRC8DVBS2(v2Header, 0))
                   THEN {[version |-> 2, direction |-> direction,
                          code |-> code, payload |-> payload]}
                   ELSE {}
      /\ Reset
  BY <1>1 DEF Checksum, Expected
<1>5. seen' = Append((<<Dollar, ProtoX, direction>> \o v2Header) \o payload, b)
  BY <1>1 DEF Grow
<1>6. frames' = FrameOf(seen)'
  BY <1>1, <1>3, <1>4, <1>5, Zenon
<1>7. frames' = {} \/ \E frame : frames' = {frame}
  BY <1>4
<1>. QED
  BY <1>4, <1>6, <1>7, AfterReset

\* Every step keeps the invariant.
LEMMA FramingInvStep ==
  ASSUME FramingInv, [Next]_vars
  PROVE  FramingInv'
<1>1. CASE Next
  <2>1. PICK b \in Offered : process(b) /\ Grow(b)
    BY <1>1 DEF Next, Feed, Grow
  <2>2. /\ b \in Bytes
        /\ state \in {"V1Len", "V2LenLo"} => b <= MaxSize
        /\ state = "V2LenHi" => size + 256 * b <= MaxSize
    BY OfferedAreBytes
  <2>3. CASE Idle(b)
    BY <2>1, <2>2, <2>3, StepIdle
  <2>4. CASE Proto(b)
    BY <2>1, <2>2, <2>4, StepProto
  <2>5. CASE Direction(b)
    BY <2>1, <2>2, <2>5, StepDirection
  <2>6. CASE V1Len(b)
    <3>1. b <= MaxSize
      BY <2>2, <2>6 DEF V1Len
    <3>. QED
      BY <2>1, <2>2, <2>6, <3>1, StepV1Len
  <2>7. CASE V1Code(b)
    BY <2>1, <2>2, <2>7, StepV1Code
  <2>8. CASE V2Flag(b)
    BY <2>1, <2>2, <2>8, StepV2Flag
  <2>9. CASE V2Code(b)
    <3>1. state \in {"V2CodeLo", "V2CodeHi"}
      BY <2>9 DEF V2Code
    <3>. QED
      BY <2>1, <2>2, <2>9, <3>1, StepV2CodeLo, StepV2CodeHi
  <2>10. CASE V2LenLo(b)
    <3>1. b <= MaxSize
      BY <2>2, <2>10 DEF V2LenLo
    <3>. QED
      BY <2>1, <2>2, <2>10, <3>1, StepV2LenLo
  <2>11. CASE V2LenHi(b)
    <3>1. size + 256 * b <= MaxSize
      BY <2>2, <2>11 DEF V2LenHi
    <3>. QED
      BY <2>1, <2>2, <2>11, <3>1, StepV2LenHi
  <2>12. CASE Payload(b)
    <3>1. state \in {"V1Payload", "V2Payload"}
      BY <2>12 DEF Payload
    <3>. QED
      BY <2>1, <2>2, <2>12, <3>1, StepV1Payload, StepV2Payload
  <2>13. CASE Checksum(b)
    <3>1. state \in {"V1Checksum", "V2Checksum"}
      BY <2>13 DEF Checksum
    <3>. QED
      BY <2>1, <2>2, <2>13, <3>1, StepV1Checksum, StepV2Checksum
  <2>. QED
    BY <2>1, <2>3, <2>4, <2>5, <2>6, <2>7, <2>8, <2>9, <2>10, <2>11, <2>12, <2>13 DEF process
<1>2. CASE UNCHANGED vars
  <2>1. UNCHANGED <<state, version, direction, code, size, payload, checksum, v2Header,
                    frames, seen>>
    BY <1>2 DEF vars, decoder
  <2>2. InIdle' /\ InPreamble'
    BY <2>1 DEF FramingInv, InIdle, InPreamble, Fresh
  <2>3. InV1Header' /\ InV1Body'
    BY <2>1 DEF FramingInv, InV1Header, InV1Body, Fresh
  <2>4. InV2Header'
    BY <2>1 DEF FramingInv, InV2Header, Fresh
  <2>5. InV2Body'
    BY <2>1 DEF FramingInv, InV2Body
  <2>. QED
    BY <2>1, <2>2, <2>3, <2>4, <2>5 DEF FramingInv
<1>. QED
  BY <1>1, <1>2

\* The invariant always holds.
LEMMA FramingInvariant == Spec => []FramingInv
<1>1. Init => FramingInv
  BY DEF Init, FramingInv, InIdle, InPreamble, InV1Header, InV1Body,
      InV2Header, InV2Body, Fresh, DecoderStates
<1>. QED
  BY <1>1, FramingInvStep, PTL DEF Spec

\* The types follow.
LEMMA FramingTypes == FramingInv => TypeOK
<1>. SUFFICES ASSUME FramingInv PROVE TypeOK
  OBVIOUS
<1>1. Cardinality(frames) <= 1
  <2>1. frames = {} \/ \E frame : frames = {frame}
    BY DEF FramingInv, InIdle
  <2>2. Cardinality(frames) = 0 \/ Cardinality(frames) = 1
    BY <2>1, FS_EmptySet, FS_Singleton, Zenon
  <2>. QED
    BY <2>2
<1>2. 0 \in Bytes /\ MaxSize \in Nat /\ \A i \in Bytes : i \in Nat
  BY MaxSizeNat DEF Bytes
<1>3. /\ \A i \in Bytes : i \in Words
      /\ \A lo \in Bytes, hi \in Bytes : Word(lo, hi) \in Words
  <2>1. \A i \in Bytes : i \in Int
    BY DEF Bytes
  <2>2. \A lo \in Bytes, hi \in Bytes : lo + (256 * hi) \in Words
    BY <2>1, WordOfBytes
  <2>3. \A i \in Bytes : i + (256 * 0) = i
    BY <2>1
  <2>. QED
    BY <1>2, <2>2, <2>3 DEF Word
<1>4. CASE state \in {"Idle", "Proto", "Direction", "V1Len", "V1Code", "V2Flag"}
  <2>1. /\ code = 0 /\ payload = <<>> /\ v2Header = <<>> /\ size \in 0..MaxSize
        /\ checksum \in Bytes /\ direction \in Directions \cup {0} /\ version \in 0..2
    BY <1>2, <1>4 DEF FramingInv, InIdle, InPreamble, InV1Header, InV2Header, Fresh
  <2>2. /\ 0 \in Words /\ payload \in Seq(Bytes) /\ Len(payload) = 0
        /\ v2Header \in Seq(Bytes) /\ Len(v2Header) = 0
    BY <1>2, <1>3, <2>1
  <2>. QED
    BY <1>1, <1>2, <1>4, <2>1, <2>2 DEF TypeOK, DecoderStates
<1>5. CASE state \in {"V1Payload", "V1Checksum"}
  <2>1. /\ version = 1 /\ direction \in Directions /\ v2Header = <<>>
        /\ size \in Bytes /\ size <= MaxSize /\ code \in Bytes /\ payload \in Seq(Bytes)
        /\ state = "V1Payload" => Len(payload) < size
        /\ state = "V1Checksum" => Len(payload) = size
        /\ checksum = CRC8Xor(<<size, code>> \o payload)
    BY <1>5 DEF FramingInv, InV1Body
  <2>2. checksum \in Bytes
    <3>1. <<size, code>> \o payload \in Seq(Bytes)
      BY <2>1
    <3>. QED
      BY <1>2, <2>1, <3>1, CRC8XorAppend
  <2>3. size \in 0..MaxSize /\ Len(payload) <= size
    BY <1>2, <1>5, <2>1
  <2>4. v2Header \in Seq(Bytes) /\ Len(v2Header) = 0
    BY <2>1
  <2>5. code \in Words /\ version \in 0..2
    BY <1>3, <2>1
  <2>. QED
    BY <1>1, <1>5, <2>1, <2>2, <2>3, <2>4, <2>5 DEF TypeOK, DecoderStates
<1>6. CASE state \in {"V2CodeLo", "V2CodeHi", "V2LenLo", "V2LenHi"}
  <2>1. /\ version = 2 /\ direction \in Directions /\ payload = <<>> /\ checksum = 0
        /\ size \in Bytes /\ size <= MaxSize /\ v2Header \in Seq(Bytes)
        /\ state \in {"V2LenLo", "V2LenHi"} => code = Word(v2Header[2], v2Header[3])
        /\ state \notin {"V2LenLo", "V2LenHi"} => code \in Bytes
        /\ Len(v2Header) \in 1..4
        /\ state \in {"V2LenLo", "V2LenHi"} => Len(v2Header) \in 3..4
    BY <1>2, <1>6 DEF FramingInv, InV2Header
  <2>2. code \in Words
    <3>1. CASE state \in {"V2LenLo", "V2LenHi"}
      <4>1. 2 \in 1..Len(v2Header) /\ 3 \in 1..Len(v2Header)
        BY <2>1, <3>1
      <4>2. v2Header[2] \in Bytes /\ v2Header[3] \in Bytes
        BY <2>1, <4>1, ElementOfSeq
      <4>. QED
        BY <1>3, <2>1, <3>1, <4>2
    <3>. QED
      BY <1>3, <2>1, <3>1
  <2>3. /\ payload \in Seq(Bytes) /\ Len(payload) = 0 /\ size \in 0..MaxSize
        /\ version \in 0..2 /\ checksum \in Bytes
    BY <1>2, <2>1
  <2>4. Len(v2Header) <= 5
    <3>. DEFINE n == Len(v2Header)
    <3>1. n \in 1..4
      BY <2>1
    <3>. HIDE DEF n
    <3>2. n <= 5
      BY <3>1
    <3>. QED
      BY <3>2 DEF n
  <2>5. state \in DecoderStates /\ state \notin {"V1Payload", "V2Payload"}
    BY <1>6 DEF DecoderStates
  <2>6. Len(payload) <= size
    BY <1>2, <2>3
  <2>. QED
    BY <1>1, <2>1, <2>2, <2>3, <2>4, <2>5, <2>6 DEF TypeOK
<1>7. CASE state \in {"V2Payload", "V2Checksum"}
  <2>1. /\ version = 2 /\ direction \in Directions /\ checksum = 0
        /\ v2Header \in Seq(Bytes) /\ Len(v2Header) = 5
        /\ code = Word(v2Header[2], v2Header[3])
        /\ size = Word(v2Header[4], v2Header[5]) /\ size <= MaxSize
        /\ payload \in Seq(Bytes)
        /\ state = "V2Payload" => Len(payload) < size
        /\ state = "V2Checksum" => Len(payload) = size
    BY <1>7 DEF FramingInv, InV2Body
  <2>2. /\ v2Header[2] \in Bytes /\ v2Header[3] \in Bytes
        /\ v2Header[4] \in Bytes /\ v2Header[5] \in Bytes
    BY <2>1, HeaderBytes
  <2>3. code \in Words /\ size \in Nat
    BY <1>3, <2>1, <2>2, WordNat
  <2>4. size \in 0..MaxSize /\ Len(payload) <= size /\ version \in 0..2 /\ checksum \in Bytes
    BY <1>2, <1>7, <2>1, <2>3
  <2>. QED
    BY <1>1, <1>7, <2>1, <2>3, <2>4 DEF TypeOK, DecoderStates
<1>8. state \in DecoderStates
  BY DEF FramingInv
<1>. QED
  BY <1>4, <1>5, <1>6, <1>7, <1>8 DEF DecoderStates

\* The length of a concatenation.
LEMMA ConcatLen ==
  ASSUME NEW S, NEW s \in Seq(S), NEW t \in Seq(S)
  PROVE  Len(s \o t) = Len(s) + Len(t)
OBVIOUS

\* So does the bound of an attempt.
LEMMA FramingBound == FramingInv => AttemptIsBounded
<1>. SUFFICES ASSUME FramingInv, state # "Idle" PROVE Len(seen) <= 8 + size
  BY DEF AttemptIsBounded
<1>1. size \in Nat
  BY FramingTypes, MaxSizeNat DEF TypeOK
<1>2. Dollar \in Bytes /\ ProtoM \in Bytes /\ ProtoX \in Bytes
      /\ \A d \in Directions : d \in Bytes
  BY DEF Dollar, ProtoM, ProtoX, Directions, Bytes
<1>3. CASE state \in {"Proto", "Direction", "V1Len", "V1Code", "V2Flag"}
  <2>. DEFINE n == Len(seen)
  <2>1. n \in 1..4
    BY <1>3 DEF FramingInv, InPreamble, InV1Header, InV2Header
  <2>. HIDE DEF n
  <2>2. n <= 8 + size
    BY <1>1, <2>1
  <2>. QED
    BY <2>2 DEF n
<1>4. CASE state \in {"V1Payload", "V1Checksum"}
  <2>1. /\ direction \in Directions /\ size \in Bytes /\ code \in Bytes
        /\ payload \in Seq(Bytes) /\ Len(payload) <= size
        /\ seen = <<Dollar, ProtoM, direction, size, code>> \o payload
    <3>1. /\ direction \in Directions /\ size \in Bytes /\ code \in Bytes
          /\ payload \in Seq(Bytes)
          /\ seen = <<Dollar, ProtoM, direction, size, code>> \o payload
      BY <1>4 DEF FramingInv, InV1Body
    <3>. QED
      BY <3>1, FramingTypes DEF TypeOK
  <2>2. <<Dollar, ProtoM, direction, size, code>> \in Seq(Bytes)
    BY <1>2, <2>1
  <2>3. Len(seen) = 5 + Len(payload)
    BY <2>1, <2>2, ConcatProperties
  <2>. QED
    BY <1>1, <2>1, <2>3
<1>5. CASE state \in {"V2CodeLo", "V2CodeHi", "V2LenLo", "V2LenHi"}
  <2>1. /\ direction \in Directions /\ v2Header \in Seq(Bytes) /\ Len(v2Header) <= 5
        /\ seen = <<Dollar, ProtoX, direction>> \o v2Header
    <3>1. /\ direction \in Directions /\ v2Header \in Seq(Bytes)
          /\ seen = <<Dollar, ProtoX, direction>> \o v2Header
      BY <1>5 DEF FramingInv, InV2Header
    <3>. QED
      BY <3>1, FramingTypes DEF TypeOK
  <2>2. <<Dollar, ProtoX, direction>> \in Seq(Bytes)
    BY <1>2, <2>1
  <2>3. Len(seen) = 3 + Len(v2Header)
    BY <2>1, <2>2, ConcatProperties
  <2>. QED
    BY <1>1, <2>1, <2>3
<1>6. CASE state \in {"V2Payload", "V2Checksum"}
  <2>1. /\ direction \in Directions /\ v2Header \in Seq(Bytes) /\ Len(v2Header) = 5
        /\ payload \in Seq(Bytes) /\ Len(payload) <= size
        /\ seen = (<<Dollar, ProtoX, direction>> \o v2Header) \o payload
    <3>1. /\ direction \in Directions /\ v2Header \in Seq(Bytes) /\ Len(v2Header) = 5
          /\ payload \in Seq(Bytes)
          /\ seen = (<<Dollar, ProtoX, direction>> \o v2Header) \o payload
      BY <1>6 DEF FramingInv, InV2Body
    <3>. QED
      BY <3>1, FramingTypes DEF TypeOK
  <2>2. <<Dollar, ProtoX, direction>> \in Seq(Bytes)
    BY <1>2, <2>1
  <2>. DEFINE head == <<Dollar, ProtoX, direction>> \o v2Header
  <2>3. head \in Seq(Bytes) /\ Len(head) = 8
    BY <2>1, <2>2, V2Head
  <2>4. seen = head \o payload
    BY <2>1
  <2>. HIDE DEF head
  <2>5. Len(head \o payload) = 8 + Len(payload)
    <3>1. payload \in Seq(Bytes)
      BY <2>1
    <3>2. Len(head \o payload) = Len(head) + Len(payload)
      BY <2>3, <3>1, ConcatLen, Zenon
    <3>. QED
      BY <2>3, <3>2
  <2>. QED
    BY <1>1, <2>1, <2>4, <2>5
<1>7. state \in DecoderStates
  BY DEF FramingInv
<1>. QED
  BY <1>3, <1>4, <1>5, <1>6, <1>7 DEF DecoderStates

-------------------------------------------------------------------------------
(* Where the length of a frame is. *)

\* The bytes of a frame: three, the body and the checksum.
LEMMA Layout ==
  ASSUME NEW pre \in Seq(Bytes), Len(pre) = 3, NEW body \in Seq(Bytes), NEW x \in Bytes
  PROVE  /\ pre \o body \o <<x>> \in Seq(Bytes)
         /\ Len(pre \o body \o <<x>>) = Len(body) + 4
         /\ (pre \o body \o <<x>>)[2] = pre[2]
         /\ \A i \in 1..Len(body) : (pre \o body \o <<x>>)[i + 3] = body[i]
         /\ (pre \o body \o <<x>>)[Len(body) + 4] = x
<1>. DEFINE s == pre \o body
            t == s \o <<x>>
            n == Len(body)
<1>1. n \in Nat
  OBVIOUS
<1>2. /\ s \in Seq(Bytes) /\ Len(s) = n + 3
      /\ \A i \in 1..3 + n : s[i] = IF i <= 3 THEN pre[i] ELSE body[i - 3]
  <2>1. /\ s \in Seq(Bytes) /\ Len(s) = Len(pre) + Len(body)
        /\ \A i \in 1..Len(pre) + Len(body) :
              s[i] = IF i <= Len(pre) THEN pre[i] ELSE body[i - Len(pre)]
    BY ConcatProperties
  <2>2. Len(pre) + Len(body) = 3 + n /\ 3 + n = n + 3
    BY <1>1
  <2>. HIDE DEF s, n
  <2>. QED
    BY <2>1, <2>2
<1>3. \A i \in 1..n : s[i + 3] = body[i]
  <2>1. \A i \in 1..n : i + 3 \in 1..3 + n /\ ~(i + 3 <= 3) /\ (i + 3) - 3 = i
    BY <1>1
  <2>. HIDE DEF s, n
  <2>. QED
    BY <1>2, <2>1
<1>. HIDE DEF s
<1>4. t = Append(s, x)
  BY <1>2, AppendIsConcat
<1>5. /\ Append(s, x) \in Seq(Bytes) /\ Len(Append(s, x)) = n + 4
      /\ \A i \in 1..n + 3 : Append(s, x)[i] = s[i]
      /\ Append(s, x)[n + 4] = x
  <2>1. /\ Append(s, x) \in Seq(Bytes) /\ Len(Append(s, x)) = Len(s) + 1
        /\ \A i \in 1..Len(s) : Append(s, x)[i] = s[i]
        /\ Append(s, x)[Len(s) + 1] = x
    BY <1>2, AppendProperties
  <2>2. Len(s) + 1 = n + 4 /\ Len(s) = n + 3
    BY <1>1, <1>2
  <2>. HIDE DEF n
  <2>. QED
    BY <2>1, <2>2
<1>6. \A i \in 1..n : t[i + 3] = body[i]
  <2>1. \A i \in 1..n : i + 3 \in 1..n + 3
    BY <1>1
  <2>. HIDE DEF t, n
  <2>. QED
    BY <1>3, <1>4, <1>5, <2>1
<1>7. t \in Seq(Bytes) /\ Len(t) = n + 4 /\ t[n + 4] = x
  <2>. HIDE DEF t, n
  <2>. QED
    BY <1>4, <1>5
<1>8. t[2] = pre[2]
  <2>1. 2 \in 1..3 + n /\ 2 \in 1..n + 3 /\ 2 <= 3
    BY <1>1
  <2>. HIDE DEF t, n
  <2>. QED
    BY <1>2, <1>4, <1>5, <2>1
<1>. QED
  BY <1>6, <1>7, <1>8 DEF s

\* What the encoder makes, by its body.
BodyV1(f) == <<Len(f.payload), f.code>> \o f.payload
BodyV2(f, flag) == <<flag, f.code % 256, f.code \div 256,
                     Len(f.payload) % 256, Len(f.payload) \div 256>> \o f.payload

\* A uint16 has a low and a high byte.
LEMMA BytesOfWord ==
  ASSUME NEW w \in Words
  PROVE  w \in Nat /\ w % 256 \in Bytes /\ w \div 256 \in Bytes
<1>1. w \in Int /\ 0 <= w /\ w < 256 * 256
  <2>1. w \in Int /\ 0 <= w /\ w <= MaxWord
    <3>1. MaxWord \in Nat
      BY DEF MaxWord
    <3>. QED
      BY <3>1 DEF Words
  <2>. QED
    BY <2>1 DEF MaxWord
<1>2. w = (256 * (w \div 256)) + (w % 256) /\ w % 256 \in 0..255 /\ w \div 256 \in Int
  BY <1>1, SMT
<1>3. w \div 256 >= 0 /\ w \div 256 <= 255
  BY <1>1, <1>2, SMT
<1>. QED
  BY <1>1, <1>2, <1>3, SMT DEF Bytes

\* EncodeV1: the parts of what it makes.
LEMMA BodiesOfV1 ==
  ASSUME NEW f, f.direction \in Directions, f.code \in Bytes,
         f.payload \in Seq(Bytes), Len(f.payload) \in Bytes
  PROVE  /\ <<Dollar, ProtoM, f.direction>> \in Seq(Bytes) /\ BodyV1(f) \in Seq(Bytes)
         /\ Len(BodyV1(f)) = Len(f.payload) + 2 /\ CRC8Xor(BodyV1(f)) \in Bytes
         /\ EncodeV1(f) = <<Dollar, ProtoM, f.direction>> \o BodyV1(f) \o <<CRC8Xor(BodyV1(f))>>
<1>1. <<Dollar, ProtoM, f.direction>> \in Seq(Bytes)
  BY DEF Dollar, ProtoM, Directions, Bytes
<1>2. BodyV1(f) \in Seq(Bytes) /\ Len(BodyV1(f)) = Len(f.payload) + 2
  <2>. DEFINE h == <<Len(f.payload), f.code>>
  <2>1. h \in Seq(Bytes) /\ Len(h) = 2
    OBVIOUS
  <2>2. BodyV1(f) = h \o f.payload
    BY DEF BodyV1
  <2>. HIDE DEF h
  <2>3. h \o f.payload \in Seq(Bytes) /\ Len(h \o f.payload) = Len(h) + Len(f.payload)
    BY <2>1, ConcatProperties
  <2>. QED
    BY <2>1, <2>2, <2>3
<1>3. CRC8Xor(BodyV1(f)) \in Bytes
  <2>1. 0 \in Bytes
    BY DEF Bytes
  <2>. QED
    BY <1>2, <2>1, CRC8XorAppend
<1>4. EncodeV1(f) = <<Dollar, ProtoM, f.direction>> \o BodyV1(f) \o <<CRC8Xor(BodyV1(f))>>
  BY DEF EncodeV1, BodyV1
<1>. QED
  BY <1>1, <1>2, <1>3, <1>4

\* EncodeV2: the parts of what it makes.
LEMMA BodiesOfV2 ==
  ASSUME NEW f, f.direction \in Directions, f.code \in Words,
         f.payload \in Seq(Bytes), Len(f.payload) \in Words, NEW flag \in Bytes
  PROVE  /\ <<Dollar, ProtoX, f.direction>> \in Seq(Bytes) /\ BodyV2(f, flag) \in Seq(Bytes)
         /\ Len(BodyV2(f, flag)) = Len(f.payload) + 5 /\ CRC8DVBS2(BodyV2(f, flag), 0) \in Bytes
         /\ EncodeV2(f, flag) =
               <<Dollar, ProtoX, f.direction>> \o BodyV2(f, flag) \o <<CRC8DVBS2(BodyV2(f, flag), 0)>>
<1>1. <<Dollar, ProtoX, f.direction>> \in Seq(Bytes)
  BY DEF Dollar, ProtoX, Directions, Bytes
<1>2. BodyV2(f, flag) \in Seq(Bytes) /\ Len(BodyV2(f, flag)) = Len(f.payload) + 5
  <2>. DEFINE h == <<flag, f.code % 256, f.code \div 256, Len(f.payload) % 256, Len(f.payload) \div 256>>
  <2>1. h \in Seq(Bytes) /\ Len(h) = 5
    <3>1. /\ f.code % 256 \in Bytes /\ f.code \div 256 \in Bytes
          /\ Len(f.payload) % 256 \in Bytes /\ Len(f.payload) \div 256 \in Bytes
      BY BytesOfWord
    <3>. DEFINE a1 == f.code % 256
                a2 == f.code \div 256
                a3 == Len(f.payload) % 256
                a4 == Len(f.payload) \div 256
    <3>2. a1 \in Bytes /\ a2 \in Bytes /\ a3 \in Bytes /\ a4 \in Bytes
      BY <3>1
    <3>3. h = <<flag, a1, a2, a3, a4>>
      OBVIOUS
    <3>. HIDE DEF h, a1, a2, a3, a4
    <3>. QED
      BY <3>2, <3>3
  <2>2. BodyV2(f, flag) = h \o f.payload
    BY DEF BodyV2
  <2>. HIDE DEF h
  <2>3. h \o f.payload \in Seq(Bytes) /\ Len(h \o f.payload) = Len(h) + Len(f.payload)
    BY <2>1, ConcatProperties
  <2>. QED
    BY <2>1, <2>2, <2>3
<1>3. CRC8DVBS2(BodyV2(f, flag), 0) \in Bytes
  <2>1. 0 \in Bytes
    BY DEF Bytes
  <2>. QED
    BY <1>2, <2>1, DVBS2Concat
<1>4. EncodeV2(f, flag) =
         <<Dollar, ProtoX, f.direction>> \o BodyV2(f, flag) \o <<CRC8DVBS2(BodyV2(f, flag), 0)>>
  BY DEF EncodeV2, BodyV2
<1>. QED
  BY <1>1, <1>2, <1>3, <1>4

\* What is between a header and a checksum.
LEMMA PayloadOf ==
  ASSUME NEW s \in Seq(Bytes), NEW m \in Nat, NEW n \in Nat, Len(s) = m + n + 1
  PROVE  SubSeq(s, m + 1, Len(s) - 1) \in Seq(Bytes) /\ Len(SubSeq(s, m + 1, Len(s) - 1)) = n
<1>. DEFINE q == SubSeq(s, m + 1, m + n)
<1>0. Len(s) - 1 = m + n /\ \A i \in (m + 1)..(m + n) : i \in 1..Len(s)
  OBVIOUS
<1>1. \A i \in (m + 1)..(m + n) : s[i] \in Bytes
  BY <1>0, ElementOfSeq
<1>2. m + 1 \in Int /\ m + n \in Int
  OBVIOUS
<1>3. q \in Seq(Bytes) /\ Len(q) = IF m + 1 <= m + n THEN (m + n) - (m + 1) + 1 ELSE 0
  BY <1>1, <1>2, SubSeqProperties
<1>4. (IF m + 1 <= m + n THEN (m + n) - (m + 1) + 1 ELSE 0) = n
  OBVIOUS
<1>. HIDE DEF q
<1>5. q \in Seq(Bytes) /\ Len(q) = n
  BY <1>3, <1>4
<1>. QED
  BY <1>0, <1>5 DEF q

\* Where the body and the checksum are.
LEMMA LayoutIs ==
  ASSUME NEW pre \in Seq(Bytes), Len(pre) = 3, NEW m \in Nat,
         NEW body \in Seq(Bytes), Len(body) = m, NEW x \in Bytes
  PROVE  /\ \A i \in 1..m : (pre \o body \o <<x>>)[i + 3] = body[i]
         /\ (pre \o body \o <<x>>)[m + 4] = x
BY Layout

\* The first part of a concatenation is where it was.
LEMMA HeadOf ==
  ASSUME NEW S, NEW s \in Seq(S), NEW t \in Seq(S)
  PROVE  /\ s \o t \in Seq(S) /\ Len(s \o t) = Len(s) + Len(t)
         /\ \A i \in 1..Len(s) : (s \o t)[i] = s[i]
<1>. DEFINE u == s \o t
<1>1. /\ u \in Seq(S) /\ Len(u) = Len(s) + Len(t)
      /\ \A i \in 1..Len(s) + Len(t) : u[i] = IF i <= Len(s) THEN s[i] ELSE t[i - Len(s)]
  BY ConcatProperties
<1>2. \A i \in 1..Len(s) : i \in 1..Len(s) + Len(t) /\ i <= Len(s)
  OBVIOUS
<1>. HIDE DEF u
<1>3. \A i \in 1..Len(s) : u[i] = s[i]
  BY <1>1, <1>2
<1>. QED
  BY <1>1, <1>3 DEF u

\* A frame of version 1 says how long it is.
LEMMA LengthV1 ==
  ASSUME NEW t \in Seq(Bytes), NEW n \in Bytes, Len(t) = n + 6, IsV1(t)
  PROVE  t[4] = n
<1>. DEFINE g == FieldsV1(t)
<1>1. EncodeV1(g) = t /\ t[3] \in Directions
  BY DEF IsV1
<1>2. /\ g.direction = t[3] /\ g.code = t[5] /\ g.payload = SubSeq(t, 6, Len(t) - 1)
  BY DEF FieldsV1
<1>. HIDE DEF g
<1>3. n \in Nat
  BY DEF Bytes
<1>4. t[5] \in Bytes
  <2>1. 5 \in 1..Len(t)
    BY <1>3
  <2>. QED
    BY <2>1, ElementOfSeq
<1>5. SubSeq(t, 6, Len(t) - 1) \in Seq(Bytes) /\ Len(SubSeq(t, 6, Len(t) - 1)) = n
  <2>1. Len(t) = 5 + n + 1 /\ 5 + 1 = 6
    BY <1>3
  <2>2. SubSeq(t, 5 + 1, Len(t) - 1) \in Seq(Bytes) /\ Len(SubSeq(t, 5 + 1, Len(t) - 1)) = n
    BY <1>3, <2>1, PayloadOf
  <2>. QED
    BY <2>1, <2>2
<1>6. /\ g.direction \in Directions /\ g.code \in Bytes
      /\ g.payload \in Seq(Bytes) /\ Len(g.payload) = n
  BY <1>1, <1>2, <1>4, <1>5
<1>7. /\ <<Dollar, ProtoM, g.direction>> \in Seq(Bytes) /\ BodyV1(g) \in Seq(Bytes)
      /\ Len(BodyV1(g)) = n + 2 /\ CRC8Xor(BodyV1(g)) \in Bytes
      /\ t = <<Dollar, ProtoM, g.direction>> \o BodyV1(g) \o <<CRC8Xor(BodyV1(g))>>
  BY <1>1, <1>6, BodiesOfV1
<1>8. t[1 + 3] = BodyV1(g)[1]
  <2>1. \A i \in 1..n + 2 : t[i + 3] = BodyV1(g)[i]
    BY <1>3, <1>7, LayoutIs
  <2>2. 1 \in 1..n + 2
    BY <1>3
  <2>. QED
    BY <2>1, <2>2
<1>9. BodyV1(g)[1] = n
  <2>. DEFINE h == <<Len(g.payload), g.code>>
  <2>1. h \in Seq(Bytes) /\ Len(h) = 2 /\ h[1] = n /\ BodyV1(g) = h \o g.payload
    BY <1>6 DEF BodyV1
  <2>. HIDE DEF h
  <2>2. \A i \in 1..Len(h) + Len(g.payload) :
           (h \o g.payload)[i] = IF i <= Len(h) THEN h[i] ELSE g.payload[i - Len(h)]
    BY <1>6, <2>1, ConcatProperties
  <2>3. 1 \in 1..Len(h) + Len(g.payload) /\ 1 <= Len(h)
    BY <1>3, <1>6, <2>1
  <2>. QED
    BY <2>1, <2>2, <2>3
<1>. QED
  BY <1>8, <1>9

\* So does one of version 2.
LEMMA LengthV2 ==
  ASSUME NEW t \in Seq(Bytes), NEW n \in Words, Len(t) = n + 9, IsV2(t)
  PROVE  Word(t[7], t[8]) = n
<1>. DEFINE g == FieldsV2(t)
            G == BodyV2(g, t[4])
<1>1. EncodeV2(g, t[4]) = t /\ t[3] \in Directions
  BY DEF IsV2
<1>2. /\ g.direction = t[3] /\ g.code = t[5] + (256 * t[6])
      /\ g.payload = SubSeq(t, 9, Len(t) - 1)
  BY DEF FieldsV2
<1>. HIDE DEF g
<1>3. n \in Nat /\ n % 256 \in Bytes /\ n \div 256 \in Bytes
  BY BytesOfWord
<1>4. t[4] \in Bytes /\ t[5] + (256 * t[6]) \in Words
  <2>1. 4 \in 1..Len(t) /\ 5 \in 1..Len(t) /\ 6 \in 1..Len(t)
    BY <1>3
  <2>2. t[4] \in Bytes /\ t[5] \in Bytes /\ t[6] \in Bytes
    BY <2>1, ElementOfSeq
  <2>3. \A x \in Bytes : x \in Int
    BY DEF Bytes
  <2>. QED
    BY <2>2, <2>3, WordOfBytes
<1>5. SubSeq(t, 9, Len(t) - 1) \in Seq(Bytes) /\ Len(SubSeq(t, 9, Len(t) - 1)) = n
  <2>1. Len(t) = 8 + n + 1 /\ 8 + 1 = 9
    BY <1>3
  <2>2. SubSeq(t, 8 + 1, Len(t) - 1) \in Seq(Bytes) /\ Len(SubSeq(t, 8 + 1, Len(t) - 1)) = n
    BY <1>3, <2>1, PayloadOf
  <2>. QED
    BY <2>1, <2>2
<1>6. /\ g.direction \in Directions /\ g.code \in Words
      /\ g.payload \in Seq(Bytes) /\ Len(g.payload) = n
  BY <1>1, <1>2, <1>4, <1>5
<1>7. /\ <<Dollar, ProtoX, g.direction>> \in Seq(Bytes) /\ G \in Seq(Bytes)
      /\ Len(G) = n + 5 /\ CRC8DVBS2(G, 0) \in Bytes
      /\ t = <<Dollar, ProtoX, g.direction>> \o G \o <<CRC8DVBS2(G, 0)>>
  BY <1>1, <1>4, <1>6, BodiesOfV2
<1>8. t[7] = G[4] /\ t[8] = G[5]
  <2>. DEFINE m == n + 5
              x == CRC8DVBS2(G, 0)
              pre == <<Dollar, ProtoX, g.direction>>
  <2>0. /\ pre \in Seq(Bytes) /\ Len(pre) = 3 /\ m \in Nat /\ Len(G) = m
        /\ G \in Seq(Bytes) /\ x \in Bytes /\ t = pre \o G \o <<x>>
    BY <1>3, <1>7
  <2>2. 4 \in 1..m /\ 5 \in 1..m /\ 4 + 3 = 7 /\ 5 + 3 = 8
    BY <1>3
  <2>. HIDE DEF G, m, x, pre
  <2>1. \A i \in 1..m : t[i + 3] = G[i]
    <3>1. \A i \in 1..Len(G) : (pre \o G \o <<x>>)[i + 3] = G[i]
      BY <2>0, Layout
    <3>. QED
      BY <2>0, <3>1, Zenon
  <2>. QED
    BY <2>1, <2>2
<1>9. G[4] = n % 256 /\ G[5] = n \div 256
  <2>. DEFINE a1 == g.code % 256
              a2 == g.code \div 256
              a3 == n % 256
              a4 == n \div 256
              h == <<t[4], a1, a2, a3, a4>>
  <2>1. a1 \in Bytes /\ a2 \in Bytes /\ a3 \in Bytes /\ a4 \in Bytes
    BY <1>3, <1>6, BytesOfWord
  <2>2. G = h \o g.payload
    BY <1>6, Zenon DEF BodyV2
  <2>. HIDE DEF a1, a2, a3, a4, G
  <2>3. h \in Seq(Bytes) /\ Len(h) = 5 /\ h[4] = a3 /\ h[5] = a4
    BY <1>4, <2>1
  <2>. HIDE DEF h
  <2>4. \A i \in 1..Len(h) + Len(g.payload) :
           (h \o g.payload)[i] = IF i <= Len(h) THEN h[i] ELSE g.payload[i - Len(h)]
    BY <1>6, <2>3, ConcatProperties
  <2>5. /\ 4 \in 1..Len(h) + Len(g.payload) /\ 5 \in 1..Len(h) + Len(g.payload)
        /\ 4 <= Len(h) /\ 5 <= Len(h)
    BY <1>3, <1>6, <2>3
  <2>6. G[4] = a3 /\ G[5] = a4
    BY <2>2, <2>3, <2>4, <2>5
  <2>. QED
    BY <2>6 DEF a3, a4
<1>10. (n % 256) + (256 * (n \div 256)) = n
  BY <1>3
<1>. QED
  BY <1>8, <1>9, <1>10 DEF Word

\* While an attempt goes on its bytes are not yet a frame: too few, of the other
\* version, or fewer than they announce.
LEMMA UnderWay ==
  ASSUME FramingInv, state # "Idle"
  PROVE  FrameOf(seen) = {}
<1>1. \A d \in Directions : d \in Bytes /\ <<Dollar, ProtoM, d>> \in Seq(Bytes)
                                        /\ <<Dollar, ProtoX, d>> \in Seq(Bytes)
  BY DEF Dollar, ProtoM, ProtoX, Directions, Bytes
<1>2. CASE state \in {"Proto", "Direction", "V1Len", "V1Code", "V2Flag"}
  <2>1. Len(seen) \in 0..5
    BY <1>2 DEF FramingInv, InPreamble, InV1Header, InV2Header
  <2>. QED
    BY <2>1, FrameOfShort
<1>3. CASE state \in {"V2CodeLo", "V2CodeHi", "V2LenLo", "V2LenHi"}
  <2>1. /\ direction \in Directions /\ v2Header \in Seq(Bytes) /\ Len(v2Header) \in 1..4
        /\ seen = <<Dollar, ProtoX, direction>> \o v2Header
    BY <1>3 DEF FramingInv, InV2Header
  <2>. DEFINE pre == <<Dollar, ProtoX, direction>>
  <2>2. pre \in Seq(Bytes) /\ Len(pre) = 3 /\ pre[2] = ProtoX /\ seen = pre \o v2Header
    BY <1>1, <2>1
  <2>. HIDE DEF pre
  <2>3. Len(pre \o v2Header) = Len(pre) + Len(v2Header) /\ (pre \o v2Header)[2] = pre[2]
    <3>1. 2 \in 1..Len(pre)
      BY <2>2
    <3>. QED
      BY <2>1, <2>2, <3>1, HeadOf
  <2>4. Len(seen) <= 7 /\ seen[2] = ProtoX
    <3>. DEFINE u == pre \o v2Header
                m == Len(v2Header)
    <3>1. /\ seen = u /\ Len(u) = Len(pre) + m /\ u[2] = pre[2]
          /\ m \in 1..4 /\ Len(pre) = 3 /\ pre[2] = ProtoX
      BY <2>1, <2>2, <2>3
    <3>. HIDE DEF u, m
    <3>. QED
      BY <3>1
  <2>5. ~(Len(seen) > 8) /\ seen[2] # ProtoM
    <3>1. Len(seen) \in Nat
      BY <2>1, <2>2, <2>3
    <3>. QED
      BY <2>4, <3>1 DEF ProtoM, ProtoX
  <2>6. ~IsV1(seen) /\ ~IsV2(seen)
    BY <2>5, Zenon DEF IsV1, IsV2
  <2>. QED
    BY <2>6, Zenon DEF FrameOf
<1>4. CASE state \in {"V1Payload", "V1Checksum"}
  <2>1. /\ direction \in Directions /\ size \in Bytes /\ code \in Bytes
        /\ payload \in Seq(Bytes) /\ Len(payload) <= size
        /\ seen = <<Dollar, ProtoM, direction, size, code>> \o payload
    <3>1. \A x \in Bytes : x \in Int
      BY DEF Bytes
    <3>. QED
      BY <1>4, <3>1 DEF FramingInv, InV1Body
  <2>. DEFINE h == <<Dollar, ProtoM, direction, size, code>>
              k == Len(payload)
  <2>2. h \in Seq(Bytes) /\ Len(h) = 5 /\ h[2] = ProtoM /\ h[4] = size /\ seen = h \o payload
    <3>1. Dollar \in Bytes /\ ProtoM \in Bytes /\ direction \in Bytes
      BY <1>1, <2>1 DEF Dollar, ProtoM, Bytes
    <3>2. /\ h \in Seq(Bytes) /\ Len(h) = 5
      BY <2>1, <3>1
    <3>3. h[2] = ProtoM /\ h[4] = size
      OBVIOUS
    <3>. QED
      BY <2>1, <3>2, <3>3
  <2>3. k \in Nat /\ k <= size
    BY <2>1
  <2>. HIDE DEF h, k
  <2>4. /\ seen \in Seq(Bytes) /\ Len(seen) = 5 + k /\ seen[2] = ProtoM /\ seen[4] = size
    <3>1. /\ h \o payload \in Seq(Bytes) /\ Len(h \o payload) = Len(h) + Len(payload)
          /\ \A i \in 1..Len(h) + Len(payload) :
                (h \o payload)[i] = IF i <= Len(h) THEN h[i] ELSE payload[i - Len(h)]
      BY <2>1, <2>2, ConcatProperties
    <3>2. /\ 2 \in 1..Len(h) + Len(payload) /\ 2 <= Len(h)
          /\ 4 \in 1..Len(h) + Len(payload) /\ 4 <= Len(h)
      BY <2>2, <2>3 DEF k
    <3>. QED
      BY <2>2, <3>1, <3>2 DEF k
  <2>5. CASE k = 0
    <3>1. Len(seen) \in 0..5
      BY <2>4, <2>5
    <3>. QED
      BY <3>1, FrameOfShort
  <2>6. CASE k # 0
    <3>. DEFINE n == k - 1
    <3>1. n \in Bytes /\ Len(seen) = n + 6 /\ n # size
      <4>1. size \in 0..255
        BY <2>1 DEF Bytes
      <4>. QED
        BY <2>3, <2>4, <2>6, <4>1 DEF Bytes
    <3>. HIDE DEF n
    <3>2. ~IsV1(seen)
      BY <2>4, <3>1, LengthV1
    <3>3. seen[2] # ProtoX
      BY <2>4 DEF ProtoM, ProtoX
    <3>4. ~IsV2(seen)
      BY <3>3, Zenon DEF IsV2
    <3>. QED
      BY <3>2, <3>4, Zenon DEF FrameOf
  <2>. QED
    BY <2>5, <2>6
<1>5. CASE state \in {"V2Payload", "V2Checksum"}
  <2>0. /\ direction \in Directions /\ v2Header \in Seq(Bytes) /\ Len(v2Header) = 5
        /\ payload \in Seq(Bytes) /\ size = Word(v2Header[4], v2Header[5])
        /\ seen = (<<Dollar, ProtoX, direction>> \o v2Header) \o payload
    BY <1>5 DEF FramingInv, InV2Body
  <2>1. v2Header[4] \in Bytes /\ v2Header[5] \in Bytes /\ size \in Words
    <3>1. v2Header[4] \in Bytes /\ v2Header[5] \in Bytes
      BY <2>0, HeaderBytes
    <3>2. \A x \in Bytes : x \in Int
      BY DEF Bytes
    <3>. QED
      BY <2>0, <3>1, <3>2, WordOfBytes DEF Word
  <2>2. Len(payload) <= size
    <3>1. size \in Nat /\ Len(payload) \in Nat
      BY <2>0, <2>1, BytesOfWord
    <3>2. Len(payload) < size \/ Len(payload) = size
      BY <1>5 DEF FramingInv, InV2Body
    <3>. QED
      BY <3>1, <3>2
  <2>. DEFINE h == <<Dollar, ProtoX, direction>> \o v2Header
              k == Len(payload)
  <2>3. /\ h \in Seq(Bytes) /\ Len(h) = 8 /\ h[2] = ProtoX
        /\ h[7] = v2Header[4] /\ h[8] = v2Header[5]
    <3>. DEFINE pre == <<Dollar, ProtoX, direction>>
    <3>1. pre \in Seq(Bytes) /\ Len(pre) = 3 /\ pre[2] = ProtoX /\ h = pre \o v2Header
      BY <1>1, <2>0
    <3>. HIDE DEF pre, h
    <3>2. /\ pre \o v2Header \in Seq(Bytes) /\ Len(pre \o v2Header) = 8
          /\ (pre \o v2Header)[2] = pre[2]
          /\ (pre \o v2Header)[7] = v2Header[4] /\ (pre \o v2Header)[8] = v2Header[5]
      BY <2>0, <3>1, V2Head
    <3>. QED
      BY <3>1, <3>2
  <2>4. seen = h \o payload
    BY <2>0
  <2>5. k \in Nat /\ k <= size
    BY <2>0, <2>2
  <2>. HIDE DEF h, k
  <2>6. /\ seen \in Seq(Bytes) /\ Len(seen) = 8 + k /\ seen[2] = ProtoX
        /\ Word(seen[7], seen[8]) = size
    <3>1. /\ h \o payload \in Seq(Bytes) /\ Len(h \o payload) = Len(h) + Len(payload)
          /\ \A i \in 1..Len(h) + Len(payload) :
                (h \o payload)[i] = IF i <= Len(h) THEN h[i] ELSE payload[i - Len(h)]
      BY <2>0, <2>3, ConcatProperties
    <3>2. /\ 2 \in 1..Len(h) + Len(payload) /\ 2 <= Len(h)
          /\ 7 \in 1..Len(h) + Len(payload) /\ 7 <= Len(h)
          /\ 8 \in 1..Len(h) + Len(payload) /\ 8 <= Len(h)
      BY <2>3, <2>5 DEF k
    <3>. QED
      BY <2>0, <2>3, <2>4, <3>1, <3>2 DEF k
  <2>7. seen[2] # ProtoM
    BY <2>6 DEF ProtoM, ProtoX
  <2>8. ~IsV1(seen)
    BY <2>7, Zenon DEF IsV1
  <2>9. ~IsV2(seen)
    <3>1. CASE k = 0
      <4>1. ~(Len(seen) > 8)
        BY <2>6, <3>1
      <4>. QED
        BY <4>1, Zenon DEF IsV2
    <3>2. CASE k # 0
      <4>. DEFINE n == k - 1
      <4>1. n \in Words /\ Len(seen) = n + 9 /\ n # size
        <5>1. MaxWord \in Nat
          BY DEF MaxWord
        <5>2. size \in 0..MaxWord
          BY <2>1, Zenon DEF Words
        <5>. QED
          BY <2>5, <2>6, <3>2, <5>1, <5>2 DEF Words
      <4>. HIDE DEF n
      <4>. QED
        BY <2>6, <4>1, LengthV2
    <3>. QED
      BY <3>1, <3>2
  <2>. QED
    BY <2>8, <2>9, Zenon DEF FrameOf
<1>6. state \in DecoderStates
  BY DEF FramingInv
<1>. QED
  BY <1>2, <1>3, <1>4, <1>5, <1>6 DEF DecoderStates

-------------------------------------------------------------------------------
(* The theorems about Framing. *)

\* Feed (framing.go:97-229) returns a frame at the byte with which the bytes of the
\* attempt become those that EncodeV1 or EncodeV2 (framing.go:13-37) make of that
\* frame, and at no other time: none is missed, held back or made of leftovers.
THEOREM FramesAreWhatIsEncoded == Spec => []DecodesWhatIsEncoded
<1>1. FramingInv => DecodesWhatIsEncoded
  BY UnderWay DEF FramingInv, InIdle, DecodesWhatIsEncoded
<1>. QED
  BY <1>1, FramingInvariant, PTL

\* The decoder never leaves the types of its fields (framing.go:58-71), for a
\* payload of any length up to MaxSize and any bytes on the line: no field
\* overflows, and the header never grows beyond its five bytes.
THEOREM FramingTypeCorrect == Spec => []TypeOK
BY FramingInvariant, FramingTypes, PTL

\* While an attempt goes on it has taken no more bytes than the header and the
\* length it announced allow: garbage cannot hold the decoder
\* (framing.go:97-229).
THEOREM AttemptsAreBounded == Spec => []AttemptIsBounded
BY FramingInvariant, FramingBound, PTL

-------------------------------------------------------------------------------
(* Huffman decoding: the table is complete. *)

\* The number of codes of length n that are not in the table and not the
\* beginning of a shorter one: the codes 0..Open(n) - 1.
Open(n) == IF n = 0 THEN 1 ELSE First[n]

\* The table is complete: the codes of length n + 1 are all the continuations of
\* what is open at n, the last of them in the table and the rest open again; at
\* the greatest length nothing is left open.
LEMMA Complete ==
    /\ \A n \in 0..11 : /\ n + 1 \in Lengths
                        /\ Open(n) \in Nat /\ 2 * Open(n) = Last[n + 1] + 1
                        /\ Open(n + 1) = First[n + 1]
                        /\ First[n + 1] \in 0..80 /\ Last[n + 1] \in 0..159
                        /\ n < 11 => n + 1 # 12
    /\ Open(12) = 0
<1>1. ASSUME NEW n \in 0..11
      PROVE  /\ n + 1 \in Lengths
             /\ Open(n) \in Nat /\ 2 * Open(n) = Last[n + 1] + 1
             /\ Open(n + 1) = First[n + 1]
             /\ First[n + 1] \in 0..80 /\ Last[n + 1] \in 0..159
             /\ n < 11 => n + 1 # 12
  BY DEF Open, First, Last, Lengths, maxCodeLen
<1>. QED
  BY <1>1 DEF Open, First

\* While a code is being read it is one of those left open, and a byte is still
\* wanted.
CodeIsOpen == result = "running" => /\ codeLen < maxCodeLen
                                    /\ prefix < Open(codeLen)
                                    /\ Len(out) < charCount

HuffmanInv == HuffmanTypeOK /\ CodeIsOpen /\ NoInvalidCode

\* The first bits read find nothing, one byte or the end mark, and never leave
\* the table.
LEMMA HuffmanInvStep == ASSUME HuffmanInv, [HuffmanNext]_huffmanVars PROVE HuffmanInv'
<1>. USE HuffmanAssumption
<1>1. CASE ReadBit
  <2>. DEFINE n == codeLen + 1
  <2>1. PICK bit \in {0, 1} :
           /\ bits' = Append(bits, bit)
           /\ \/ Found(n, (2 * prefix) + bit) /\ Emit(n, (2 * prefix) + bit)
              \/ /\ ~Found(n, (2 * prefix) + bit)
                 /\ codeLen' = n
                 /\ prefix' = (2 * prefix) + bit
                 /\ result' = IF n = maxCodeLen THEN "invalid" ELSE "running"
                 /\ UNCHANGED out
    BY <1>1 DEF ReadBit
  <2>. DEFINE c == (2 * prefix) + bit
  <2>2. /\ result = "running" /\ Len(bits) < total
        /\ UNCHANGED <<total, charCount>>
    BY <1>1 DEF ReadBit
  <2>3. /\ codeLen \in 0..11 /\ prefix \in 0..79 /\ prefix < Open(codeLen)
        /\ n \in 1..12
    BY <2>2 DEF HuffmanInv, HuffmanTypeOK, CodeIsOpen, maxCodeLen
  <2>4. /\ n \in Lengths /\ c \in 0..Last[n]
        /\ First[n] \in 0..80 /\ Last[n] \in 0..159
        /\ Open(n) = First[n]
        /\ n = 12 => First[n] = 0
    <3>. DEFINE m == codeLen
    <3>1. /\ m \in 0..11 /\ n = m + 1
          /\ Open(m) \in Nat /\ 2 * Open(m) = Last[m + 1] + 1
          /\ Open(m + 1) = First[m + 1]
          /\ First[m + 1] \in 0..80 /\ Last[m + 1] \in 0..159 /\ m + 1 \in Lengths
      BY <2>3, Complete
    <3>2. c \in 0..Last[n]
      BY <2>3, <3>1
    <3>3. n = 12 => First[n] = 0
      BY <3>1, Complete
    <3>. QED
      BY <3>1, <3>2, <3>3
  <2>5. bits' \in Seq({0, 1}) /\ Len(bits') <= total'
    BY <2>1, <2>2 DEF HuffmanInv, HuffmanTypeOK
  <2>6. CASE Found(n, c) /\ Emit(n, c)
    <3>1. <<n, c>> \in Symbols
      BY <2>4 DEF Symbols
    <3>2. codeLen' = 0 /\ prefix' = 0 /\ Open(0) = 1
      BY <2>6 DEF Emit, Open
    <3>3. CASE <<n, c>> = EOF
      <4>1. result' = "eof" /\ out' = out
        BY <2>6, <3>3 DEF Emit
      <4>. QED
        BY <2>2, <2>5, <3>2, <4>1 DEF HuffmanInv, HuffmanTypeOK, CodeIsOpen, NoInvalidCode, maxCodeLen
    <3>4. CASE <<n, c>> # EOF
      <4>1. /\ out' = Append(out, <<n, c>>)
            /\ result' = IF Len(out) + 1 = charCount THEN "full" ELSE "running"
        BY <2>6, <3>4 DEF Emit
      <4>2. Len(out) < charCount
        BY <2>2 DEF HuffmanInv, CodeIsOpen
      <4>. QED
        BY <2>2, <2>5, <3>1, <3>2, <4>1, <4>2
           DEF HuffmanInv, HuffmanTypeOK, CodeIsOpen, NoInvalidCode, maxCodeLen
    <3>. QED
      BY <3>3, <3>4
  <2>7. CASE ~Found(n, c) /\ codeLen' = n /\ prefix' = c /\ out' = out
             /\ result' = IF n = maxCodeLen THEN "invalid" ELSE "running"
    <3>1. c < First[n]
      BY <2>4, <2>7 DEF Found
    <3>2. n # 12 /\ c \in 0..79
      BY <2>3, <2>4, <3>1
    <3>. QED
      BY <2>2, <2>3, <2>4, <2>5, <2>7, <3>1, <3>2
         DEF HuffmanInv, HuffmanTypeOK, CodeIsOpen, NoInvalidCode, maxCodeLen
  <2>. QED
    BY <2>1, <2>6, <2>7
<1>2. CASE InputEnds
  BY <1>2 DEF InputEnds, HuffmanInv, HuffmanTypeOK, CodeIsOpen, NoInvalidCode
<1>3. CASE UNCHANGED huffmanVars
  BY <1>3 DEF huffmanVars, HuffmanInv, HuffmanTypeOK, CodeIsOpen, NoInvalidCode
<1>. QED
  BY <1>1, <1>2, <1>3 DEF HuffmanNext

\* The strengthened invariant always holds.
LEMMA HuffmanInvariant == HuffmanSpec => []HuffmanInv
<1>1. HuffmanInit => HuffmanInv
  <2>. USE HuffmanAssumption
  <2>1. ASSUME HuffmanInit PROVE HuffmanInv
    <3>1. PICK n \in 0..MaxBytes : total = 8 * n
      BY <2>1 DEF HuffmanInit
    <3>2. total \in 0..8 * MaxBytes
      BY <3>1
    <3>. QED
      BY <2>1, <3>2 DEF HuffmanInit, HuffmanInv, HuffmanTypeOK, CodeIsOpen, NoInvalidCode, Open, maxCodeLen
  <2>. QED
    BY <2>1
<1>2. HuffmanInv /\ [HuffmanNext]_huffmanVars => HuffmanInv'
  BY HuffmanInvStep
<1>. QED
  BY <1>1, <1>2, PTL DEF HuffmanSpec

\* Types, for inputs and outputs of any length: the decoder never reads beyond
\* its input nor puts out more than it was asked for.
THEOREM HuffmanTypeCorrect == HuffmanSpec => []HuffmanTypeOK
BY HuffmanInvariant, PTL DEF HuffmanInv

\* The error "invalid code" cannot occur, whatever the input: the table of the
\* source is complete.
THEOREM NoCodeIsInvalid == HuffmanSpec => []NoInvalidCode
BY HuffmanInvariant, PTL DEF HuffmanInv

-------------------------------------------------------------------------------
(* Huffman decoding inverts encoding. *)

\* The powers of two BitsOf uses.
LEMMA Powers ==
  /\ 2^0 = 1
  /\ \A k \in 0..11 : 2^k \in Nat \ {0} /\ 2^(k + 1) = 2 * 2^k
<1>1. /\ 2^0 \in Nat \ {0} /\ 2^1 \in Nat \ {0} /\ 2^2 \in Nat \ {0}
      /\ 2^3 \in Nat \ {0} /\ 2^4 \in Nat \ {0} /\ 2^5 \in Nat \ {0}
      /\ 2^6 \in Nat \ {0} /\ 2^7 \in Nat \ {0} /\ 2^8 \in Nat \ {0}
      /\ 2^9 \in Nat \ {0} /\ 2^10 \in Nat \ {0} /\ 2^11 \in Nat \ {0}
  OBVIOUS
<1>2. /\ 2^(0 + 1) = 2 * 2^0 /\ 2^(1 + 1) = 2 * 2^1 /\ 2^(2 + 1) = 2 * 2^2
      /\ 2^(3 + 1) = 2 * 2^3 /\ 2^(4 + 1) = 2 * 2^4 /\ 2^(5 + 1) = 2 * 2^5
      /\ 2^(6 + 1) = 2 * 2^6 /\ 2^(7 + 1) = 2 * 2^7 /\ 2^(8 + 1) = 2 * 2^8
      /\ 2^(9 + 1) = 2 * 2^9 /\ 2^(10 + 1) = 2 * 2^10 /\ 2^(11 + 1) = 2 * 2^11
  OBVIOUS
<1>3. 0..11 = {0, 1, 2, 3, 4, 5, 6, 7, 8, 9, 10, 11}
  OBVIOUS
<1>4. \A k \in {0, 1, 2, 3, 4, 5, 6, 7, 8, 9, 10, 11} :
         2^k \in Nat \ {0} /\ 2^(k + 1) = 2 * 2^k
  BY <1>1, <1>2, Zenon
<1>. QED
  BY <1>3, <1>4

\* A code of n bits is a sequence of n bits.
LEMMA BitsOfType ==
  ASSUME NEW n \in 0..12, NEW c \in Nat
  PROVE  BitsOf(n, c) \in Seq({0, 1}) /\ Len(BitsOf(n, c)) = n
<1>1. ASSUME NEW i \in 1..n PROVE (c \div 2^(n - i)) % 2 \in {0, 1}
  <2>1. n - i \in 0..11
    OBVIOUS
  <2>. DEFINE p == 2^(n - i)
  <2>2. p \in Nat \ {0}
    BY <2>1, Powers
  <2>. HIDE DEF p
  <2>3. (c \div p) \in Nat
    BY <2>2
  <2>4. (c \div p) % 2 \in {0, 1}
    BY <2>3
  <2>. QED
    BY <2>4 DEF p
<1>2. BitsOf(n, c) \in [1..n -> {0, 1}]
  BY <1>1, Zenon DEF BitsOf
<1>. QED
  BY <1>2

\* A bit read is a bit more of the code.
LEMMA BitsOfNext ==
  ASSUME NEW n \in 0..11, NEW c \in Nat, NEW bit \in {0, 1}
  PROVE  BitsOf(n + 1, (2 * c) + bit) = Append(BitsOf(n, c), bit)
<1>. DEFINE d == (2 * c) + bit
            s == BitsOf(n + 1, d)
            t == Append(BitsOf(n, c), bit)
<1>1. d \in Nat /\ n + 1 \in 0..12 /\ n \in 0..12
  OBVIOUS
<1>2. /\ s \in Seq({0, 1}) /\ Len(s) = n + 1
      /\ BitsOf(n, c) \in Seq({0, 1}) /\ Len(BitsOf(n, c)) = n
  <2>. HIDE DEF d
  <2>. QED
    BY <1>1, BitsOfType
<1>3. /\ t \in Seq({0, 1}) /\ Len(t) = n + 1 /\ t[n + 1] = bit
      /\ \A i \in 1..n : t[i] = BitsOf(n, c)[i]
  BY <1>2, AppendProperties
<1>4. \A i \in 1..n + 1 : s[i] = (d \div 2^((n + 1) - i)) % 2
  BY Zenon DEF BitsOf
<1>5. \A i \in 1..n : BitsOf(n, c)[i] = (c \div 2^(n - i)) % 2
  BY Zenon DEF BitsOf
<1>6. ASSUME NEW i \in 1..n PROVE s[i] = t[i]
  <2>. DEFINE p == 2^(n - i)
  <2>1. n - i \in 0..11 /\ (n + 1) - i = (n - i) + 1 /\ i \in 1..n + 1
    OBVIOUS
  <2>2. p \in Nat \ {0} /\ 2^((n + 1) - i) = 2 * p
    <3>1. 2^((n - i) + 1) = 2 * p /\ p \in Nat \ {0}
      BY <2>1, Powers
    <3>. QED
      BY <2>1, <3>1
  <2>3. s[i] = (d \div (2 * p)) % 2 /\ t[i] = (c \div p) % 2
    <3>. HIDE DEF s, t, p, d
    <3>1. s[i] = (d \div 2^((n + 1) - i)) % 2
      BY <1>4, <2>1, Zenon
    <3>2. t[i] = (c \div 2^(n - i)) % 2
      BY <1>3, <1>5, Zenon
    <3>. QED
      BY <2>2, <3>1, <3>2, Zenon DEF p
  <2>. HIDE DEF s, t, p
  <2>4. d \div (2 * p) = c \div p
    BY <2>2
  <2>. QED
    BY <2>3, <2>4
<1>7. s[n + 1] = t[n + 1]
  <2>1. n + 1 \in 1..n + 1 /\ (n + 1) - (n + 1) = 0
    <3>. HIDE DEF s, t, d
    <3>1. n \in Nat
      OBVIOUS
    <3>. QED
      BY <3>1
  <2>2. s[n + 1] = (d \div 2^0) % 2
    <3>. HIDE DEF s, t, d
    <3>. QED
      BY <1>4, <2>1
  <2>3. (d \div 1) % 2 = bit
    OBVIOUS
  <2>. HIDE DEF s, t, d
  <2>. QED
    BY <1>3, <2>2, <2>3, Powers
<1>. HIDE DEF s, t, d
<1>8. \A i \in 1..Len(s) : s[i] = t[i]
  <2>1. \A i \in 1..n + 1 : i \in 1..n \/ i = n + 1
    OBVIOUS
  <2>. QED
    BY <1>2, <1>6, <1>7, <2>1
<1>9. s = t
  BY <1>2, <1>3, <1>8, SeqEqual
<1>. QED
  BY <1>9 DEF s, t, d

\* A step of Encoded over chars.
CodeStep(chars) ==
    [v \in Seq({0, 1}) |-> [i \in 1..Len(chars) |-> v \o BitsOf(chars[i][1], chars[i][2])]]

\* So is that of every symbol.
LEMMA SymbolBits ==
  ASSUME NEW s \in Symbols
  PROVE  BitsOf(s[1], s[2]) \in Seq({0, 1})
<1>1. PICK n \in Lengths, c \in 0..159 : s = <<n, c>>
  BY DEF Symbols
<1>2. s[1] \in 0..12 /\ s[2] \in Nat
  BY <1>1 DEF Lengths, maxCodeLen
<1>. QED
  BY <1>2, BitsOfType

\* Its type and its values.
LEMMA CodeStepType ==
  ASSUME NEW chars \in Seq(Symbols)
  PROVE  /\ CodeStep(chars) \in [Seq({0, 1}) -> [1..Len(chars) -> Seq({0, 1})]]
         /\ \A v \in Seq({0, 1}) : \A i \in 1..Len(chars) :
               CodeStep(chars)[v][i] = v \o BitsOf(chars[i][1], chars[i][2])
<1>1. \A i \in 1..Len(chars) : chars[i] \in Symbols
  OBVIOUS
<1>2. \A i \in 1..Len(chars) : BitsOf(chars[i][1], chars[i][2]) \in Seq({0, 1})
  BY <1>1, SymbolBits
<1>3. \A v \in Seq({0, 1}) : \A i \in 1..Len(chars) :
         v \o BitsOf(chars[i][1], chars[i][2]) \in Seq({0, 1})
  BY <1>2, ConcatProperties
<1>. QED
  BY <1>3, Zenon DEF CodeStep

\* What Encoded yields is the last value of its run over the bytes.
LEMMA EncodedRun ==
  ASSUME NEW chars \in Seq(Symbols)
  PROVE  \E f \in [0..Len(chars) -> Seq({0, 1})] :
            /\ IsRun(f, Seq({0, 1}), <<>>, CodeStep(chars), Len(chars))
            /\ f[0] = <<>> /\ \A i \in 1..Len(chars) : f[i - 1] \in Seq({0, 1}) /\ f[i] = f[i - 1] \o BitsOf(chars[i][1], chars[i][2])
            /\ Encoded(chars) = f[Len(chars)]
<1>. DEFINE n == Len(chars)
            step == CodeStep(chars)
            F == CHOOSE f : f = [i \in 0..n |-> IF i = 0 THEN <<>>
                                                ELSE f[i - 1] \o BitsOf(chars[i][1], chars[i][2])]
<1>0. <<>> \in Seq({0, 1})
  OBVIOUS
<1>1. n \in Nat /\ step \in [Seq({0, 1}) -> [1..n -> Seq({0, 1})]]
  BY CodeStepType
<1>2. PICK f \in [0..n -> Seq({0, 1})] : IsRun(f, Seq({0, 1}), <<>>, step, n)
  <2>. HIDE DEF step, n
  <2>. QED
    BY <1>0, <1>1, RunExists
<1>3. \A i \in 1..n : f[i - 1] \in Seq({0, 1})
  <2>. HIDE DEF n, step, F
  <2>1. \A i \in 1..n : i - 1 \in 0..n
    BY <1>1
  <2>. QED
    BY <2>1
<1>4. \A i \in 1..n : f[i] = f[i - 1] \o BitsOf(chars[i][1], chars[i][2])
  BY <1>2, <1>3, CodeStepType, Zenon DEF IsRun
<1>5. f = [i \in 0..n |-> IF i = 0 THEN <<>> ELSE f[i - 1] \o BitsOf(chars[i][1], chars[i][2])]
  <2>. HIDE DEF step, n
  <2>1. \A i \in 0..n : f[i] = IF i = 0 THEN <<>> ELSE f[i - 1] \o BitsOf(chars[i][1], chars[i][2])
    <3>. HIDE DEF F
    <3>1. f[0] = <<>>
      BY <1>2 DEF IsRun
    <3>2. \A i \in 0..n : i # 0 => i \in 1..n
      BY <1>1
    <3>. QED
      BY <1>4, <3>1, <3>2, Zenon
  <2>. QED
    BY <2>1, Zenon
<1>6. F = [i \in 0..n |-> IF i = 0 THEN <<>> ELSE F[i - 1] \o BitsOf(chars[i][1], chars[i][2])]
  BY <1>5, Zenon
<1>7. Encoded(chars) = F[n]
  BY Zenon DEF Encoded
<1>8. F[0] = <<>> /\ \A i \in 1..n : F[i] = F[i - 1] \o BitsOf(chars[i][1], chars[i][2])
  <2>. HIDE DEF F, n
  <2>1. 0 \in 0..n /\ \A i \in 1..n : i \in 0..n /\ i # 0
    BY <1>1
  <2>. QED
    BY <1>6, <2>1, Zenon
<1>9. F[n] = f[n]
  <2>1. \A i \in 1..n : F[i - 1] \in Seq({0, 1}) => F[i] = step[F[i - 1]][i]
    BY <1>8, CodeStepType
  <2>. HIDE DEF F, n, step
  <2>2. IsRun(F, Seq({0, 1}), <<>>, step, n)
    BY <1>8, <2>1, Zenon DEF IsRun
  <2>3. /\ n \in Nat /\ n \in 0..n /\ f \in [0..n -> Seq({0, 1})]
        /\ IsRun(f, Seq({0, 1}), <<>>, step, n) /\ IsRun(F, Seq({0, 1}), <<>>, step, n)
    BY <1>1, <1>2, <2>2
  <2>4. PICK G : G = F
    OBVIOUS
  <2>. DEFINE V == Seq({0, 1})
              e == <<>>
  <2>5. /\ n \in Nat /\ n \in 0..n /\ f \in [0..n -> V]
        /\ IsRun(f, V, e, step, n) /\ IsRun(G, V, e, step, n)
    BY <2>3, <2>4
  <2>. HIDE DEF V, e
  <2>6. f[n] = G[n]
    BY <2>5, RunUnique
  <2>. QED
    BY <2>4, <2>6
<1>10. IsRun(f, Seq({0, 1}), <<>>, step, n) /\ f[0] = <<>>
  BY <1>2 DEF IsRun
<1>. HIDE DEF F
<1>. QED
  BY <1>3, <1>4, <1>7, <1>9, <1>10

\* Whatever follows the equations of Encoded ends in what it yields.
LEMMA EncodedValue ==
  ASSUME NEW chars \in Seq(Symbols), NEW g, g[0] = <<>>,
         \A i \in 1..Len(chars) : g[i - 1] \in Seq({0, 1}) => g[i] = g[i - 1] \o BitsOf(chars[i][1], chars[i][2])
  PROVE  Encoded(chars) = g[Len(chars)] /\ Encoded(chars) \in Seq({0, 1})
<1>1. PICK f \in [0..Len(chars) -> Seq({0, 1})] :
         /\ IsRun(f, Seq({0, 1}), <<>>, CodeStep(chars), Len(chars))
         /\ Encoded(chars) = f[Len(chars)]
  BY EncodedRun
<1>2. IsRun(g, Seq({0, 1}), <<>>, CodeStep(chars), Len(chars))
  BY CodeStepType, Zenon DEF IsRun
<1>. DEFINE n == Len(chars)
            step == CodeStep(chars)
<1>3. n \in Nat /\ n \in 0..n
  OBVIOUS
<1>. HIDE DEF n, step
<1>4. f[n] = g[n]
  <2>1. f \in [0..n -> Seq({0, 1})] /\ IsRun(f, Seq({0, 1}), <<>>, step, n) /\ IsRun(g, Seq({0, 1}), <<>>, step, n)
    BY <1>1, <1>2 DEF n, step
  <2>. QED
    BY <1>3, <2>1, RunUnique
<1>. QED
  BY <1>1, <1>3, <1>4 DEF n

\* A byte more: its code follows.
LEMMA EncodedAppend ==
  ASSUME NEW d \in Seq(Symbols), NEW b \in Symbols
  PROVE  Encoded(d) \in Seq({0, 1}) /\ Encoded(Append(d, b)) = Encoded(d) \o BitsOf(b[1], b[2])
<1>. DEFINE n == Len(d)
            db == Append(d, b)
<1>1. PICK f \in [0..n -> Seq({0, 1})] :
         /\ f[0] = <<>> /\ \A i \in 1..n : f[i - 1] \in Seq({0, 1}) /\ f[i] = f[i - 1] \o BitsOf(d[i][1], d[i][2])
         /\ Encoded(d) = f[n]
  BY EncodedRun
<1>2. /\ n \in Nat /\ n \in 0..n
      /\ db \in Seq(Symbols) /\ Len(db) = n + 1
      /\ \A i \in 1..n : db[i] = d[i]
      /\ db[n + 1] = b
  OBVIOUS
<1>3. f[0] = <<>> /\ \A i \in 1..n : f[i] = f[i - 1] \o BitsOf(d[i][1], d[i][2])
  BY <1>1
<1>. DEFINE g == [i \in 0..n + 1 |-> IF i = n + 1 THEN f[n] \o BitsOf(b[1], b[2]) ELSE f[i]]
<1>4. g[0] = <<>> /\ g[n + 1] = f[n] \o BitsOf(b[1], b[2]) /\ \A i \in 0..n : g[i] = f[i]
  BY <1>2, <1>3
<1>5. ASSUME NEW i \in 1..n + 1 PROVE g[i] = g[i - 1] \o BitsOf(db[i][1], db[i][2])
  <2>. HIDE DEF g, db
  <2>1. CASE i = n + 1
    <3>1. i - 1 = n /\ n \in 0..n
      BY <1>2, <2>1
    <3>2. g[n] = f[n]
      BY <1>4, <3>1, Zenon
    <3>3. g[i] = f[n] \o BitsOf(b[1], b[2]) /\ db[i] = b
      BY <1>2, <1>4, <2>1, Zenon
    <3>. QED
      BY <3>1, <3>2, <3>3, Zenon
  <2>2. CASE i \in 1..n
    <3>1. i - 1 \in 0..n /\ i \in 0..n
      BY <2>2
    <3>. QED
      BY <1>2, <1>3, <1>4, <2>2, <3>1, Zenon
  <2>3. i = n + 1 \/ i \in 1..n
    BY <1>2
  <2>. QED
    BY <2>1, <2>2, <2>3, Zenon
<1>6. Encoded(db) = f[n] \o BitsOf(b[1], b[2])
  <2>. HIDE DEF g, db
  <2>. QED
    <3>1. \A i \in 1..Len(db) : g[i - 1] \in Seq({0, 1}) => g[i] = g[i - 1] \o BitsOf(db[i][1], db[i][2])
      BY <1>2, <1>5
    <3>2. Encoded(db) = g[Len(db)]
      BY <1>2, <1>4, <3>1, EncodedValue
    <3>. QED
      BY <1>2, <1>4, <3>2
<1>. QED
  BY <1>1, <1>2, <1>6

\* It starts from nothing.
LEMMA EncodedEmpty == Encoded(<<>>) = <<>>
<1>. DEFINE g == [i \in 0..0 |-> <<>>]
<1>1. g[0] = <<>> /\ <<>> \in Seq(Symbols) /\ Len(<<>>) = 0
  OBVIOUS
<1>2. \A i \in 1..Len(<<>>) : g[i - 1] \in Seq({0, 1}) => g[i] = g[i - 1] \o BitsOf(<<>>[i][1], <<>>[i][2])
  BY <1>1
<1>. HIDE DEF g
<1>. QED
  BY <1>1, <1>2, EncodedValue

\* What is appended to the second part is appended to the whole.
LEMMA Appended ==
  ASSUME NEW S, NEW e \in Seq(S), NEW t \in Seq(S), NEW b \in S
  PROVE  e \o Append(t, b) = Append(e \o t, b)
BY AppendConcat

\* What the bits are while codes are read.
LEMMA InvertsStep ==
  ASSUME HuffmanInv, InvertsEncoding, [HuffmanNext]_huffmanVars
  PROVE  InvertsEncoding'
<1>. USE HuffmanAssumption
<1>1. CASE ReadBit
  <2>. DEFINE n == codeLen + 1
  <2>1. PICK bit \in {0, 1} :
           /\ bits' = Append(bits, bit)
           /\ \/ Found(n, (2 * prefix) + bit) /\ Emit(n, (2 * prefix) + bit)
              \/ /\ ~Found(n, (2 * prefix) + bit)
                 /\ codeLen' = n
                 /\ prefix' = (2 * prefix) + bit
                 /\ result' = IF n = maxCodeLen THEN "invalid" ELSE "running"
                 /\ UNCHANGED out
    BY <1>1 DEF ReadBit
  <2>. DEFINE c == (2 * prefix) + bit
              e == Encoded(out)
  <2>2. result = "running"
    BY <1>1 DEF ReadBit
  <2>3. /\ codeLen \in 0..11 /\ prefix \in 0..79 /\ prefix \in Nat
        /\ out \in Seq(Symbols) /\ c \in 0..159 /\ n \in Lengths
    BY <2>2 DEF HuffmanInv, HuffmanTypeOK, CodeIsOpen, maxCodeLen, Lengths
  <2>4. e \in Seq({0, 1})
    <3>1. <<1, 2>> \in Symbols
      BY DEF Symbols, Lengths, maxCodeLen
    <3>. QED
      BY <2>3, <3>1, EncodedAppend
  <2>5. bits' = e \o BitsOf(n, c)
    <3>1. BitsOf(n, c) = Append(BitsOf(codeLen, prefix), bit)
      BY <2>3, BitsOfNext
    <3>2. BitsOf(codeLen, prefix) \in Seq({0, 1})
      <4>1. codeLen \in 0..12
        BY <2>3
      <4>. QED
        BY <2>3, <4>1, BitsOfType
    <3>3. bits = e \o BitsOf(codeLen, prefix)
      BY <2>2 DEF InvertsEncoding
    <3>. DEFINE s == BitsOf(codeLen, prefix)
    <3>. HIDE DEF e, s, n, c
    <3>4. e \o Append(s, bit) = Append(e \o s, bit)
      BY <2>4, <3>2, Appended DEF s
    <3>. QED
      BY <2>1, <3>1, <3>3, <3>4 DEF s
  <2>. HIDE DEF n, c, e
  <2>6. CASE Found(n, c) /\ Emit(n, c) /\ <<n, c>> = EOF
    <3>1. out' = out /\ result' = "eof"
      BY <2>6 DEF Emit
    <3>2. n = EOF[1] /\ c = EOF[2]
      BY <2>6 DEF EOF
    <3>3. bits' = Encoded(out') \o BitsOf(EOF[1], EOF[2])
      BY <2>5, <3>1, <3>2 DEF e
    <3>. QED
      BY <3>1, <3>3 DEF InvertsEncoding
  <2>7. CASE Found(n, c) /\ Emit(n, c) /\ <<n, c>> # EOF
    <3>1. /\ out' = Append(out, <<n, c>>) /\ codeLen' = 0 /\ prefix' = 0
          /\ result' # "eof"
      BY <2>7 DEF Emit
    <3>2. <<n, c>> \in Symbols /\ <<n, c>>[1] = n /\ <<n, c>>[2] = c
      BY <2>3 DEF Symbols
    <3>3. Encoded(out') = e \o BitsOf(n, c)
      <4>1. Encoded(Append(out, <<n, c>>)) = Encoded(out) \o BitsOf(<<n, c>>[1], <<n, c>>[2])
        BY <2>3, <3>2, EncodedAppend
      <4>. QED
        BY <3>1, <3>2, <4>1 DEF e
    <3>4. BitsOf(0, 0) = <<>>
      <4>1. BitsOf(0, 0) \in Seq({0, 1}) /\ Len(BitsOf(0, 0)) = 0
        BY BitsOfType
      <4>. QED
        BY <4>1
    <3>5. Encoded(out') \o <<>> = Encoded(out')
      <4>1. Encoded(out') \in Seq({0, 1})
        <5>1. out' \in Seq(Symbols)
          BY <2>3, <3>1, <3>2
        <5>. QED
          BY <3>2, <5>1, EncodedAppend
      <4>. QED
        BY <4>1, ConcatEmptySeq
    <3>6. bits' = Encoded(out') \o BitsOf(codeLen', prefix')
      BY <2>5, <3>1, <3>3, <3>4, <3>5
    <3>. QED
      BY <3>1, <3>6 DEF InvertsEncoding
  <2>8. CASE /\ codeLen' = n /\ prefix' = c /\ UNCHANGED out
             /\ result' = IF n = maxCodeLen THEN "invalid" ELSE "running"
    <3>1. bits' = Encoded(out') \o BitsOf(codeLen', prefix') /\ result' # "eof"
      BY <2>5, <2>8 DEF e
    <3>. QED
      BY <3>1 DEF InvertsEncoding
  <2>. QED
    BY <2>1, <2>6, <2>7, <2>8 DEF n, c
<1>2. CASE InputEnds
  BY <1>2 DEF InputEnds, InvertsEncoding
<1>3. CASE UNCHANGED huffmanVars
  BY <1>3 DEF huffmanVars, InvertsEncoding
<1>. QED
  BY <1>1, <1>2, <1>3 DEF HuffmanNext

\* Decoding inverts encoding.
THEOREM DecodingInvertsEncoding == HuffmanSpec => []InvertsEncoding
<1>1. HuffmanInit => InvertsEncoding
  <2>. SUFFICES ASSUME HuffmanInit PROVE InvertsEncoding
    OBVIOUS
  <2>1. BitsOf(0, 0) = <<>>
    <3>1. BitsOf(0, 0) \in Seq({0, 1}) /\ Len(BitsOf(0, 0)) = 0
      BY BitsOfType
    <3>. QED
      BY <3>1
  <2>2. Encoded(<<>>) \o <<>> = <<>>
    BY EncodedEmpty
  <2>3. /\ bits = <<>> /\ out = <<>> /\ codeLen = 0 /\ prefix = 0 /\ result # "eof"
    BY DEF HuffmanInit
  <2>. QED
    BY <2>1, <2>2, <2>3 DEF InvertsEncoding
<1>2. HuffmanInv /\ InvertsEncoding /\ [HuffmanNext]_huffmanVars => InvertsEncoding'
  BY InvertsStep
<1>. QED
  BY <1>1, <1>2, HuffmanInvariant, PTL DEF HuffmanSpec

-------------------------------------------------------------------------------
(* What is decoded is what was encoded. *)

\* The bytes the table has codes for, the end mark left out.
Codes == {s \in Symbols : Found(s[1], s[2]) /\ s # EOF}

\* What has been read can be read in one way only: if it is the code of some bytes
\* and the beginning of a code, or the end mark, then those are what was decoded.
ReadsOneWay ==
    \A chars \in Seq(Codes) :
        /\ \A n \in 0..11 : \A c \in 0..Open(n) - 1 :
              bits = Encoded(chars) \o BitsOf(n, c)
                  => out = chars /\ codeLen = n /\ prefix = c /\ result # "eof"
        /\ bits = Encoded(chars) \o BitsOf(12, 0) => out = chars /\ result = "eof"

\* Bytes and their codes.
LEMMA CodesAre ==
  /\ Codes \subseteq Symbols
  /\ \A s \in Codes : /\ s[1] \in 1..12 /\ s[2] \in 0..159 /\ s = <<s[1], s[2]>>
                      /\ Found(s[1], s[2]) /\ s # EOF
<1>1. \A s \in Symbols : s[1] \in 1..12 /\ s[2] \in 0..159 /\ s = <<s[1], s[2]>>
  BY DEF Symbols, Lengths, maxCodeLen
<1>. QED
  BY <1>1, Zenon DEF Codes

\* They are sequences of symbols, with a sequence of bits for their codes.
LEMMA EncodedBits ==
  ASSUME NEW chars \in Seq(Codes)
  PROVE  chars \in Seq(Symbols) /\ Encoded(chars) \in Seq({0, 1})
<1>1. chars \in Seq(Symbols)
  BY CodesAre
<1>2. <<1, 2>> \in Symbols
  BY DEF Symbols, Lengths, maxCodeLen
<1>. QED
  BY <1>1, <1>2, EncodedAppend

\* What the last bit of a code was read after.
LEMMA ComesFrom ==
  ASSUME ReadsOneWay, NEW bit \in {0, 1}, bits \in Seq({0, 1}),
         NEW chars \in Seq(Codes), NEW n \in 0..11, NEW d \in 0..159, d <= Last[n + 1],
         Append(bits, bit) = Encoded(chars) \o BitsOf(n + 1, d)
  PROVE  out = chars /\ codeLen = n /\ (2 * prefix) + bit = d
<1>. DEFINE p == d \div 2
            e == Encoded(chars)
            t == BitsOf(n, p)
<1>1. p \in Nat /\ d % 2 \in {0, 1} /\ d = (2 * p) + (d % 2)
  OBVIOUS
<1>2. e \in Seq({0, 1})
  BY EncodedBits
<1>3. t \in Seq({0, 1})
  <2>1. n \in 0..12
    OBVIOUS
  <2>. HIDE DEF p
  <2>. QED
    BY <1>1, <2>1, BitsOfType
<1>4. BitsOf(n + 1, d) = Append(t, d % 2)
  <2>1. BitsOf(n + 1, (2 * p) + (d % 2)) = Append(BitsOf(n, p), d % 2)
    <3>. HIDE DEF p
    <3>. QED
      BY <1>1, BitsOfNext
  <2>. QED
    BY <1>1, <2>1, Zenon
<1>. HIDE DEF e, t
<1>5. Append(bits, bit) = Append(e \o t, d % 2)
  <2>1. e \o Append(t, d % 2) = Append(e \o t, d % 2)
    BY <1>1, <1>2, <1>3, Appended
  <2>. QED
    BY <1>4, <2>1 DEF e
<1>6. e \o t \in Seq({0, 1})
  BY <1>2, <1>3, ConcatProperties
<1>7. bits = e \o t /\ bit = d % 2
  <2>. HIDE DEF p
  <2>. DEFINE u == e \o t
              v == d % 2
  <2>1. u \in Seq({0, 1}) /\ v \in {0, 1} /\ Append(bits, bit) = Append(u, v)
    BY <1>1, <1>5, <1>6
  <2>. HIDE DEF u, v
  <2>2. bits = u /\ bit = v
    BY <2>1, AppendInjective
  <2>. QED
    BY <2>2 DEF u, v
<1>8. p \in 0..Open(n) - 1
  <2>1. Open(n) \in Nat /\ 2 * Open(n) = Last[n + 1] + 1 /\ Last[n + 1] \in 0..159
    BY Complete, Zenon
  <2>. DEFINE w == Open(n)
              l == Last[n + 1]
  <2>2. w \in Nat /\ 2 * w = l + 1 /\ d <= l /\ l \in 0..159
    BY <2>1
  <2>. HIDE DEF w, l
  <2>3. l \in Int
    BY <2>2
  <2>4. p <= w - 1
    BY <1>1, <2>2, <2>3
  <2>. QED
    BY <1>1, <2>2, <2>4 DEF w
<1>9. out = chars /\ codeLen = n /\ prefix = p
  <2>. HIDE DEF p
  <2>. QED
    BY <1>7, <1>8, Zenon DEF ReadsOneWay, e, t
<1>. QED
  BY <1>1, <1>7, <1>9

\* What is open at a length is not in the table of it; what is in the table does not
\* exceed the last code of its length.
LEMMA OpenCodes ==
  /\ \A k \in 1..12 : \A c \in 0..Open(k) - 1 :
        c \in 0..159 /\ c <= Last[k] /\ ~Found(k, c)
  /\ Last[12] >= 0 /\ Found(12, 0) /\ <<12, 0>> = EOF
  /\ \A k \in 1..12 : \A c : Found(k, c) => c <= Last[k]
<1>1. ASSUME NEW k \in 1..12
      PROVE  /\ Open(k) = First[k] /\ First[k] \in 0..80 /\ Last[k] \in 0..159
             /\ First[k] <= Last[k] + 1
  BY DEF Open, First, Last
<1>2. ASSUME NEW k \in 1..12, NEW c \in 0..Open(k) - 1
      PROVE  c \in 0..159 /\ c <= Last[k] /\ ~Found(k, c)
  <2>. DEFINE f == First[k]
              l == Last[k]
  <2>1. f \in 0..80 /\ l \in 0..159 /\ f <= l + 1 /\ c \in 0..f - 1
    BY <1>1
  <2>. HIDE DEF f, l
  <2>2. c \in 0..159 /\ c <= l /\ ~(c \in f..l)
    BY <2>1
  <2>. QED
    BY <2>2 DEF Found, f, l
<1>3. Last[12] = 1 /\ First[12] = 0
  BY DEF First, Last
<1>4. Last[12] >= 0 /\ Found(12, 0) /\ <<12, 0>> = EOF
  BY <1>3 DEF Found, EOF
<1>5. ASSUME NEW k \in 1..12, NEW c, Found(k, c)
      PROVE  c <= Last[k]
  <2>. DEFINE f == First[k]
              l == Last[k]
  <2>1. f \in 0..80 /\ l \in 0..159 /\ c \in f..l
    BY <1>1, <1>5 DEF Found
  <2>. HIDE DEF f, l
  <2>2. c <= l
    BY <2>1
  <2>. QED
    BY <2>2 DEF l
<1>. QED
  BY <1>2, <1>4, <1>5

\* The last of some bytes, and the code it adds.
LEMMA LastCode ==
  ASSUME NEW chars \in Seq(Codes), chars # <<>>
  PROVE  \E f \in Seq(Codes) : \E s \in Codes :
            chars = Append(f, s) /\ Encoded(chars) = Encoded(f) \o BitsOf(s[1], s[2])
<1>1. PICK f \in Seq(Codes) : \E s \in Codes : chars = Append(f, s)
  BY SequenceEmptyOrAppend
<1>2. PICK s \in Codes : chars = Append(f, s)
  BY <1>1
<1>3. f \in Seq(Symbols) /\ s \in Symbols
  BY CodesAre, EncodedBits
<1>4. Encoded(Append(f, s)) = Encoded(f) \o BitsOf(s[1], s[2])
  BY <1>3, EncodedAppend
<1>. QED
  BY <1>2, <1>4

\* A code of no bits adds nothing.
LEMMA NoBits ==
  ASSUME NEW e \in Seq({0, 1})
  PROVE  e \o BitsOf(0, 0) = e
<1>1. BitsOf(0, 0) \in Seq({0, 1}) /\ Len(BitsOf(0, 0)) = 0
  BY BitsOfType
<1>2. BitsOf(0, 0) = <<>>
  BY <1>1
<1>. QED
  BY <1>2, ConcatEmptySeq

\* A bit read goes on with the only way to read what was read before.
LEMMA ReadsOneWayStep ==
  ASSUME HuffmanInv, ReadsOneWay, [HuffmanNext]_huffmanVars
  PROVE  ReadsOneWay'
<1>1. CASE ReadBit
  <2>1. PICK bit \in {0, 1} :
           /\ bits' = Append(bits, bit)
           /\ \/ /\ Found(codeLen + 1, (2 * prefix) + bit)
                 /\ Emit(codeLen + 1, (2 * prefix) + bit)
              \/ /\ ~Found(codeLen + 1, (2 * prefix) + bit)
                 /\ codeLen' = codeLen + 1
                 /\ prefix' = (2 * prefix) + bit
                 /\ result' = IF codeLen + 1 = maxCodeLen THEN "invalid" ELSE "running"
                 /\ UNCHANGED out
    BY <1>1 DEF ReadBit
  <2>2. bits \in Seq({0, 1})
    BY DEF HuffmanInv, HuffmanTypeOK
  \* In the middle of a code.
  <2>3. ASSUME NEW chars \in Seq(Codes), NEW k \in 1..11, NEW c \in 0..Open(k) - 1,
               bits' = Encoded(chars) \o BitsOf(k, c)
        PROVE  out' = chars /\ codeLen' = k /\ prefix' = c /\ result' # "eof"
    <3>1. k \in 1..12 /\ k - 1 \in 0..11 /\ (k - 1) + 1 = k
      OBVIOUS
    <3>2. c \in 0..159 /\ c <= Last[k] /\ ~Found(k, c)
      BY <3>1, OpenCodes
    <3>3. out = chars /\ codeLen = k - 1 /\ (2 * prefix) + bit = c
      <4>. DEFINE n == k - 1
      <4>1. n \in 0..11 /\ n + 1 = k
        BY <3>1
      <4>. HIDE DEF n
      <4>2. c <= Last[n + 1] /\ Append(bits, bit) = Encoded(chars) \o BitsOf(n + 1, c)
        BY <2>1, <2>3, <3>2, <4>1
      <4>3. out = chars /\ codeLen = n /\ (2 * prefix) + bit = c
        BY <2>2, <3>2, <4>1, <4>2, ComesFrom
      <4>. QED
        BY <4>3 DEF n
    <3>4. codeLen + 1 = k
      BY <3>1, <3>3
    <3>. QED
      BY <2>1, <3>2, <3>3, <3>4, Zenon
  \* At the end of one.
  <2>4. ASSUME NEW chars \in Seq(Codes), bits' = Encoded(chars)
        PROVE  out' = chars /\ codeLen' = 0 /\ prefix' = 0 /\ result' # "eof"
    <3>1. chars # <<>>
      <4>1. Append(bits, bit) # <<>>
        BY <2>2, AppendProperties
      <4>. QED
        BY <2>1, <2>4, <4>1, EncodedEmpty
    <3>2. PICK f \in Seq(Codes), s \in Codes :
             chars = Append(f, s) /\ Encoded(chars) = Encoded(f) \o BitsOf(s[1], s[2])
      BY <3>1, LastCode
    <3>3. /\ s[1] \in 1..12 /\ s[2] \in 0..159 /\ s = <<s[1], s[2]>>
          /\ Found(s[1], s[2]) /\ s # EOF
      BY CodesAre
    <3>4. s[2] <= Last[s[1]]
      BY <3>3, OpenCodes
    <3>5. out = f /\ codeLen + 1 = s[1] /\ (2 * prefix) + bit = s[2]
      <4>. DEFINE n == s[1] - 1
                  d == s[2]
      <4>1. n \in 0..11 /\ n + 1 = s[1] /\ d \in 0..159
        BY <3>3
      <4>2. d <= Last[n + 1] /\ Append(bits, bit) = Encoded(f) \o BitsOf(n + 1, d)
        BY <2>1, <2>4, <3>2, <3>4, <4>1
      <4>. HIDE DEF n, d
      <4>3. out = f /\ codeLen = n /\ (2 * prefix) + bit = d
        BY <2>2, <4>1, <4>2, ComesFrom
      <4>. QED
        BY <4>1, <4>3 DEF d
    <3>6. Emit(s[1], s[2]) /\ <<s[1], s[2]>> # EOF
      BY <2>1, <3>3, <3>5, Zenon
    <3>7. /\ codeLen' = 0 /\ prefix' = 0 /\ out' = Append(out, <<s[1], s[2]>>)
          /\ result' # "eof"
      BY <3>6 DEF Emit
    <3>. QED
      BY <3>2, <3>3, <3>5, <3>7, Zenon
  \* The end mark.
  <2>5. ASSUME NEW chars \in Seq(Codes), bits' = Encoded(chars) \o BitsOf(12, 0)
        PROVE  out' = chars /\ result' = "eof"
    <3>1. out = chars /\ codeLen = 11 /\ (2 * prefix) + bit = 0
      <4>1. 11 \in 0..11 /\ 0 \in 0..159 /\ 0 <= Last[11 + 1] /\ 11 + 1 = 12
        BY OpenCodes
      <4>. DEFINE n == 11
                  d == 0
      <4>2. /\ n \in 0..11 /\ d \in 0..159 /\ d <= Last[n + 1]
            /\ Append(bits, bit) = Encoded(chars) \o BitsOf(n + 1, d)
        BY <2>1, <2>5, <4>1
      <4>. HIDE DEF n, d
      <4>3. out = chars /\ codeLen = n /\ (2 * prefix) + bit = d
        BY <2>2, <4>2, ComesFrom
      <4>. QED
        BY <4>3 DEF n, d
    <3>2. codeLen + 1 = 12
      BY <3>1
    <3>3. Emit(12, 0) /\ <<12, 0>> = EOF
      BY <2>1, <3>1, <3>2, OpenCodes, Zenon
    <3>. QED
      BY <3>1, <3>3 DEF Emit
  <2>6. ASSUME NEW chars \in Seq(Codes), NEW k \in 0..11, NEW c \in 0..Open(k) - 1,
               bits' = Encoded(chars) \o BitsOf(k, c)
        PROVE  out' = chars /\ codeLen' = k /\ prefix' = c /\ result' # "eof"
    <3>1. CASE k = 0
      <4>1. c = 0
        BY <3>1 DEF Open
      <4>2. Encoded(chars) \o BitsOf(0, 0) = Encoded(chars)
        BY EncodedBits, NoBits
      <4>. QED
        BY <2>4, <2>6, <3>1, <4>1, <4>2
    <3>2. CASE k # 0
      <4>1. k \in 1..11
        BY <3>2
      <4>. QED
        BY <2>3, <2>6, <4>1
    <3>. QED
      BY <3>1, <3>2
  <2>. QED
    BY <2>5, <2>6, Zenon DEF ReadsOneWay
<1>2. CASE InputEnds
  <2>1. UNCHANGED <<bits, out, codeLen, prefix>> /\ result = "running" /\ result' = "short"
    BY <1>2 DEF InputEnds
  <2>. QED
    BY <2>1, Zenon DEF ReadsOneWay
<1>3. CASE UNCHANGED huffmanVars
  <2>1. UNCHANGED <<bits, out, codeLen, prefix, result>>
    BY <1>3 DEF huffmanVars
  <2>. QED
    BY <2>1, Zenon DEF ReadsOneWay
<1>. QED
  BY <1>1, <1>2, <1>3 DEF HuffmanNext

\* What is decoded is what was encoded: input that is the code of some bytes
\* yields those, and the end mark after them ends it; no input can be read in two
\* ways.
DecodesWhatWasEncoded ==
    \A chars \in Seq(Codes) :
        /\ bits = Encoded(chars) => out = chars /\ result # "eof"
        /\ bits = Encoded(chars) \o BitsOf(EOF[1], EOF[2]) => out = chars /\ result = "eof"

\* HuffmanDecode (huffman.go:331-372) yields the bytes that were encoded and no
\* others, for data of any length: no code of rawTree begins another.
THEOREM EncodedIsDecoded == HuffmanSpec => []DecodesWhatWasEncoded
<1>1. HuffmanInit => ReadsOneWay
  <2>. SUFFICES ASSUME HuffmanInit PROVE ReadsOneWay
    OBVIOUS
  <2>1. bits = <<>> /\ out = <<>> /\ codeLen = 0 /\ prefix = 0 /\ result # "eof"
    BY DEF HuffmanInit
  <2>2. ASSUME NEW chars \in Seq(Codes), NEW n \in 0..12, NEW c \in Nat,
               bits = Encoded(chars) \o BitsOf(n, c)
        PROVE  n = 0 /\ chars = <<>>
    <3>. DEFINE e == Encoded(chars)
                t == BitsOf(n, c)
    <3>1. e \in Seq({0, 1}) /\ t \in Seq({0, 1}) /\ Len(t) = n
      BY EncodedBits, BitsOfType
    <3>2. bits = e \o t
      BY <2>2
    <3>. HIDE DEF e, t
    <3>3. Len(e \o t) = Len(e) + Len(t) /\ Len(e) \in Nat /\ Len(t) \in Nat
      BY <3>1, ConcatLen, LenProperties
    <3>4. Len(t) = 0 /\ Len(e) = 0
      <4>1. Len(e \o t) = 0
        <5>1. e \o t = <<>>
          BY <2>1, <3>2, Zenon
        <5>. QED
          BY <5>1
      <4>. QED
        BY <3>3, <4>1
    <3>5. ASSUME chars # <<>> PROVE FALSE
      <4>1. PICK f \in Seq(Codes), s \in Codes :
               Encoded(chars) = Encoded(f) \o BitsOf(s[1], s[2])
        BY <3>5, LastCode
      <4>. DEFINE g == Encoded(f)
                  u == BitsOf(s[1], s[2])
      <4>2. s[1] \in 0..12 /\ s[1] # 0 /\ s[2] \in Nat
        <5>1. s[1] \in 1..12 /\ s[2] \in 0..159
          BY CodesAre, Zenon
        <5>. DEFINE m == s[1]
                    d == s[2]
        <5>2. m \in 1..12 /\ d \in 0..159
          BY <5>1
        <5>. HIDE DEF m, d
        <5>3. m \in 0..12 /\ m # 0 /\ d \in Nat
          BY <5>2
        <5>. QED
          BY <5>3 DEF m, d
      <4>3. g \in Seq({0, 1}) /\ u \in Seq({0, 1}) /\ Len(u) = s[1]
        BY <4>2, EncodedBits, BitsOfType
      <4>4. e = g \o u
        BY <4>1 DEF e
      <4>. HIDE DEF g, u
      <4>5. Len(g \o u) = Len(g) + Len(u) /\ Len(g) \in Nat
        BY <4>3, ConcatLen, LenProperties
      <4>. QED
        BY <3>4, <4>2, <4>3, <4>4, <4>5
    <3>. QED
      BY <3>1, <3>4, <3>5
  <2>3. ASSUME NEW chars \in Seq(Codes), NEW n \in 0..11, NEW c \in 0..Open(n) - 1,
               bits = Encoded(chars) \o BitsOf(n, c)
        PROVE  n = 0 /\ c = 0 /\ chars = <<>>
    <3>1. n \in 0..12 /\ c \in Nat
      OBVIOUS
    <3>2. n = 0 /\ chars = <<>>
      BY <2>2, <2>3, <3>1
    <3>3. Open(0) = 1
      BY DEF Open
    <3>. QED
      BY <3>2, <3>3
  <2>4. ASSUME NEW chars \in Seq(Codes) PROVE bits # Encoded(chars) \o BitsOf(12, 0)
    <3>1. 12 \in 0..12 /\ 0 \in Nat /\ 12 # 0
      OBVIOUS
    <3>. QED
      BY <2>2, <3>1, Zenon
  <2>. QED
    BY <2>1, <2>3, <2>4, Zenon DEF ReadsOneWay
<1>2. ReadsOneWay => DecodesWhatWasEncoded
  <2>. SUFFICES ASSUME ReadsOneWay, NEW chars \in Seq(Codes)
                PROVE  /\ bits = Encoded(chars) => out = chars /\ result # "eof"
                       /\ bits = Encoded(chars) \o BitsOf(EOF[1], EOF[2])
                             => out = chars /\ result = "eof"
    BY Zenon DEF DecodesWhatWasEncoded
  <2>1. 0 \in 0..11 /\ 0 \in 0..Open(0) - 1
    BY DEF Open
  <2>2. Encoded(chars) \o BitsOf(0, 0) = Encoded(chars)
    BY EncodedBits, NoBits
  <2>3. EOF[1] = 12 /\ EOF[2] = 0
    BY DEF EOF
  <2>. QED
    BY <2>1, <2>2, <2>3, Zenon DEF ReadsOneWay
<1>. QED
  BY <1>1, <1>2, ReadsOneWayStep, HuffmanInvariant, PTL DEF HuffmanSpec

-------------------------------------------------------------------------------
(* No damaged frame is accepted. *)

\* No two bytes are shifted to the same: those below 128 to the even ones, the
\* others to odd ones.
LEMMA ShiftInjective ==
  ASSUME NEW a \in Bytes, NEW b \in Bytes, Shift[a] = Shift[b]
  PROVE  a = b
<1>1. \A c \in Bytes : /\ (2 * c) % 256 \in Bytes
                       /\ c >= 128 => (2 * c) % 256 = (2 * c) - 256
  <2>1. ASSUME NEW c \in 0..255
        PROVE  /\ (2 * c) % 256 \in 0..255
               /\ c >= 128 => (2 * c) % 256 = (2 * c) - 256
    OBVIOUS
  <2>. QED
    BY <2>1 DEF Bytes
<1>2. 213 \in Bytes
  BY DEF Bytes
<1>3. \A c \in Bytes : Shift[c] = IF c >= 128 THEN xor[(2 * c) % 256][213] ELSE 2 * c
  BY Zenon DEF Shift
<1>4. \A x \in Bytes : xor[x][213] % 2 = 1 \/ x % 2 = 1
  <2>1. ASSUME NEW x \in Bytes, x % 2 # 1 PROVE xor[x][213] % 2 = 1
    <3>1. x \in 0..255 /\ x \div 2 \in 0..127 /\ x \div 2 \in Bytes /\ 106 \in Bytes
          /\ 213 \div 2 = 106
      BY DEF Bytes
    <3>2. (x + 213) % 2 = 1
      BY <2>1, <3>1
    <3>3. CASE x = 0
      BY <1>2, <3>3, XorSum
    <3>4. CASE x # 0
      <4>. DEFINE q == xor[x \div 2][106]
      <4>1. q \in Nat
        <5>1. q \in Bytes
          BY <3>1, XorType
        <5>. QED
          BY <5>1 DEF Bytes
      <4>2. xor[x][213] = (2 * q) + 1
        BY <1>2, <3>1, <3>2, <3>4, XorSum
      <4>. HIDE DEF q
      <4>. QED
        BY <4>1, <4>2
    <3>. QED
      BY <3>3, <3>4
  <2>. QED
    BY <2>1
<1>5. \A c \in Bytes : c >= 128 => Shift[c] % 2 = 1
  <2>1. \A c \in 0..255 : c >= 128 => ((2 * c) % 256) % 2 # 1
    OBVIOUS
  <2>2. \A c \in Bytes : c >= 128 => ((2 * c) % 256) % 2 # 1
    BY <2>1 DEF Bytes
  <2>. QED
    BY <1>1, <1>3, <1>4, <2>2
<1>6. \A c \in Bytes : ~(c >= 128) => Shift[c] % 2 # 1
  <2>1. \A c \in 0..255 : (2 * c) % 2 # 1
    OBVIOUS
  <2>. QED
    BY <1>3, <2>1 DEF Bytes
<1>7. CASE a >= 128 /\ b >= 128
  <2>1. xor[(2 * a) % 256][213] = xor[(2 * b) % 256][213]
    BY <1>3, <1>7
  <2>2. (2 * a) % 256 = (2 * b) % 256
    BY <1>1, <1>2, <2>1, XorTwice
  <2>3. (2 * a) - 256 = (2 * b) - 256
    BY <1>1, <1>7, <2>2
  <2>. QED
    BY <2>3 DEF Bytes
<1>8. CASE ~(a >= 128) /\ ~(b >= 128)
  <2>1. 2 * a = 2 * b
    BY <1>3, <1>8
  <2>. QED
    BY <2>1 DEF Bytes
<1>. QED
  BY <1>5, <1>6, <1>7, <1>8

\* Nor does crc8Table map two bytes to the same.
LEMMA TableInjective ==
  ASSUME NEW a \in Bytes, NEW b \in Bytes, crc8Table[a] = crc8Table[b]
  PROVE  a = b
<1>1. \A c \in Bytes : Shift[c] \in Bytes
  BY ShiftType
<1>2. \A c \in Bytes : \A d \in Bytes : Shift[c] = Shift[d] => c = d
  BY ShiftInjective
<1>3. \A c \in Bytes : \A d \in Bytes :
         Shift[Shift[Shift[Shift[c]]]] = Shift[Shift[Shift[Shift[d]]]] => c = d
  <2>1. \A c \in Bytes : \A d \in Bytes : Shift[Shift[c]] = Shift[Shift[d]] => c = d
    BY <1>1, <1>2, Zenon
  <2>2. \A c \in Bytes : Shift[Shift[c]] \in Bytes
    BY <1>1, Zenon
  <2>. QED
    BY <2>1, <2>2, Zenon
<1>4. \A c \in Bytes : Shift[Shift[Shift[Shift[c]]]] \in Bytes
  BY <1>1, Zenon
<1>5. Shift[Shift[Shift[Shift[a]]]] = Shift[Shift[Shift[Shift[b]]]]
  <2>1. Shift[Shift[Shift[Shift[Shift[Shift[Shift[Shift[a]]]]]]]]
           = Shift[Shift[Shift[Shift[Shift[Shift[Shift[Shift[b]]]]]]]]
    BY Zenon DEF crc8Table
  <2>. QED
    BY <1>3, <1>4, <2>1, Zenon
<1>. QED
  BY <1>3, <1>5, Zenon

\* The exclusive or with a byte does not either.
LEMMA XorInjective ==
  ASSUME NEW a \in Bytes, NEW b \in Bytes, NEW x \in Bytes
  PROVE  /\ xor[a][x] = xor[b][x] => a = b
         /\ xor[x][a] = xor[x][b] => a = b
<1>1. xor[a][x] = xor[b][x] => a = b
  <2>1. xor[xor[a][x]][x] = a /\ xor[xor[b][x]][x] = b
    BY XorTwice
  <2>. QED
    BY <2>1
<1>2. xor[x][a] = xor[a][x] /\ xor[x][b] = xor[b][x]
  BY XorCommutes
<1>. QED
  BY <1>1, <1>2

\* Two runs that agree up to a step at which they part, and never meet again.
LEMMA RunsPart ==
  ASSUME NEW n \in Nat, NEW k \in 1..n, NEW f, NEW g, f[0] = g[0],
         \A i \in 1..n : i < k => (f[i - 1] = g[i - 1] => f[i] = g[i]),
         f[k - 1] = g[k - 1] => f[k] # g[k],
         \A i \in 1..n : i > k => (f[i - 1] # g[i - 1] => f[i] # g[i])
  PROVE  f[n] # g[n]
<1>. DEFINE S == {i \in Nat : i <= n => (f[i] = g[i] <=> i < k)}
<1>1. 0 \in S
  OBVIOUS
<1>2. ASSUME NEW i \in Nat, i \in S PROVE i + 1 \in S
  <2>1. ASSUME i + 1 <= n PROVE f[i + 1] = g[i + 1] <=> i + 1 < k
    <3>1. i + 1 \in 1..n /\ (i + 1) - 1 = i /\ i <= n
      BY <2>1
    <3>2. f[i] = g[i] <=> i < k
      BY <1>2, <3>1
    <3>3. CASE i + 1 < k
      <4>1. i < k
        BY <3>3
      <4>. QED
        BY <3>1, <3>2, <3>3, <4>1
    <3>4. CASE i + 1 = k
      <4>1. i < k /\ k - 1 = i /\ ~(i + 1 < k)
        BY <3>4
      <4>. QED
        BY <3>2, <3>4, <4>1
    <3>5. CASE i + 1 > k
      <4>1. ~(i < k) /\ ~(i + 1 < k)
        BY <3>5
      <4>. QED
        BY <3>1, <3>2, <3>5, <4>1
    <3>. QED
      BY <3>3, <3>4, <3>5
  <2>. QED
    BY <2>1
<1>3. n \in S
  <2>. HIDE DEF S
  <2>. QED
    BY <1>1, <1>2, Induction
<1>. QED
  BY <1>3

\* Two sequences that are equal but for one element.
OneDiffers(s, t) ==
    /\ Len(s) = Len(t)
    /\ \E k \in 1..Len(s) : /\ s[k] # t[k]
                            /\ \A i \in 1..Len(s) : i # k => s[i] = t[i]

\* Neither checksum is the same when one byte differs.
LEMMA ChecksumsDiffer ==
  ASSUME NEW s \in Seq(Bytes), NEW t \in Seq(Bytes), OneDiffers(s, t)
  PROVE  CRC8DVBS2(s, 0) # CRC8DVBS2(t, 0) /\ CRC8Xor(s) # CRC8Xor(t)
<1>. DEFINE n == Len(s)
<1>1. PICK k \in 1..n : s[k] # t[k] /\ \A i \in 1..n : i # k => s[i] = t[i]
  BY DEF OneDiffers
<1>2. n \in Nat /\ n = Len(t) /\ k \in Nat
  BY DEF OneDiffers
<1>3. \A i \in 1..n : s[i] \in Bytes /\ t[i] \in Bytes
  BY <1>2, ElementOfSeq
<1>4. 0 \in Bytes
  BY DEF Bytes
<1>5. /\ \A a \in Bytes : \A b \in Bytes : \A x \in Bytes : xor[a][x] = xor[b][x] => a = b
      /\ \A a \in Bytes : \A b \in Bytes : \A x \in Bytes : xor[x][a] = xor[x][b] => a = b
      /\ \A a \in Bytes : \A b \in Bytes : crc8Table[a] = crc8Table[b] => a = b
      /\ \A a \in Bytes : \A b \in Bytes : xor[a][b] \in Bytes
  BY XorInjective, TableInjective, XorType
<1>6. CRC8DVBS2(s, 0) # CRC8DVBS2(t, 0)
  <2>1. PICK f : /\ f[0] = 0 /\ CRC8DVBS2(s, 0) = f[n]
                 /\ \A i \in 1..n : f[i - 1] \in Bytes /\ f[i] = crc8Table[xor[f[i - 1]][s[i]]]
    BY <1>4, DVBS2Run
  <2>2. PICK g : /\ g[0] = 0 /\ CRC8DVBS2(t, 0) = g[Len(t)]
                 /\ \A i \in 1..Len(t) : g[i - 1] \in Bytes /\ g[i] = crc8Table[xor[g[i - 1]][t[i]]]
    BY <1>4, DVBS2Run
  <2>3. /\ CRC8DVBS2(t, 0) = g[n]
        /\ \A i \in 1..n : g[i - 1] \in Bytes /\ g[i] = crc8Table[xor[g[i - 1]][t[i]]]
    BY <1>2, <2>2
  <2>. HIDE DEF n
  <2>4. ASSUME NEW i \in 1..n
        PROVE  (f[i] = g[i]) <=> (xor[f[i - 1]][s[i]] = xor[g[i - 1]][t[i]])
    <3>1. f[i - 1] \in Bytes /\ g[i - 1] \in Bytes /\ s[i] \in Bytes /\ t[i] \in Bytes
      BY <1>3, <2>1, <2>3
    <3>2. xor[f[i - 1]][s[i]] \in Bytes /\ xor[g[i - 1]][t[i]] \in Bytes
      BY <1>5, <3>1, Zenon
    <3>3. f[i] = crc8Table[xor[f[i - 1]][s[i]]] /\ g[i] = crc8Table[xor[g[i - 1]][t[i]]]
      BY <2>1, <2>3
    <3>. QED
      BY <1>5, <3>2, <3>3, Zenon
  <2>5. \A i \in 1..n : i < k => (f[i - 1] = g[i - 1] => f[i] = g[i])
    <3>1. \A i \in 1..n : i < k => i # k
      BY <1>2
    <3>. QED
      BY <1>1, <2>4, <3>1, Zenon
  <2>6. f[k - 1] = g[k - 1] => f[k] # g[k]
    <3>1. f[k - 1] \in Bytes /\ g[k - 1] \in Bytes /\ s[k] \in Bytes /\ t[k] \in Bytes
      BY <1>3, <2>1, <2>3
    <3>2. (f[k] = g[k]) <=> (xor[f[k - 1]][s[k]] = xor[g[k - 1]][t[k]])
      BY <2>4
    <3>3. ASSUME f[k - 1] = g[k - 1], f[k] = g[k] PROVE FALSE
      <4>1. xor[f[k - 1]][s[k]] = xor[f[k - 1]][t[k]]
        BY <3>2, <3>3
      <4>2. s[k] = t[k]
        BY <3>1, <4>1, XorInjective
      <4>. QED
        BY <1>1, <4>2
    <3>. QED
      BY <3>3
  <2>7. \A i \in 1..n : i > k => (f[i - 1] # g[i - 1] => f[i] # g[i])
    <3>. SUFFICES ASSUME NEW i \in 1..n, i > k PROVE f[i - 1] # g[i - 1] => f[i] # g[i]
      OBVIOUS
    <3>1. f[i - 1] \in Bytes /\ g[i - 1] \in Bytes /\ s[i] \in Bytes /\ s[i] = t[i]
      BY <1>1, <1>2, <1>3, <2>1, <2>3
    <3>2. (f[i] = g[i]) <=> (xor[f[i - 1]][s[i]] = xor[g[i - 1]][t[i]])
      BY <2>4
    <3>3. ASSUME f[i] = g[i] PROVE f[i - 1] = g[i - 1]
      <4>1. xor[f[i - 1]][s[i]] = xor[g[i - 1]][s[i]]
        BY <3>1, <3>2, <3>3
      <4>. QED
        BY <1>5, <3>1, <4>1, Zenon
    <3>. QED
      BY <3>3
  <2>8. f[0] = g[0]
    BY <2>1, <2>2
  <2>9. f[n] # g[n]
    BY <1>2, <2>5, <2>6, <2>7, <2>8, RunsPart
  <2>. QED
    BY <2>1, <2>3, <2>9
<1>7. CRC8Xor(s) # CRC8Xor(t)
  <2>1. PICK f : /\ f[0] = 0 /\ CRC8Xor(s) = f[n]
                 /\ \A i \in 1..n : f[i - 1] \in Bytes /\ f[i] = xor[f[i - 1]][s[i]]
    BY CRC8XorRun
  <2>2. PICK g : /\ g[0] = 0 /\ CRC8Xor(t) = g[Len(t)]
                 /\ \A i \in 1..Len(t) : g[i - 1] \in Bytes /\ g[i] = xor[g[i - 1]][t[i]]
    BY CRC8XorRun
  <2>3. /\ CRC8Xor(t) = g[n]
        /\ \A i \in 1..n : g[i - 1] \in Bytes /\ g[i] = xor[g[i - 1]][t[i]]
    BY <1>2, <2>2
  <2>. HIDE DEF n
  <2>5. \A i \in 1..n : i < k => (f[i - 1] = g[i - 1] => f[i] = g[i])
    <3>1. \A i \in 1..n : i < k => i # k
      BY <1>2
    <3>. QED
      BY <1>1, <2>1, <2>3, <3>1, Zenon
  <2>6. f[k - 1] = g[k - 1] => f[k] # g[k]
    <3>1. f[k - 1] \in Bytes /\ g[k - 1] \in Bytes /\ s[k] \in Bytes /\ t[k] \in Bytes
      BY <1>3, <2>1, <2>3
    <3>2. (f[k] = g[k]) <=> (xor[f[k - 1]][s[k]] = xor[g[k - 1]][t[k]])
      BY <2>1, <2>3
    <3>3. ASSUME f[k - 1] = g[k - 1], f[k] = g[k] PROVE FALSE
      <4>1. xor[f[k - 1]][s[k]] = xor[f[k - 1]][t[k]]
        BY <3>2, <3>3
      <4>2. s[k] = t[k]
        BY <3>1, <4>1, XorInjective
      <4>. QED
        BY <1>1, <4>2
    <3>. QED
      BY <3>3
  <2>7. \A i \in 1..n : i > k => (f[i - 1] # g[i - 1] => f[i] # g[i])
    <3>. SUFFICES ASSUME NEW i \in 1..n, i > k PROVE f[i - 1] # g[i - 1] => f[i] # g[i]
      OBVIOUS
    <3>1. f[i - 1] \in Bytes /\ g[i - 1] \in Bytes /\ s[i] \in Bytes /\ s[i] = t[i]
      BY <1>1, <1>2, <1>3, <2>1, <2>3
    <3>2. (f[i] = g[i]) <=> (xor[f[i - 1]][s[i]] = xor[g[i - 1]][t[i]])
      BY <2>1, <2>3
    <3>3. ASSUME f[i] = g[i] PROVE f[i - 1] = g[i - 1]
      <4>1. xor[f[i - 1]][s[i]] = xor[g[i - 1]][s[i]]
        BY <3>1, <3>2, <3>3
      <4>. QED
        BY <1>5, <3>1, <4>1, Zenon
    <3>. QED
      BY <3>3
  <2>8. f[0] = g[0]
    BY <2>1, <2>2
  <2>9. f[n] # g[n]
    BY <1>2, <2>5, <2>6, <2>7, <2>8, RunsPart
  <2>. QED
    BY <2>1, <2>3, <2>9
<1>. QED
  BY <1>6, <1>7

\* The frames of the two versions.
FramesV1 == [version : {1}, direction : Directions, code : Bytes,
             payload : {p \in Seq(Bytes) : Len(p) \in Bytes}]
FramesV2 == [version : {2}, direction : Directions, code : Words,
             payload : {p \in Seq(Bytes) : Len(p) \in Words}]

\* What the encoder may make.
Sent == {EncodeV1(f) : f \in FramesV1} \cup {EncodeV2(f, flag) : f \in FramesV2, flag \in Bytes}

\* One byte after the direction is not the one that was sent.
Damaged(s) == \E t \in Sent : \E k \in 4..Len(t) : \E b \in Bytes :
                 b # t[k] /\ s = [t EXCEPT ![k] = b]

\* s holds body from its fourth byte on.
Holds(s, body, n) ==
    body \in Seq(Bytes) /\ Len(body) = n /\ \A i \in 1..n : s[i + 3] = body[i]

\* s and t differ in one byte of their n, and it is after the third.
OneIsDamaged(s, t, n) ==
    \E k \in 4..n : s[k] # t[k] /\ \A i \in 1..n : i # k => s[i] = t[i]

\* Then their bodies are the same and their checksums are not, or the other way
\* round.
LEMMA FarApart ==
  ASSUME NEW body, NEW body2, NEW n \in Nat, NEW s, NEW t,
         Holds(s, body, n), Holds(t, body2, n), OneIsDamaged(s, t, n + 4)
  PROVE  \/ body = body2 /\ s[n + 4] # t[n + 4]
         \/ OneDiffers(body, body2) /\ s[n + 4] = t[n + 4]
<1>. USE DEF Holds
<1>0. PICK k \in 4..n + 4 : s[k] # t[k] /\ \A i \in 1..n + 4 : i # k => s[i] = t[i]
  BY DEF OneIsDamaged
<1>1. CASE k = n + 4
  <2>1. \A i \in 1..n : i + 3 \in 1..n + 4 /\ i + 3 # k
    BY <1>1
  <2>2. \A i \in 1..n : body[i] = body2[i]
    BY <1>0, <2>1
  <2>3. body = body2
    BY <2>2, SeqEqual
  <2>. QED
    BY <1>0, <1>1, <2>3
<1>2. CASE k # n + 4
  <2>1. k - 3 \in 1..n /\ (k - 3) + 3 = k /\ n + 4 \in 1..n + 4
    BY <1>2
  <2>2. body[k - 3] # body2[k - 3]
    BY <1>0, <2>1
  <2>3. \A i \in 1..n : i # k - 3 => i + 3 \in 1..n + 4 /\ i + 3 # k
    OBVIOUS
  <2>4. \A i \in 1..n : i # k - 3 => body[i] = body2[i]
    BY <1>0, <2>3
  <2>5. OneDiffers(body, body2)
    BY <2>1, <2>2, <2>4 DEF OneDiffers
  <2>6. s[n + 4] = t[n + 4]
    BY <1>0, <1>2, <2>1
  <2>. QED
    BY <2>5, <2>6
<1>. QED
  BY <1>1, <1>2

\* A damaged frame of version 1 is not one.
LEMMA DamagedV1 ==
  ASSUME NEW f \in FramesV1, NEW k \in 4..Len(EncodeV1(f)), NEW b \in Bytes, b # EncodeV1(f)[k]
  PROVE  /\ [EncodeV1(f) EXCEPT ![k] = b] # <<>>
         /\ FrameOf([EncodeV1(f) EXCEPT ![k] = b]) = {}
<1>. DEFINE s == EncodeV1(f)
            t == [s EXCEPT ![k] = b]
            g == FieldsV1(t)
            n == Len(f.payload)
<1>1. /\ f.direction \in Directions /\ f.code \in Bytes /\ f.payload \in Seq(Bytes)
      /\ n \in Bytes /\ n \in Nat
  BY DEF FramesV1, Bytes
<1>2. /\ <<Dollar, ProtoM, f.direction>> \in Seq(Bytes) /\ BodyV1(f) \in Seq(Bytes)
      /\ Len(BodyV1(f)) = n + 2 /\ CRC8Xor(BodyV1(f)) \in Bytes
      /\ s = <<Dollar, ProtoM, f.direction>> \o BodyV1(f) \o <<CRC8Xor(BodyV1(f))>>
  BY <1>1, BodiesOfV1
<1>3. s \in Seq(Bytes) /\ Len(s) = n + 6 /\ s[2] = ProtoM
  <2>. DEFINE pre == <<Dollar, ProtoM, f.direction>>
              body == BodyV1(f)
              x == CRC8Xor(body)
  <2>1. Len(pre) = 3 /\ pre[2] = ProtoM /\ Len(body) = n + 2
    BY <1>2
  <2>2. pre \in Seq(Bytes) /\ body \in Seq(Bytes) /\ x \in Bytes /\ s = pre \o body \o <<x>>
    BY <1>2
  <2>. HIDE DEF pre, body, x, s, n
  <2>3. /\ pre \o body \o <<x>> \in Seq(Bytes)
        /\ Len(pre \o body \o <<x>>) = Len(body) + 4
        /\ (pre \o body \o <<x>>)[2] = pre[2]
    BY <2>1, <2>2, Layout
  <2>. QED
    BY <1>1, <2>1, <2>2, <2>3
<1>4. /\ t \in Seq(Bytes) /\ Len(t) = n + 6 /\ t[2] = ProtoM /\ t[k] = b
      /\ \A i \in 1..n + 6 : i # k => s[i] = t[i]
  <2>. HIDE DEF s, n
  <2>1. k \in 1..Len(s) /\ k # 2 /\ 2 \in 1..Len(s)
    BY <1>1, <1>3 DEF s
  <2>2. /\ t \in Seq(Bytes) /\ Len(t) = Len(s) /\ t[k] = b
        /\ \A i \in 1..Len(s) : i # k => s[i] = t[i]
    BY <1>3, <2>1
  <2>. HIDE DEF t
  <2>. QED
    BY <1>3, <2>1, <2>2
<1>5. ~IsV2(t)
  BY <1>4 DEF IsV2, ProtoM, ProtoX
<1>6. ASSUME IsV1(t) PROVE FALSE
  <2>1. EncodeV1(g) = t /\ t[3] \in Directions
    BY <1>6 DEF IsV1
  <2>2. /\ g.direction = t[3] /\ g.code = t[5] /\ g.payload = SubSeq(t, 6, Len(t) - 1)
    BY DEF FieldsV1
  <2>. HIDE DEF s, t, g, n
  <2>3. t[5] \in Bytes
    BY <1>1, <1>4, ElementOfSeq
  <2>4. SubSeq(t, 6, Len(t) - 1) \in Seq(Bytes) /\ Len(SubSeq(t, 6, Len(t) - 1)) = n
    <3>1. Len(t) = 5 + n + 1 /\ 5 + 1 = 6
      BY <1>1, <1>4
    <3>2. SubSeq(t, 5 + 1, Len(t) - 1) \in Seq(Bytes) /\ Len(SubSeq(t, 5 + 1, Len(t) - 1)) = n
      BY <1>1, <1>4, <3>1, PayloadOf
    <3>. QED
      BY <3>1, <3>2
  <2>5. /\ g.direction \in Directions /\ g.code \in Bytes
        /\ g.payload \in Seq(Bytes) /\ Len(g.payload) = n
    BY <2>1, <2>2, <2>3, <2>4
  <2>6. /\ <<Dollar, ProtoM, g.direction>> \in Seq(Bytes) /\ BodyV1(g) \in Seq(Bytes)
        /\ Len(BodyV1(g)) = n + 2 /\ CRC8Xor(BodyV1(g)) \in Bytes
        /\ t = <<Dollar, ProtoM, g.direction>> \o BodyV1(g) \o <<CRC8Xor(BodyV1(g))>>
    BY <1>1, <2>1, <2>5, BodiesOfV1
  <2>7. /\ \A i \in 1..n + 2 : s[i + 3] = BodyV1(f)[i]
        /\ s[n + 6] = CRC8Xor(BodyV1(f))
    BY <1>1, <1>2, LayoutIs
  <2>8. /\ \A i \in 1..n + 2 : t[i + 3] = BodyV1(g)[i]
        /\ t[n + 6] = CRC8Xor(BodyV1(g))
    BY <1>1, <2>6, LayoutIs
  <2>9. \/ BodyV1(f) = BodyV1(g) /\ s[n + 6] # t[n + 6]
        \/ OneDiffers(BodyV1(f), BodyV1(g)) /\ s[n + 6] = t[n + 6]
    <3>. DEFINE m == n + 2
    <3>1. m \in Nat /\ m + 4 = n + 6 /\ k \in 4..m + 4 /\ s[k] # t[k]
      BY <1>1, <1>3, <1>4 DEF s
    <3>2. Holds(s, BodyV1(f), m) /\ Holds(t, BodyV1(g), m)
      BY <1>2, <2>6, <2>7, <2>8 DEF Holds
    <3>3. OneIsDamaged(s, t, m + 4)
      <4>1. \A i \in 1..m + 4 : i # k => s[i] = t[i]
        BY <1>4, <3>1
      <4>. QED
        BY <3>1, <4>1 DEF OneIsDamaged
    <3>. HIDE DEF m
    <3>4. \/ BodyV1(f) = BodyV1(g) /\ s[m + 4] # t[m + 4]
          \/ OneDiffers(BodyV1(f), BodyV1(g)) /\ s[m + 4] = t[m + 4]
      BY <3>1, <3>2, <3>3, FarApart
    <3>. QED
      BY <3>1, <3>4
  <2>10. OneDiffers(BodyV1(f), BodyV1(g)) => CRC8Xor(BodyV1(f)) # CRC8Xor(BodyV1(g))
    BY <1>2, <2>6, ChecksumsDiffer
  <2>. QED
    BY <2>7, <2>8, <2>9, <2>10
<1>. HIDE DEF t
<1>7. FrameOf(t) = {}
  BY <1>5, <1>6, Zenon DEF FrameOf
<1>8. t # <<>>
  <2>1. Len(t) # 0
    BY <1>1, <1>4
  <2>. QED
    BY <2>1
<1>. QED
  BY <1>7, <1>8 DEF t

\* A damaged frame of version 2 is not one.
LEMMA DamagedV2 ==
  ASSUME NEW f \in FramesV2, NEW flag \in Bytes, NEW k \in 4..Len(EncodeV2(f, flag)),
         NEW b \in Bytes, b # EncodeV2(f, flag)[k]
  PROVE  /\ [EncodeV2(f, flag) EXCEPT ![k] = b] # <<>>
         /\ FrameOf([EncodeV2(f, flag) EXCEPT ![k] = b]) = {}
<1>. DEFINE s == EncodeV2(f, flag)
            t == [s EXCEPT ![k] = b]
            g == FieldsV2(t)
            n == Len(f.payload)
            F == BodyV2(f, flag)
            G == BodyV2(g, t[4])
<1>1. /\ f.direction \in Directions /\ f.code \in Words /\ f.payload \in Seq(Bytes)
      /\ n \in Words /\ n \in Nat
  <2>1. n \in Words /\ n \in Nat
    BY DEF FramesV2
  <2>. QED
    BY <2>1 DEF FramesV2
<1>2. /\ <<Dollar, ProtoX, f.direction>> \in Seq(Bytes) /\ F \in Seq(Bytes)
      /\ Len(F) = n + 5 /\ CRC8DVBS2(F, 0) \in Bytes
      /\ s = <<Dollar, ProtoX, f.direction>> \o F \o <<CRC8DVBS2(F, 0)>>
  BY <1>1, BodiesOfV2
<1>3. s \in Seq(Bytes) /\ Len(s) = n + 9 /\ s[2] = ProtoX
  <2>. DEFINE pre == <<Dollar, ProtoX, f.direction>>
              body == F
              x == CRC8DVBS2(body, 0)
  <2>1. Len(pre) = 3 /\ pre[2] = ProtoX /\ Len(body) = n + 5
    BY <1>2
  <2>2. pre \in Seq(Bytes) /\ body \in Seq(Bytes) /\ x \in Bytes /\ s = pre \o body \o <<x>>
    BY <1>2
  <2>. HIDE DEF pre, body, x, s, n
  <2>3. /\ pre \o body \o <<x>> \in Seq(Bytes)
        /\ Len(pre \o body \o <<x>>) = Len(body) + 4
        /\ (pre \o body \o <<x>>)[2] = pre[2]
    BY <2>1, <2>2, Layout
  <2>. QED
    BY <1>1, <2>1, <2>2, <2>3
<1>4. /\ t \in Seq(Bytes) /\ Len(t) = n + 9 /\ t[2] = ProtoX /\ t[k] = b
      /\ \A i \in 1..n + 9 : i # k => s[i] = t[i]
  <2>. HIDE DEF s, n
  <2>1. k \in 1..Len(s) /\ k # 2 /\ 2 \in 1..Len(s)
    BY <1>1, <1>3 DEF s
  <2>2. /\ t \in Seq(Bytes) /\ Len(t) = Len(s) /\ t[k] = b
        /\ \A i \in 1..Len(s) : i # k => s[i] = t[i]
    BY <1>3, <2>1
  <2>. HIDE DEF t
  <2>. QED
    BY <1>3, <2>1, <2>2
<1>5. ~IsV1(t)
  BY <1>4 DEF IsV1, ProtoM, ProtoX
<1>6. ASSUME IsV2(t) PROVE FALSE
  <2>1. EncodeV2(g, t[4]) = t /\ t[3] \in Directions
    BY <1>6 DEF IsV2
  <2>2. /\ g.direction = t[3] /\ g.code = t[5] + (256 * t[6])
        /\ g.payload = SubSeq(t, 9, Len(t) - 1)
    BY DEF FieldsV2
  <2>. HIDE DEF s, t, g, n
  <2>3. t[4] \in Bytes /\ t[5] + (256 * t[6]) \in Words
    <3>1. 4 \in 1..Len(t) /\ 5 \in 1..Len(t) /\ 6 \in 1..Len(t)
      BY <1>1, <1>4
    <3>2. t[4] \in Bytes /\ t[5] \in Bytes /\ t[6] \in Bytes
      BY <1>4, <3>1, ElementOfSeq
    <3>3. \A x \in Bytes : x \in Int
      BY DEF Bytes
    <3>. QED
      BY <3>2, <3>3, WordOfBytes
  <2>4. SubSeq(t, 9, Len(t) - 1) \in Seq(Bytes) /\ Len(SubSeq(t, 9, Len(t) - 1)) = n
    <3>1. Len(t) = 8 + n + 1 /\ 8 + 1 = 9
      BY <1>1, <1>4
    <3>2. SubSeq(t, 8 + 1, Len(t) - 1) \in Seq(Bytes) /\ Len(SubSeq(t, 8 + 1, Len(t) - 1)) = n
      BY <1>1, <1>4, <3>1, PayloadOf
    <3>. QED
      BY <3>1, <3>2
  <2>5. /\ g.direction \in Directions /\ g.code \in Words
        /\ g.payload \in Seq(Bytes) /\ Len(g.payload) = n
    BY <2>1, <2>2, <2>3, <2>4
  <2>6. /\ <<Dollar, ProtoX, g.direction>> \in Seq(Bytes) /\ G \in Seq(Bytes)
        /\ Len(G) = n + 5 /\ CRC8DVBS2(G, 0) \in Bytes
        /\ t = <<Dollar, ProtoX, g.direction>> \o G \o <<CRC8DVBS2(G, 0)>>
    BY <1>1, <2>1, <2>3, <2>5, BodiesOfV2
  <2>7. /\ \A i \in 1..n + 5 : s[i + 3] = F[i]
        /\ s[n + 9] = CRC8DVBS2(F, 0)
    BY <1>1, <1>2, LayoutIs
  <2>8. /\ \A i \in 1..n + 5 : t[i + 3] = G[i]
        /\ t[n + 9] = CRC8DVBS2(G, 0)
    BY <1>1, <2>6, LayoutIs
  <2>9. \/ F = G /\ s[n + 9] # t[n + 9]
        \/ OneDiffers(F, G) /\ s[n + 9] = t[n + 9]
    <3>. DEFINE m == n + 5
    <3>1. m \in Nat /\ m + 4 = n + 9 /\ k \in 4..m + 4 /\ s[k] # t[k]
      BY <1>1, <1>3, <1>4 DEF s
    <3>2. Holds(s, F, m) /\ Holds(t, G, m)
      BY <1>2, <2>6, <2>7, <2>8 DEF Holds
    <3>3. OneIsDamaged(s, t, m + 4)
      <4>1. \A i \in 1..m + 4 : i # k => s[i] = t[i]
        BY <1>4, <3>1
      <4>. QED
        BY <3>1, <4>1 DEF OneIsDamaged
    <3>. HIDE DEF m
    <3>4. \/ F = G /\ s[m + 4] # t[m + 4]
          \/ OneDiffers(F, G) /\ s[m + 4] = t[m + 4]
      BY <3>1, <3>2, <3>3, FarApart
    <3>. QED
      BY <3>1, <3>4
  <2>10. OneDiffers(F, G) => CRC8DVBS2(F, 0) # CRC8DVBS2(G, 0)
    BY <1>2, <2>6, ChecksumsDiffer
  <2>. QED
    BY <2>7, <2>8, <2>9, <2>10
<1>. HIDE DEF t
<1>7. FrameOf(t) = {}
  BY <1>5, <1>6, Zenon DEF FrameOf
<1>8. t # <<>>
  <2>1. Len(t) # 0
    BY <1>1, <1>4
  <2>. QED
    BY <2>1
<1>. QED
  BY <1>7, <1>8 DEF t

\* A frame with one byte damaged, its direction excepted, is never taken for one.
DamageIsNoticed == Damaged(seen) => frames = {}

\* Damaged bytes are not those of any frame.
LEMMA DamagedIsNoFrame ==
  ASSUME NEW s, Damaged(s)
  PROVE  s # <<>> /\ FrameOf(s) = {}
<1>0. PICK t \in Sent : \E k \in 4..Len(t) : \E b \in Bytes : b # t[k] /\ s = [t EXCEPT ![k] = b]
  BY DEF Damaged
<1>1. PICK k \in 4..Len(t) : \E b \in Bytes : b # t[k] /\ s = [t EXCEPT ![k] = b]
  BY <1>0
<1>1a. PICK b \in Bytes : b # t[k] /\ s = [t EXCEPT ![k] = b]
  BY <1>1
<1>2. CASE t \in {EncodeV1(f) : f \in FramesV1}
  <2>1. PICK f \in FramesV1 : t = EncodeV1(f)
    BY <1>2
  <2>. QED
    BY <1>1a, <2>1, DamagedV1
<1>3. CASE t \in {EncodeV2(f, flag) : f \in FramesV2, flag \in Bytes}
  <2>1. PICK f \in FramesV2, flag \in Bytes : t = EncodeV2(f, flag)
    BY <1>3
  <2>. QED
    BY <1>1a, <2>1, DamagedV2
<1>. QED
  BY <1>2, <1>3 DEF Sent

\* A frame that EncodeV1 or EncodeV2 (framing.go:13-37) made, of any payload, and
\* that has reached the decoder with any one byte after the direction changed, is
\* never returned by Feed (framing.go:97-229): both checksums notice every change
\* of a single byte, one in a length or a code included.
THEOREM NoDamagedFrame == Spec => []DamageIsNoticed
<1>1. DecodesWhatIsEncoded => DamageIsNoticed
  BY DamagedIsNoFrame DEF DecodesWhatIsEncoded, DamageIsNoticed
<1>. QED
  BY <1>1, FramesAreWhatIsEncoded, PTL
===============================================================================
