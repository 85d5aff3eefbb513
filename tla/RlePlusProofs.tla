---------------------------- MODULE RlePlusProofs ----------------------------
(***************************************************************************)
(* Proofs about RlePlus, for words of every size and every input and       *)
(* buffer: how far Decode reads, that what it returns increases, that the  *)
(* length Encode returns is exact, and that Take undoes Extend.            *)
(*                                                                         *)
(* The operators of RlePlus are folds. A fold is a CHOOSE of a recursive   *)
(* function on subsets, about which nothing is known until the function is *)
(* shown to exist. FoldExists shows it for a fold given by a function, by  *)
(* induction over a set of naturals instead of a predicate; the lemma      *)
(* <operator>Steps then gives, for each fold of the model, the sequence of *)
(* its intermediate values, which the lemmas about it do induction on.     *)
(***************************************************************************)
EXTENDS RlePlus, SequenceTheorems, FiniteSetTheorems, WellFoundedInduction, TLAPS

-----------------------------------------------------------------------------
(* Induction over the naturals, with a set in the place of a predicate.    *)

\* A set of naturals that is not empty has a least element.
LEMMA Least ==
  ASSUME NEW T \in SUBSET Nat, T # {}
  PROVE  \E x \in T : \A y \in T : x <= y
<1>1. \E x \in T : \A y \in T : ~(<<y, x>> \in OpToRel(<, Nat))
  BY NatLessThanWellFounded, WFMin
<1>2. PICK x \in T : \A y \in T : ~(<<y, x>> \in OpToRel(<, Nat))
  BY <1>1
<1>3. ASSUME NEW y \in T PROVE x <= y
  <2>1. ~(<<y, x>> \in {ss \in Nat \X Nat : ss[1] < ss[2]})
    BY <1>2 DEF OpToRel
  <2>2. x \in Nat /\ y \in Nat /\ ~(y < x)
    BY <2>1
  <2> QED
    BY <2>2
<1> QED
  BY <1>3

\* Induction up to a bound.
LEMMA InductTo ==
  ASSUME NEW n \in Nat, NEW S, 0 \in S, \A k \in 1..n : k - 1 \in S => k \in S
  PROVE  \A k \in 0..n : k \in S
<1> DEFINE T == (0..n) \ S
<1> SUFFICES ASSUME T # {} PROVE FALSE
  OBVIOUS
<1>0. T \in SUBSET Nat
  OBVIOUS
<1>1. PICK k \in T : \A y \in T : k <= y
  <2> HIDE DEF T
  <2> QED
    BY <1>0, Least
<1>2. k \in 1..n /\ k - 1 \notin T
  BY <1>1
<1> QED
  BY <1>1, <1>2

\* Induction over all naturals.
LEMMA Induct ==
  ASSUME NEW S, 0 \in S, \A k \in Nat : k \in S => k + 1 \in S
  PROVE  \A k \in Nat : k \in S
<1> SUFFICES ASSUME NEW n \in Nat PROVE n \in S
  OBVIOUS
<1>1. \A k \in 1..n : k - 1 \in S => k \in S
  OBVIOUS
<1>2. \A k \in 0..n : k \in S
  BY <1>1, InductTo
<1> QED
  BY <1>2

-----------------------------------------------------------------------------
(* Folds: the operators of the model are folds of the community modules.   *)

\* The largest number of a set that is not empty.
LEMMA MaxIn ==
  ASSUME NEW n \in Nat, NEW s \in SUBSET (1..n), s # {}
  PROVE  Max(s) \in s /\ \A y \in s : Max(s) >= y
<1> DEFINE T == {k \in Nat : \A y \in s : y <= k}
<1>1. n \in T
  OBVIOUS
<1>2. PICK k \in T : \A y \in T : k <= y
  BY <1>1, Least
<1>3. k \in s
  <2> SUFFICES ASSUME k \notin s PROVE FALSE
    OBVIOUS
  <2>0. PICK y \in s : y \in 1..n
    OBVIOUS
  <2>1. k # 0
    BY <1>2, <2>0
  <2>2. k - 1 \in T
    BY <2>1, <1>2
  <2> QED
    BY <2>2, <1>2
<1>4. \E x \in s : \A y \in s : x >= y
  BY <1>2, <1>3
<1> QED
  BY <1>4, Zenon DEF Max

\* The top of 1..n is the largest number of a set that has it.
LEMMA MaxTop ==
  ASSUME NEW n \in Nat, NEW s \in SUBSET (1..n), n \in s
  PROVE  Max(s) = n
<1>1. Max(s) \in s /\ Max(s) >= n
  BY MaxIn
<1>2. Max(s) \in 1..n
  BY <1>1
<1> QED
  BY <1>1, <1>2

\* g is the function that a fold with F over 1..n recurs on.
Folded(g, n, D, base, F) ==
  /\ g \in [SUBSET (1..n) -> D]
  /\ \A s \in SUBSET (1..n) : g[s] = IF s = {} THEN base ELSE F[<<Max(s), g[s \ {Max(s)}]>>]

StepsIn(n, D) == [(1..n) \X D -> D]

\* A fold over 1..n that stays in D is well defined.
LEMMA FoldExists ==
  ASSUME NEW n \in Nat, NEW D, NEW base \in D, NEW F \in StepsIn(n, D)
  PROVE  \E g : Folded(g, n, D, base, F)
<1> USE DEF StepsIn
<1> DEFINE Ok(k, g) == \A s \in SUBSET (1..k) :
             g[s] = IF s = {} THEN base ELSE F[<<Max(s), g[s \ {Max(s)}]>>]
<1> DEFINE S == {k \in 0..n : \E g \in [SUBSET (1..k) -> D] : Ok(k, g)}
<1>1. 0 \in S
  <2> DEFINE g == [s \in SUBSET (1..0) |-> base]
  <2>1. g \in [SUBSET (1..0) -> D] /\ Ok(0, g)
    <3>1. \A s \in SUBSET (1..0) : s = {}
      OBVIOUS
    <3>2. \A s \in SUBSET (1..0) : g[s] = base
      OBVIOUS
    <3>3. g \in [SUBSET (1..0) -> D]
      OBVIOUS
    <3> HIDE DEF g
    <3> QED
      BY <3>1, <3>2, <3>3
  <2> HIDE DEF g, Ok
  <2>2. \E f \in [SUBSET (1..0) -> D] : Ok(0, f)
    BY <2>1
  <2>3. 0 \in 0..n
    OBVIOUS
  <2> QED
    BY <2>2, <2>3
<1>2. ASSUME NEW k \in 1..n, k - 1 \in S PROVE k \in S
  <2>1. PICK g \in [SUBSET (1..(k - 1)) -> D] : Ok(k - 1, g)
    BY <1>2
  <2> DEFINE f == [s \in SUBSET (1..k) |-> IF k \in s THEN F[<<k, g[s \ {k}]>>] ELSE g[s]]
  <2>2. ASSUME NEW s \in SUBSET (1..k)
        PROVE  k \in s => s \ {k} \in SUBSET (1..(k - 1)) /\ Max(s) = k
    BY MaxTop
  <2>3. ASSUME NEW s \in SUBSET (1..k)
        PROVE  k \notin s => s \in SUBSET (1..(k - 1))
    OBVIOUS
  <2>4. f \in [SUBSET (1..k) -> D]
    BY <2>1, <2>2, <2>3
  <2>5. ASSUME NEW s \in SUBSET (1..k)
        PROVE  f[s] = IF s = {} THEN base ELSE F[<<Max(s), f[s \ {Max(s)}]>>]
    <3>1. CASE k \in s
      <4>1. Max(s) = k /\ s # {} /\ s \ {k} \in SUBSET (1..k) /\ s \ {k} \in SUBSET (1..(k - 1))
        BY <3>1, <2>2
      <4>2. f[s \ {k}] = g[s \ {k}] /\ f[s] = F[<<k, g[s \ {k}]>>]
        BY <3>1, <4>1
      <4> QED
        BY <4>1, <4>2
    <3>2. CASE k \notin s
      <4>1. s \in SUBSET (1..(k - 1)) /\ f[s] = g[s]
        BY <3>2, <2>3
      <4>2. CASE s = {}
        BY <4>1, <4>2, <2>1
      <4>3. CASE s # {}
        <5>1. g[s] = F[<<Max(s), g[s \ {Max(s)}]>>]
          BY <4>1, <4>3, <2>1
        <5>2. s \ {Max(s)} \in SUBSET (1..k) /\ k \notin s \ {Max(s)}
          BY <3>2
        <5> QED
          BY <4>1, <4>3, <5>1, <5>2
      <4> QED
        BY <4>2, <4>3
    <3> QED
      BY <3>1, <3>2
  <2>6. Ok(k, f)
    BY <2>5
  <2> HIDE DEF f, Ok
  <2> QED
    BY <2>4, <2>6
<1>3. n \in S
  <2> HIDE DEF S
  <2> QED
    BY <1>1, <1>2, InductTo
<1> QED
  BY <1>3 DEF Folded

-----------------------------------------------------------------------------
(* Bits and bit vectors.                                                   *)

Byte == 0..255
Bits == {0, 1}

\* Bytes are naturals.
LEMMA ByteNat == \A b \in Byte : b \in Nat
BY DEF Byte

\* The powers of two that select a bit of a byte.
LEMMA Powers ==
  /\ 2^0 = 1 /\ 2^1 = 2 /\ 2^2 = 4 /\ 2^3 = 8
  /\ 2^4 = 16 /\ 2^5 = 32 /\ 2^6 = 64 /\ 2^7 = 128
OBVIOUS

\* Both bit orders stay within the byte (bitvector.go: BitNumbering).
LEMMA ShiftIn ==
  ASSUME NEW order \in Orders, NEW i \in 0..7
  PROVE  Shift(order, i) \in 0..7
BY DEF Orders, Shift

\* Two bits of a byte are at different places.
LEMMA ShiftApart ==
  ASSUME NEW order \in Orders, NEW i \in 0..7, NEW j \in 0..7, Shift(order, i) = Shift(order, j)
  PROVE  i = j
BY DEF Orders, Shift

\* A bit is zero or one.
LEMMA BitIn ==
  ASSUME NEW b \in Int, NEW k \in 0..7
  PROVE  Bit(b, k) \in Bits
<1>1. k \in {0, 1, 2, 3, 4, 5, 6, 7}
  OBVIOUS
<1> QED
  BY <1>1, Powers DEF Bit, Bits

Weights == {1, 2, 4, 8, 16, 32, 64, 128}

\* The bits of a byte have different weights.
LEMMA PowerIn ==
  /\ \A i \in 0..7 : 2^i \in Weights
  /\ \A i, j \in 0..7 : 2^i = 2^j => i = j
<1>1. 0..7 = {0, 1, 2, 3, 4, 5, 6, 7}
  OBVIOUS
<1> QED
  BY <1>1, Powers DEF Weights

\* Adding a power of two whose bit is not set changes no other bit.
LEMMA NoCarry ==
  ASSUME NEW b \in Byte, NEW m \in Weights, (b \div m) % 2 = 0
  PROVE  /\ b + m \in Byte
         /\ \A n \in Weights : ((b + m) \div n) % 2 = IF n = m THEN 1 ELSE (b \div n) % 2
<1> USE DEF Weights, Byte
<1>1. CASE m = 1
  BY <1>1
<1>2. CASE m = 2
  BY <1>2
<1>3. CASE m = 4
  BY <1>3
<1>4. CASE m = 8
  BY <1>4
<1>5. CASE m = 16
  BY <1>5
<1>6. CASE m = 32
  BY <1>6
<1>7. CASE m = 64
  BY <1>7
<1>8. CASE m = 128
  BY <1>8
<1> QED
  BY <1>1, <1>2, <1>3, <1>4, <1>5, <1>6, <1>7, <1>8

\* A byte in which a bit is set that was not.
LEMMA BitAdd ==
  ASSUME NEW b \in Byte, NEW k \in 0..7, NEW x \in Bits, Bit(b, k) = 0
  PROVE  /\ b + x * 2^k \in Byte
         /\ \A i \in 0..7 : Bit(b + x * 2^k, i) = IF i = k THEN x ELSE Bit(b, i)
<1>0. /\ \A i \in 0..7 : 2^i \in Weights
      /\ \A i, j \in 0..7 : 2^i = 2^j => i = j
  BY PowerIn
<1>1. b \in Int /\ 2^k \in Int /\ x \in {0, 1}
  BY <1>0 DEF Byte, Weights, Bits
<1>2. CASE x = 0
  <2>1. b + x * 2^k = b
    BY <1>1, <1>2
  <2> QED
    BY <1>2, <2>1
<1>3. CASE x = 1
  <2>1. b + x * 2^k = b + 2^k
    BY <1>1, <1>3
  <2>2. /\ b + 2^k \in Byte
        /\ \A n \in Weights : ((b + 2^k) \div n) % 2 = IF n = 2^k THEN 1 ELSE (b \div n) % 2
    BY <1>0, NoCarry DEF Bit
  <2> QED
    BY <1>0, <1>3, <2>1, <2>2 DEF Bit
<1> QED
  BY <1>1, <1>2, <1>3

-----------------------------------------------------------------------------
(* Bit vectors.                                                            *)

\* The bit at a place of the bytes of a vector, behind its length included.
At(v, idx) == Bit(v.buf[idx \div 8 + 1], Shift(v.packing, idx % 8))

\* The vectors that Push makes: as many bytes as their bits need, with zeroes
\* behind the last bit.
Vectors ==
  {v \in [buf : Seq(Byte), len : Nat, packing : Orders] :
     /\ Len(v.buf) = (v.len + 7) \div 8
     /\ \A k \in v.len..(8 * Len(v.buf) - 1) : At(v, k) = 0}

\* The vector that Encode begins with.
LEMMA EmptyVector ==
  ASSUME NEW packing \in Orders
  PROVE  NewVector(packing) \in Vectors
<1>1. /\ NewVector(packing) \in [buf : Seq(Byte), len : Nat, packing : Orders]
      /\ NewVector(packing).len = 0 /\ NewVector(packing).buf = <<>>
  BY DEF NewVector
<1>2. Len(<<>>) = 0 /\ (0 + 7) \div 8 = 0 /\ 0..(8 * 0 - 1) = {}
  OBVIOUS
<1> QED
  BY <1>1, <1>2 DEF Vectors

\* Bits in bytes.
LEMMA Eights ==
  ASSUME NEW n \in Nat
  PROVE  /\ n % 8 \in 0..7 /\ n \div 8 \in Nat /\ n = 8 * (n \div 8) + (n % 8)
         /\ (n + 7) \div 8 = IF n % 8 = 0 THEN n \div 8 ELSE n \div 8 + 1
OBVIOUS

\* Every place of the bytes holds a bit.
LEMMA AtIn ==
  ASSUME NEW v, v.buf \in Seq(Byte), v.packing \in Orders, NEW k \in 0..(8 * Len(v.buf) - 1)
  PROVE  At(v, k) \in Bits
<1>1. k \div 8 + 1 \in 1..Len(v.buf) /\ k % 8 \in 0..7
  <2>1. Len(v.buf) \in Nat
    OBVIOUS
  <2> QED
    BY <2>1
<1>2. v.buf[k \div 8 + 1] \in Byte /\ Shift(v.packing, k % 8) \in 0..7
  BY <1>1, ShiftIn
<1>3. Byte \subseteq Int
  BY DEF Byte
<1> QED
  BY <1>2, <1>3, BitIn DEF At

\* Push adds its bit behind the others and changes none of them.
LEMMA PushVector ==
  ASSUME NEW v \in Vectors, NEW x \in Bits
  PROVE  /\ Push(v, x) \in Vectors
         /\ Push(v, x).len = v.len + 1 /\ Push(v, x).packing = v.packing
         /\ \A k \in Nat : Get(Push(v, x), k) = IF k = v.len THEN x ELSE Get(v, k)
<1> DEFINE q == v.len % 8
           last == v.len \div 8 + 1
           b == IF v.len % 8 = 0 THEN Append(v.buf, 0) ELSE v.buf
           c == b[last] + x * 2^Shift(v.packing, q)
           u == Push(v, x)
<1>1. /\ v.buf \in Seq(Byte) /\ v.len \in Nat /\ v.packing \in Orders
      /\ Len(v.buf) = (v.len + 7) \div 8
  BY DEF Vectors
<1>z. \A k \in v.len..(8 * Len(v.buf) - 1) : At(v, k) = 0
  BY DEF Vectors
<1>r. v = [buf |-> v.buf, len |-> v.len, packing |-> v.packing]
  BY DEF Vectors
<1>2. /\ q \in 0..7 /\ last \in Nat /\ last >= 1 /\ last - 1 \in Nat
      /\ v.len = 8 * (last - 1) + q
      /\ Len(v.buf) = IF q = 0 THEN last - 1 ELSE last
  <2>1. /\ q \in 0..7 /\ v.len \div 8 \in Nat /\ v.len = 8 * (v.len \div 8) + q
        /\ Len(v.buf) = IF q = 0 THEN v.len \div 8 ELSE v.len \div 8 + 1
    BY <1>1, Eights
  <2> HIDE DEF q
  <2> QED
    BY <2>1
<1>3. /\ b \in Seq(Byte) /\ Len(b) = last
      /\ \A k \in 1..(last - 1) : b[k] = v.buf[k]
      /\ v.len % 8 = 0 => b[last] = 0
      /\ v.len % 8 # 0 => b[last] = v.buf[last]
  <2>1. CASE q = 0
    <3>1. b = Append(v.buf, 0) /\ 0 \in Byte /\ v.len % 8 = 0
      BY <2>1 DEF Byte
    <3> HIDE DEF b, q, last
    <3> QED
      BY <1>1, <1>2, <2>1, <3>1
  <2>2. CASE q # 0
    <3>1. b = v.buf /\ v.len % 8 # 0
      BY <2>2
    <3> HIDE DEF b, q, last
    <3> QED
      BY <1>1, <1>2, <2>2, <3>1
  <2> QED
    BY <2>1, <2>2
<1>4. b[last] \in Byte /\ \A i \in q..7 : Bit(b[last], Shift(v.packing, i)) = 0
  <2>1. b[last] \in Byte
    BY <1>2, <1>3
  <2>2. CASE v.len % 8 = 0
    <3>1. \A i \in 0..7 : Shift(v.packing, i) \in 0..7
      BY <1>1, ShiftIn
    <3>2. \A j \in 0..7 : Bit(0, j) = 0
      <4>1. \A w \in Weights : (0 \div w) % 2 = 0
        BY DEF Weights
      <4> QED
        BY <4>1, PowerIn DEF Bit
    <3> QED
      BY <1>2, <1>3, <2>1, <2>2, <3>1, <3>2
  <2>3. CASE v.len % 8 # 0
    <3>1. ASSUME NEW i \in q..7 PROVE Bit(b[last], Shift(v.packing, i)) = 0
      <4>1. Len(v.buf) = last
        BY <1>2, <2>3
      <4>2. 8 * (last - 1) + i \in v.len..(8 * Len(v.buf) - 1)
        <5> HIDE DEF q, last
        <5> QED
          BY <1>2, <4>1
      <4>3. (8 * (last - 1) + i) \div 8 + 1 = last /\ (8 * (last - 1) + i) % 8 = i
        <5> HIDE DEF q, last
        <5> QED
          BY <1>2
      <4> QED
        BY <1>z, <1>3, <2>3, <4>2, <4>3 DEF At
    <3> QED
      BY <2>1, <3>1
  <2> QED
    BY <2>2, <2>3
<1>5. /\ c \in Byte
      /\ \A i \in 0..7 : Bit(c, Shift(v.packing, i)) =
           IF i = q THEN x ELSE Bit(b[last], Shift(v.packing, i))
  <2>1. Shift(v.packing, q) \in 0..7 /\ Bit(b[last], Shift(v.packing, q)) = 0
    <3> HIDE DEF q, last, b
    <3>1. q \in q..7
      BY <1>2
    <3> QED
      BY <1>1, <1>2, <1>4, <3>1, ShiftIn
  <2>2. /\ c \in Byte
        /\ \A i \in 0..7 : Bit(c, i) = IF i = Shift(v.packing, q) THEN x ELSE Bit(b[last], i)
    <3> HIDE DEF q, last, b
    <3>1. b[last] \in Byte
      BY <1>4
    <3>2. \A a \in Byte, k \in 0..7 : Bit(a, k) = 0 =>
            /\ a + x * 2^k \in Byte
            /\ \A i \in 0..7 : Bit(a + x * 2^k, i) = IF i = k THEN x ELSE Bit(a, i)
      BY BitAdd
    <3> QED
      BY <2>1, <3>1, <3>2
  <2>3. \A i \in 0..7 : Shift(v.packing, i) \in 0..7 /\ (Shift(v.packing, i) = Shift(v.packing, q) => i = q)
    BY <1>1, <1>2, ShiftIn, ShiftApart
  <2> HIDE DEF c, q, b, last
  <2> QED
    BY <2>2, <2>3
<1>6. u = [buf |-> [b EXCEPT ![last] = c], len |-> v.len + 1, packing |-> v.packing]
  <2>1. u = [v EXCEPT !.buf = [b EXCEPT ![last] = c], !.len = v.len + 1]
    <3>1. b[last] + x * 2^Shift(v.packing, v.len % 8) = c
      OBVIOUS
    <3> QED
      BY Zenon DEF Push
  <2> HIDE DEF q, last, b, c, u
  <2> QED
    BY <1>r, <2>1
<1>7. /\ u.buf \in Seq(Byte) /\ Len(u.buf) = last
      /\ \A k \in 1..(last - 1) : u.buf[k] = v.buf[k]
      /\ u.buf[last] = c
      /\ u.len = v.len + 1 /\ u.packing = v.packing
  <2> HIDE DEF c, q, b, u, last
  <2> QED
    BY <1>2, <1>3, <1>5, <1>6
<1>8. /\ \A k \in 0..(8 * (last - 1) - 1) : At(u, k) = At(v, k)
      /\ \A i \in 0..7 : At(u, 8 * (last - 1) + i) =
           IF i = q THEN x ELSE Bit(b[last], Shift(v.packing, i))
  <2> HIDE DEF c, q, b, u, last
  <2>1. ASSUME NEW k \in 0..(8 * (last - 1) - 1) PROVE At(u, k) = At(v, k)
    <3>1. k \div 8 + 1 \in 1..(last - 1)
      BY <1>2
    <3> QED
      BY <1>7, <3>1 DEF At
  <2>2. ASSUME NEW i \in 0..7
        PROVE  At(u, 8 * (last - 1) + i) = IF i = q THEN x ELSE Bit(b[last], Shift(v.packing, i))
    <3>1. (8 * (last - 1) + i) \div 8 + 1 = last /\ (8 * (last - 1) + i) % 8 = i
      BY <1>2
    <3> QED
      BY <1>5, <1>7, <3>1 DEF At
  <2> QED
    BY <2>1, <2>2
<1>9. u \in Vectors
  <2> HIDE DEF c, q, b, u, last
  <2>1. u.len \in Nat /\ Len(u.buf) = (u.len + 7) \div 8
    <3>1. \A l, m, i \in Nat : i \in 0..7 /\ l = 8 * m + i => (l + 1 + 7) \div 8 = m + 1
      OBVIOUS
    <3>2. last - 1 + 1 = last /\ u.len = v.len + 1
      BY <1>2, <1>7
    <3>3. (v.len + 1 + 7) \div 8 = last - 1 + 1
      BY <1>1, <1>2, <3>1
    <3> QED
      BY <1>1, <1>7, <3>2, <3>3
  <2>2. ASSUME NEW k \in u.len..(8 * Len(u.buf) - 1) PROVE At(u, k) = 0
    <3>1. PICK i \in (q + 1)..7 : k = 8 * (last - 1) + i
      <4>1. k - 8 * (last - 1) \in (q + 1)..7 /\ k = 8 * (last - 1) + (k - 8 * (last - 1))
        <5>1. k \in (8 * (last - 1) + q + 1)..(8 * last - 1)
          BY <1>2, <1>7
        <5> QED
          BY <1>2, <5>1
      <4> QED
        BY <4>1
    <3>2. i \in 0..7 /\ i \in q..7 /\ i # q
      BY <1>2
    <3> QED
      BY <1>4, <1>8, <3>1, <3>2
  <2> QED
    BY <1>1, <1>6, <1>7, <2>1, <2>2 DEF Vectors
<1>10. ASSUME NEW k \in Nat PROVE Get(u, k) = IF k = v.len THEN x ELSE Get(v, k)
  <2> HIDE DEF c, q, b, u, last
  <2>0. \A z : Get(z, k) = IF k >= z.len THEN 0 ELSE At(z, k)
    BY DEF Get, At
  <2>1. CASE k < 8 * (last - 1)
    <3>1. k \in 0..(8 * (last - 1) - 1) /\ ~(k >= v.len) /\ ~(k >= v.len + 1) /\ k # v.len
      BY <1>2, <2>1
    <3> QED
      BY <1>7, <1>8, <2>0, <3>1
  <2>2. CASE k >= 8 * (last - 1) /\ k <= v.len
    <3>1. PICK i \in 0..q : k = 8 * (last - 1) + i
      <4>1. k - 8 * (last - 1) \in 0..q /\ k = 8 * (last - 1) + (k - 8 * (last - 1))
        BY <1>2, <2>2
      <4> QED
        BY <4>1
    <3>2. CASE i = q
      <4>1. k = v.len /\ ~(k >= v.len + 1)
        BY <1>1, <1>2, <3>1, <3>2
      <4> QED
        BY <1>2, <1>7, <1>8, <2>0, <3>1, <3>2, <4>1
    <3>3. CASE i # q
      <4>1. i \in 0..7 /\ ~(k >= v.len) /\ ~(k >= v.len + 1) /\ k # v.len /\ q # 0
        BY <1>2, <3>1, <3>3
      <4>2. k \div 8 + 1 = last /\ k % 8 = i
        BY <1>2, <3>1, <4>1
      <4>3. At(v, k) = Bit(b[last], Shift(v.packing, i))
        BY <1>3, <4>1, <4>2 DEF At, q
      <4> QED
        BY <1>7, <1>8, <2>0, <3>1, <3>3, <4>1, <4>3
    <3> QED
      BY <3>2, <3>3
  <2>3. CASE k > v.len
    BY <1>1, <1>7, <2>0, <2>3
  <2> QED
    BY <1>1, <1>2, <2>1, <2>2, <2>3
<1> QED
  BY <1>7, <1>9, <1>10

\* The initial segments of 1..n, over which a fold goes.
LEMMA UpToFacts ==
  ASSUME NEW n \in Nat
  PROVE  /\ 1..0 = {} /\ 1..0 \in SUBSET (1..n)
         /\ \A k \in 1..n : /\ 1..k \in SUBSET (1..n) /\ 1..k # {}
                            /\ Max(1..k) = k /\ (1..k) \ {Max(1..k)} = 1..(k - 1)
<1>1. ASSUME NEW k \in 1..n PROVE Max(1..k) = k
  <2>1. k \in Nat /\ 1..k \in SUBSET (1..k) /\ k \in 1..k
    OBVIOUS
  <2> QED
    BY <2>1, MaxTop
<1>2. ASSUME NEW k \in 1..n PROVE 1..k \in SUBSET (1..n) /\ 1..k # {} /\ (1..k) \ {k} = 1..(k - 1)
  OBVIOUS
<1>3. 1..0 = {} /\ 1..0 \in SUBSET (1..n)
  OBVIOUS
<1> QED
  BY <1>1, <1>2, <1>3

\* The vectors that Extend goes through, bit by bit.
ExtendedBy(a, v, val, count, order) ==
  /\ a \in [0..count -> Vectors] /\ a[0] = v
  /\ \A k \in 1..count : a[k] = Push(a[k - 1], Bit(val, Shift(order, k - 1)))
  /\ Extend(v, val, count, order) = a[count]

\* Extend is defined by its steps, each of which makes a vector.
LEMMA ExtendSteps ==
  ASSUME NEW v \in Vectors, NEW val \in Nat, NEW count \in 0..8, NEW order \in Orders
  PROVE  \E a : ExtendedBy(a, v, val, count, order)
<1> DEFINE q == [i \in 1..count |-> i]
           Body(f) == [s \in SUBSET DOMAIN q |->
                         IF s = {} THEN v ELSE Push(f[s \ {Max(s)}], Bit(val, Shift(order, q[Max(s)] - 1)))]
           iter == CHOOSE f : f = Body(f)
           F == [p \in (1..count) \X Vectors |-> Push(p[2], Bit(val, Shift(order, q[p[1]] - 1)))]
<1>1. Extend(v, val, count, order) = iter[DOMAIN q]
  BY Zenon DEF Extend, FoldLeft, MapThenFoldSet
<1>2. count \in Nat /\ DOMAIN q = 1..count /\ v \in Vectors /\ \A k \in 1..count : q[k] = k
  OBVIOUS
<1>3. ASSUME NEW k \in 1..count, NEW d \in Vectors PROVE Push(d, Bit(val, Shift(order, q[k] - 1))) \in Vectors
  <2>1. q[k] - 1 \in 0..7 /\ val \in Int
    BY <1>2
  <2> HIDE DEF q
  <2>2. Bit(val, Shift(order, q[k] - 1)) \in Bits
    BY <2>1, ShiftIn, BitIn
  <2> QED
    BY <2>2, PushVector
<1>4. \E f : f = Body(f)
  <2> HIDE DEF q
  <2>1. F \in StepsIn(count, Vectors)
    BY <1>3 DEF StepsIn
  <2>2. PICK g : Folded(g, count, Vectors, v, F)
    <3> HIDE DEF F
    <3> QED
      BY <1>2, <2>1, FoldExists
  <2>3. ASSUME NEW s \in SUBSET (1..count), s # {}
        PROVE  g[s] = Push(g[s \ {Max(s)}], Bit(val, Shift(order, q[Max(s)] - 1)))
    <3>1. Max(s) \in 1..count /\ s \ {Max(s)} \in SUBSET (1..count)
      BY <1>2, <2>3, MaxIn
    <3>2. g[s] = F[<<Max(s), g[s \ {Max(s)}]>>] /\ g[s \ {Max(s)}] \in Vectors
      BY <2>2, <2>3, <3>1 DEF Folded
    <3> QED
      BY <3>1, <3>2
  <2>4. g = Body(g)
    BY <1>2, <2>2, <2>3 DEF Folded
  <2> QED
    BY <2>4
<1>5. iter = Body(iter)
  <2> HIDE DEF Body
  <2> QED
    BY <1>4
<1>6. iter[1..0] = v /\ \A k \in 1..count : iter[1..k] = Push(iter[1..(k - 1)], Bit(val, Shift(order, q[k] - 1)))
  <2> HIDE DEF q, iter
  <2>1. \A s \in SUBSET (1..count) : iter[s] = IF s = {} THEN v ELSE Push(iter[s \ {Max(s)}], Bit(val, Shift(order, q[Max(s)] - 1)))
    BY <1>2, <1>5
  <2>2. /\ 1..0 = {} /\ 1..0 \in SUBSET (1..count)
        /\ \A k \in 1..count : /\ 1..k \in SUBSET (1..count) /\ 1..k # {}
                               /\ Max(1..k) = k /\ (1..k) \ {Max(1..k)} = 1..(k - 1)
    BY <1>2, UpToFacts
  <2> HIDE DEF Body
  <2> QED
    BY <2>1, <2>2
<1> DEFINE a == [k \in 0..count |-> iter[1..k]]
<1>7. a[0] = v /\ (\A k \in 1..count : a[k] = Push(a[k - 1], Bit(val, Shift(order, k - 1)))) /\ a[count] = iter[DOMAIN q]
  <2> HIDE DEF iter, q
  <2> QED
    BY <1>2, <1>6
<1>8. a \in [0..count -> Vectors]
  <2> DEFINE S == {k \in 0..count : a[k] \in Vectors}
  <2> HIDE DEF a, q
  <2>1. 0 \in S
    <3>1. a[0] = v /\ v \in Vectors /\ 0 \in 0..count
      BY <1>2, <1>7
    <3>2. a[0] \in Vectors /\ 0 \in 0..count
      BY <3>1, Zenon
    <3> QED
      BY <3>2
  <2>2. ASSUME NEW k \in 1..count, k - 1 \in S PROVE k \in S
    <3>1. a[k] = Push(a[k - 1], Bit(val, Shift(order, q[k] - 1))) /\ a[k - 1] \in Vectors /\ k \in 0..count
      BY <1>2, <1>7, <2>2
    <3> QED
      BY <1>3, <3>1
  <2>3. \A k \in 0..count : k \in S
    <3> HIDE DEF S
    <3> QED
      BY <1>2, <2>1, <2>2, InductTo
  <2>4. \A k \in 0..count : a[k] \in Vectors
    BY <2>3
  <2> QED
    BY <2>4 DEF a
<1> QED
  <2> HIDE DEF a, iter, q
  <2> QED
    BY <1>1, <1>7, <1>8 DEF ExtendedBy

\* u is v and, behind it, the first bits of a value in a bit order.
Extended(u, v, val, count, order) ==
  /\ u.len = v.len + count /\ u.packing = v.packing
  /\ \A k \in Nat : Get(u, k) =
       IF k \in v.len..(v.len + count - 1) THEN Bit(val, Shift(order, k - v.len)) ELSE Get(v, k)

\* Extend adds the low or the high bits of its value, and changes no bit that
\* was there.
LEMMA ExtendVector ==
  ASSUME NEW v \in Vectors, NEW val \in Nat, NEW count \in 0..8, NEW order \in Orders
  PROVE  /\ Extend(v, val, count, order) \in Vectors
         /\ Extended(Extend(v, val, count, order), v, val, count, order)
<1>0. PICK a : ExtendedBy(a, v, val, count, order)
  BY ExtendSteps
<1>1. /\ a \in [0..count -> Vectors] /\ a[0] = v
      /\ \A k \in 1..count : a[k] = Push(a[k - 1], Bit(val, Shift(order, k - 1)))
      /\ Extend(v, val, count, order) = a[count]
  BY <1>0 DEF ExtendedBy
<1>2. v.len \in Nat
  BY DEF Vectors
<1> DEFINE Ok(j) ==
      /\ a[j].len = v.len + j /\ a[j].packing = v.packing
      /\ \A k \in Nat : Get(a[j], k) =
           IF k \in v.len..(v.len + j - 1) THEN Bit(val, Shift(order, k - v.len)) ELSE Get(v, k)
           S == {j \in 0..count : Ok(j)}
<1>3. 0 \in S
  BY <1>1, <1>2
<1>4. ASSUME NEW j \in 1..count, j - 1 \in S PROVE j \in S
  <2>1. Bit(val, Shift(order, j - 1)) \in Bits
    <3>1. j - 1 \in 0..7 /\ val \in Int
      OBVIOUS
    <3> QED
      BY <3>1, ShiftIn, BitIn
  <2>2. a[j - 1] \in Vectors /\ a[j] = Push(a[j - 1], Bit(val, Shift(order, j - 1)))
    BY <1>1
  <2>3. /\ a[j].len = a[j - 1].len + 1 /\ a[j].packing = a[j - 1].packing
        /\ \A k \in Nat : Get(a[j], k) =
             IF k = a[j - 1].len THEN Bit(val, Shift(order, j - 1)) ELSE Get(a[j - 1], k)
    BY <2>1, <2>2, PushVector
  <2>4. Ok(j - 1)
    BY <1>4
  <2>5. a[j].len = v.len + j /\ a[j].packing = v.packing
    BY <1>2, <2>3, <2>4
  <2>6. ASSUME NEW k \in Nat
        PROVE  Get(a[j], k) = IF k \in v.len..(v.len + j - 1) THEN Bit(val, Shift(order, k - v.len))
                              ELSE Get(v, k)
    <3>1. CASE k = v.len + (j - 1)
      <4>1. k \in v.len..(v.len + j - 1) /\ k - v.len = j - 1
        BY <1>2, <3>1
      <4> QED
        BY <2>3, <2>4, <3>1, <4>1
    <3>2. CASE k # v.len + (j - 1)
      <4>1. k \in v.len..(v.len + j - 1) <=> k \in v.len..(v.len + (j - 1) - 1)
        BY <1>2, <3>2
      <4> QED
        BY <2>3, <2>4, <3>2, <4>1
    <3> QED
      BY <3>1, <3>2
  <2> QED
    BY <2>5, <2>6
<1>5. \A j \in 0..count : j \in S
  <2>1. count \in Nat
    OBVIOUS
  <2> HIDE DEF S
  <2> QED
    BY <1>3, <1>4, <2>1, InductTo
<1>6. Extended(a[count], v, val, count, order) /\ a[count] \in Vectors
  BY <1>1, <1>5 DEF Extended
<1> QED
  BY <1>1, <1>6

\* The vectors that can be read: those that Push makes, and every slice of bytes.
Readable(v) == v.buf \in Seq(Byte) /\ v.packing \in Orders /\ v.len \in 0..(8 * Len(v.buf))

\* Decode reads what Encode made, and every buffer.
LEMMA ReadableVectors ==
  /\ \A v \in Vectors : Readable(v)
  /\ \A b \in Seq(Byte), order \in Orders : Readable(NewBitVector(b, order))
<1>1. ASSUME NEW v \in Vectors PROVE Readable(v)
  <2>1. v.buf \in Seq(Byte) /\ v.len \in Nat /\ v.packing \in Orders /\ Len(v.buf) = (v.len + 7) \div 8
    BY DEF Vectors
  <2>2. \A n \in Nat : n <= 8 * ((n + 7) \div 8)
    OBVIOUS
  <2> QED
    BY <2>1, <2>2 DEF Readable
<1>2. ASSUME NEW b \in Seq(Byte), NEW order \in Orders PROVE Readable(NewBitVector(b, order))
  <2>1. Len(b) \in Nat
    OBVIOUS
  <2> QED
    BY <2>1 DEF Readable, NewBitVector
<1> QED
  BY <1>1, <1>2

\* Get returns a bit, and zero behind the end.
LEMMA GetIn ==
  ASSUME NEW v, Readable(v), NEW k \in Nat
  PROVE  Get(v, k) \in Bits /\ (k >= v.len => Get(v, k) = 0)
<1>1. CASE k >= v.len
  BY <1>1 DEF Get, Bits
<1>2. CASE ~(k >= v.len)
  <2>1. Len(v.buf) \in Nat /\ v.len \in 0..(8 * Len(v.buf)) /\ v.buf \in Seq(Byte) /\ v.packing \in Orders
    BY DEF Readable
  <2>2. k \in 0..(8 * Len(v.buf) - 1)
    BY <1>2, <2>1
  <2>3. Get(v, k) = At(v, k)
    BY <1>2 DEF Get, At
  <2> QED
    BY <1>2, <2>1, <2>2, <2>3, AtIn
<1> QED
  BY <1>1, <1>2

\* The values that Take goes through, bit by bit.
TakenBy(a, v, index, count, order) ==
  /\ a \in [0..count -> Nat] /\ a[0] = 0
  /\ \A k \in 1..count : a[k] = a[k - 1] + Get(v, index + k - 1) * 2^Shift(order, k - 1)
  /\ Take(v, index, count, order) = a[count]

\* Take is defined by its steps.
LEMMA TakeSteps ==
  ASSUME NEW v, Readable(v), NEW index \in Nat, NEW count \in 0..8, NEW order \in Orders
  PROVE  \E a : TakenBy(a, v, index, count, order)
<1> DEFINE q == [i \in 1..count |-> i]
           Body(f) == [s \in SUBSET DOMAIN q |->
                         IF s = {} THEN 0 ELSE f[s \ {Max(s)}] + Get(v, index + q[Max(s)] - 1) * 2^Shift(order, q[Max(s)] - 1)]
           iter == CHOOSE f : f = Body(f)
           F == [p \in (1..count) \X Nat |-> p[2] + Get(v, index + q[p[1]] - 1) * 2^Shift(order, q[p[1]] - 1)]
<1>1. Take(v, index, count, order) = iter[DOMAIN q]
  BY Zenon DEF Take, FoldLeft, MapThenFoldSet
<1>2. count \in Nat /\ DOMAIN q = 1..count /\ 0 \in Nat /\ \A k \in 1..count : q[k] = k
  OBVIOUS
<1>3. ASSUME NEW k \in 1..count, NEW d \in Nat PROVE d + Get(v, index + q[k] - 1) * 2^Shift(order, q[k] - 1) \in Nat
  <2>1. q[k] - 1 \in 0..7 /\ index + q[k] - 1 \in Nat
    BY <1>2
  <2> HIDE DEF q
  <2>2. Get(v, index + q[k] - 1) \in {0, 1}
    BY <2>1, GetIn DEF Bits
  <2>3. 2^Shift(order, q[k] - 1) \in Weights
    BY <2>1, ShiftIn, PowerIn
  <2>4. 2^Shift(order, q[k] - 1) \in Nat
    BY <2>3 DEF Weights
  <2> QED
    BY <2>2, <2>4
<1>4. \E f : f = Body(f)
  <2> HIDE DEF q
  <2>1. F \in StepsIn(count, Nat)
    BY <1>3 DEF StepsIn
  <2>2. PICK g : Folded(g, count, Nat, 0, F)
    <3> HIDE DEF F
    <3> QED
      BY <1>2, <2>1, FoldExists
  <2>3. ASSUME NEW s \in SUBSET (1..count), s # {}
        PROVE  g[s] = g[s \ {Max(s)}] + Get(v, index + q[Max(s)] - 1) * 2^Shift(order, q[Max(s)] - 1)
    <3>1. Max(s) \in 1..count /\ s \ {Max(s)} \in SUBSET (1..count)
      BY <1>2, <2>3, MaxIn
    <3>2. g[s] = F[<<Max(s), g[s \ {Max(s)}]>>] /\ g[s \ {Max(s)}] \in Nat
      BY <2>2, <2>3, <3>1 DEF Folded
    <3> QED
      BY <3>1, <3>2
  <2>4. g = Body(g)
    BY <1>2, <2>2, <2>3 DEF Folded
  <2> QED
    BY <2>4
<1>5. iter = Body(iter)
  <2> HIDE DEF Body
  <2> QED
    BY <1>4
<1>6. iter[1..0] = 0 /\ \A k \in 1..count : iter[1..k] = iter[1..(k - 1)] + Get(v, index + q[k] - 1) * 2^Shift(order, q[k] - 1)
  <2> HIDE DEF q, iter
  <2>1. \A s \in SUBSET (1..count) : iter[s] = IF s = {} THEN 0 ELSE iter[s \ {Max(s)}] + Get(v, index + q[Max(s)] - 1) * 2^Shift(order, q[Max(s)] - 1)
    BY <1>2, <1>5
  <2>2. /\ 1..0 = {} /\ 1..0 \in SUBSET (1..count)
        /\ \A k \in 1..count : /\ 1..k \in SUBSET (1..count) /\ 1..k # {}
                               /\ Max(1..k) = k /\ (1..k) \ {Max(1..k)} = 1..(k - 1)
    BY <1>2, UpToFacts
  <2> HIDE DEF Body
  <2> QED
    BY <2>1, <2>2
<1> DEFINE a == [k \in 0..count |-> iter[1..k]]
<1>7. a[0] = 0 /\ (\A k \in 1..count : a[k] = a[k - 1] + Get(v, index + k - 1) * 2^Shift(order, k - 1)) /\ a[count] = iter[DOMAIN q]
  <2> HIDE DEF iter, q
  <2> QED
    BY <1>2, <1>6
<1>8. a \in [0..count -> Nat]
  <2> DEFINE S == {k \in 0..count : a[k] \in Nat}
  <2> HIDE DEF a, q
  <2>1. 0 \in S
    <3>1. a[0] = 0 /\ 0 \in Nat /\ 0 \in 0..count
      BY <1>2, <1>7
    <3>2. a[0] \in Nat /\ 0 \in 0..count
      BY <3>1, Zenon
    <3> QED
      BY <3>2
  <2>2. ASSUME NEW k \in 1..count, k - 1 \in S PROVE k \in S
    <3>1. a[k] = a[k - 1] + Get(v, index + q[k] - 1) * 2^Shift(order, q[k] - 1) /\ a[k - 1] \in Nat /\ k \in 0..count
      BY <1>2, <1>7, <2>2
    <3> QED
      BY <1>3, <3>1
  <2>3. \A k \in 0..count : k \in S
    <3> HIDE DEF S
    <3> QED
      BY <1>2, <2>1, <2>2, InductTo
  <2>4. \A k \in 0..count : a[k] \in Nat
    BY <2>3
  <2> QED
    BY <2>4 DEF a
<1> QED
  <2> HIDE DEF a, iter, q
  <2> QED
    BY <1>1, <1>7, <1>8 DEF TakenBy

\* Take returns a natural number, and zero behind the end.
LEMMA TakeIn ==
  ASSUME NEW v, Readable(v), NEW index \in Nat, NEW count \in 0..8, NEW order \in Orders
  PROVE  /\ Take(v, index, count, order) \in Nat
         /\ index >= v.len => Take(v, index, count, order) = 0
<1>1. PICK a : TakenBy(a, v, index, count, order)
  BY TakeSteps
<1>2. /\ a \in [0..count -> Nat] /\ a[0] = 0
      /\ \A k \in 1..count : a[k] = a[k - 1] + Get(v, index + k - 1) * 2^Shift(order, k - 1)
      /\ Take(v, index, count, order) = a[count]
  BY <1>1 DEF TakenBy
<1>3. ASSUME index >= v.len PROVE a[count] = 0
  <2> DEFINE S == {k \in 0..count : a[k] = 0}
  <2>1. 0 \in S
    BY <1>2
  <2>2. ASSUME NEW k \in 1..count, k - 1 \in S PROVE k \in S
    <3>1. v.len \in Int /\ index + k - 1 \in Nat /\ index + k - 1 >= v.len
      <4>1. v.len \in Int
        BY DEF Readable
      <4> QED
        BY <1>3, <4>1
    <3>2. Get(v, index + k - 1) = 0
      BY <3>1, GetIn
    <3>3. 2^Shift(order, k - 1) \in Nat
      <4>1. k - 1 \in 0..7
        OBVIOUS
      <4>2. 2^Shift(order, k - 1) \in Weights
        BY <4>1, ShiftIn, PowerIn
      <4> QED
        BY <4>2 DEF Weights
    <3>4. a[k] = a[k - 1] + 0 * 2^Shift(order, k - 1) /\ a[k - 1] = 0
      BY <1>2, <2>2, <3>2
    <3> QED
      BY <3>3, <3>4
  <2>3. \A k \in 0..count : k \in S
    <3>1. count \in Nat
      OBVIOUS
    <3> HIDE DEF S
    <3> QED
      BY <2>1, <2>2, <3>1, InductTo
  <2> QED
    BY <2>3
<1> QED
  BY <1>2, <1>3

\* Take of a single bit is Get.
LEMMA TakeOne ==
  ASSUME NEW v, Readable(v), NEW index \in Nat
  PROVE  Take(v, index, 1, "LSB0") = Get(v, index)
<1>0. "LSB0" \in Orders /\ 1 \in 0..8
  BY DEF Orders
<1>1. PICK a : TakenBy(a, v, index, 1, "LSB0")
  BY <1>0, TakeSteps
<1>2. a[1] = a[0] + Get(v, index + 1 - 1) * 2^Shift("LSB0", 1 - 1) /\ a[0] = 0
      /\ Take(v, index, 1, "LSB0") = a[1]
  BY <1>1 DEF TakenBy
<1>3. index + 1 - 1 = index /\ 2^Shift("LSB0", 1 - 1) = 1 /\ Get(v, index) \in {0, 1}
  BY Powers, GetIn DEF Shift, Bits
<1> QED
  BY <1>2, <1>3

\* The eight bits that Take reads, for each bit order.
LEMMA TakeEight ==
  ASSUME NEW v, Readable(v), NEW index \in Nat, NEW g \in [0..7 -> Bits],
         \A i \in 0..7 : Get(v, index + i) = g[i]
  PROVE  /\ Take(v, index, 8, "LSB0") =
              g[0] + 2 * g[1] + 4 * g[2] + 8 * g[3] + 16 * g[4] + 32 * g[5] + 64 * g[6] + 128 * g[7]
         /\ Take(v, index, 8, "MSB0") =
              g[7] + 2 * g[6] + 4 * g[5] + 8 * g[4] + 16 * g[3] + 32 * g[2] + 64 * g[1] + 128 * g[0]
<1>0. \A i \in 0..7 : g[i] \in Int
  BY DEF Bits
<1>1. ASSUME NEW order \in Orders
      PROVE  \E a : /\ a[0] = 0 /\ a[8] = Take(v, index, 8, order)
                    /\ \A k \in 0..7 : a[k + 1] = a[k] + g[k] * 2^Shift(order, k)
  <2>1. PICK a : TakenBy(a, v, index, 8, order)
    <3>1. 8 \in 0..8
      OBVIOUS
    <3> QED
      BY <3>1, TakeSteps
  <2>2. ASSUME NEW k \in 0..7 PROVE a[k + 1] = a[k] + g[k] * 2^Shift(order, k)
    <3>1. k + 1 \in 1..8 /\ k + 1 - 1 = k /\ index + (k + 1) - 1 = index + k
      OBVIOUS
    <3>2. a[k + 1] = a[k + 1 - 1] + Get(v, index + (k + 1) - 1) * 2^Shift(order, k + 1 - 1)
      BY <2>1, <3>1 DEF TakenBy
    <3> QED
      BY <3>1, <3>2
  <2>3. a[0] = 0 /\ a[8] = Take(v, index, 8, order)
    BY <2>1 DEF TakenBy
  <2> QED
    BY <2>2, <2>3
<1>2. Take(v, index, 8, "LSB0") =
        g[0] + 2 * g[1] + 4 * g[2] + 8 * g[3] + 16 * g[4] + 32 * g[5] + 64 * g[6] + 128 * g[7]
  <2>1. PICK a : /\ a[0] = 0 /\ a[8] = Take(v, index, 8, "LSB0")
                 /\ \A k \in 0..7 : a[k + 1] = a[k] + g[k] * 2^Shift("LSB0", k)
    BY <1>1 DEF Orders
  <2>2. /\ a[1] = a[0] + g[0] * 1 /\ a[2] = a[1] + g[1] * 2 /\ a[3] = a[2] + g[2] * 4
        /\ a[4] = a[3] + g[3] * 8 /\ a[5] = a[4] + g[4] * 16 /\ a[6] = a[5] + g[5] * 32
        /\ a[7] = a[6] + g[6] * 64 /\ a[8] = a[7] + g[7] * 128
    BY <2>1, Powers DEF Shift
  <2> QED
    BY <1>0, <2>1, <2>2
<1>3. Take(v, index, 8, "MSB0") =
        g[7] + 2 * g[6] + 4 * g[5] + 8 * g[4] + 16 * g[3] + 32 * g[2] + 64 * g[1] + 128 * g[0]
  <2>1. PICK a : /\ a[0] = 0 /\ a[8] = Take(v, index, 8, "MSB0")
                 /\ \A k \in 0..7 : a[k + 1] = a[k] + g[k] * 2^Shift("MSB0", k)
    BY <1>1 DEF Orders
  <2>2. /\ a[1] = a[0] + g[0] * 128 /\ a[2] = a[1] + g[1] * 64 /\ a[3] = a[2] + g[2] * 32
        /\ a[4] = a[3] + g[3] * 16 /\ a[5] = a[4] + g[4] * 8 /\ a[6] = a[5] + g[5] * 4
        /\ a[7] = a[6] + g[6] * 2 /\ a[8] = a[7] + g[7] * 1
    BY <2>1, Powers DEF Shift
  <2> QED
    BY <1>0, <2>1, <2>2
<1> QED
  BY <1>2, <1>3

\* Take returns the byte whose bits it reads, in the order it is asked for.
LEMMA TakeByte ==
  ASSUME NEW v, Readable(v), NEW index \in Nat, NEW order \in Orders, NEW b \in Byte,
         \A i \in 0..7 : Get(v, index + i) = Bit(b, Shift(order, i))
  PROVE  Take(v, index, 8, order) = b
<1> DEFINE g == [i \in 0..7 |-> Bit(b, Shift(order, i))]
<1>1. g \in [0..7 -> Bits] /\ \A i \in 0..7 : Get(v, index + i) = g[i]
  BY ShiftIn, BitIn DEF Byte
<1>2. b = Bit(b, 0) + 2 * Bit(b, 1) + 4 * Bit(b, 2) + 8 * Bit(b, 3)
            + 16 * Bit(b, 4) + 32 * Bit(b, 5) + 64 * Bit(b, 6) + 128 * Bit(b, 7)
  <2>1. /\ Bit(b, 0) = (b \div 1) % 2 /\ Bit(b, 1) = (b \div 2) % 2 /\ Bit(b, 2) = (b \div 4) % 2
        /\ Bit(b, 3) = (b \div 8) % 2 /\ Bit(b, 4) = (b \div 16) % 2 /\ Bit(b, 5) = (b \div 32) % 2
        /\ Bit(b, 6) = (b \div 64) % 2 /\ Bit(b, 7) = (b \div 128) % 2
    BY Powers DEF Bit
  <2>2. b = ((b \div 1) % 2) + 2 * ((b \div 2) % 2) + 4 * ((b \div 4) % 2) + 8 * ((b \div 8) % 2)
              + 16 * ((b \div 16) % 2) + 32 * ((b \div 32) % 2) + 64 * ((b \div 64) % 2)
              + 128 * ((b \div 128) % 2)
    BY DEF Byte
  <2> QED
    BY <2>1, <2>2
<1>3. CASE order = "LSB0"
  <2>1. g[0] = Bit(b, 0) /\ g[1] = Bit(b, 1) /\ g[2] = Bit(b, 2) /\ g[3] = Bit(b, 3)
        /\ g[4] = Bit(b, 4) /\ g[5] = Bit(b, 5) /\ g[6] = Bit(b, 6) /\ g[7] = Bit(b, 7)
    BY <1>3 DEF Shift
  <2> HIDE DEF g
  <2> QED
    BY <1>1, <1>2, <1>3, <2>1, TakeEight
<1>4. CASE order = "MSB0"
  <2>1. g[7] = Bit(b, 0) /\ g[6] = Bit(b, 1) /\ g[5] = Bit(b, 2) /\ g[4] = Bit(b, 3)
        /\ g[3] = Bit(b, 4) /\ g[2] = Bit(b, 5) /\ g[1] = Bit(b, 6) /\ g[0] = Bit(b, 7)
    BY <1>4 DEF Shift
  <2> HIDE DEF g
  <2> QED
    BY <1>1, <1>2, <1>4, <2>1, TakeEight
<1> QED
  BY <1>3, <1>4 DEF Orders

\* A byte with its highest bit set was not read from behind the end.
LEMMA TakeHigh ==
  ASSUME NEW v, Readable(v), NEW index \in Nat, Take(v, index, 8, "LSB0") >= 128
  PROVE  index + 7 < v.len
<1> DEFINE g == [i \in 0..7 |-> Get(v, index + i)]
<1>1. g \in [0..7 -> Bits]
  BY GetIn
<1>2. \A i \in 0..7 : Get(v, index + i) = g[i]
  OBVIOUS
<1> HIDE DEF g
<1>3. Take(v, index, 8, "LSB0") =
        g[0] + 2 * g[1] + 4 * g[2] + 8 * g[3] + 16 * g[4] + 32 * g[5] + 64 * g[6] + 128 * g[7]
  BY <1>1, <1>2, TakeEight
<1>4. g[0] \in {0, 1} /\ g[1] \in {0, 1} /\ g[2] \in {0, 1} /\ g[3] \in {0, 1}
      /\ g[4] \in {0, 1} /\ g[5] \in {0, 1} /\ g[6] \in {0, 1} /\ g[7] \in {0, 1}
  BY <1>1 DEF Bits
<1>5. g[7] # 0
  BY <1>3, <1>4
<1>6. index + 7 \in Nat /\ v.len \in Int /\ Get(v, index + 7) # 0
  BY <1>2, <1>5 DEF Readable
<1>7. ~(index + 7 >= v.len)
  BY <1>6, GetIn
<1> QED
  BY <1>6, <1>7

\* The vectors that ExtendAll goes through, byte by byte.
ExtendedByAll(a, v, bs, order) ==
  /\ a \in [0..Len(bs) -> Vectors] /\ a[0] = v
  /\ \A k \in 1..Len(bs) : a[k] = Extend(a[k - 1], bs[k], 8, order)
  /\ ExtendAll(v, bs, order) = a[Len(bs)]

\* ExtendAll is defined by its steps.
LEMMA ExtendAllSteps ==
  ASSUME NEW v \in Vectors, NEW bs \in Seq(Byte), NEW order \in Orders
  PROVE  \E a : ExtendedByAll(a, v, bs, order)
<1> DEFINE q == bs
           Body(f) == [s \in SUBSET DOMAIN q |->
                         IF s = {} THEN v ELSE Extend(f[s \ {Max(s)}], q[Max(s)], 8, order)]
           iter == CHOOSE f : f = Body(f)
           F == [p \in (1..Len(bs)) \X Vectors |-> Extend(p[2], q[p[1]], 8, order)]
<1>1. ExtendAll(v, bs, order) = iter[DOMAIN q]
  BY Zenon DEF ExtendAll, FoldLeft, MapThenFoldSet
<1>2. Len(bs) \in Nat /\ DOMAIN q = 1..Len(bs) /\ v \in Vectors /\ \A k \in 1..Len(bs) : q[k] = bs[k]
  OBVIOUS
<1>3. ASSUME NEW k \in 1..Len(bs), NEW d \in Vectors PROVE Extend(d, q[k], 8, order) \in Vectors
  <2>0. q[k] \in Byte
    OBVIOUS
  <2>1. q[k] \in Nat /\ 8 \in 0..8
    BY <2>0, ByteNat
  <2> HIDE DEF q
  <2> QED
    BY <2>1, ExtendVector
<1>4. \E f : f = Body(f)
  <2> HIDE DEF q
  <2>1. F \in StepsIn(Len(bs), Vectors)
    BY <1>3 DEF StepsIn
  <2>2. PICK g : Folded(g, Len(bs), Vectors, v, F)
    <3> HIDE DEF F
    <3> QED
      BY <1>2, <2>1, FoldExists
  <2>3. ASSUME NEW s \in SUBSET (1..Len(bs)), s # {}
        PROVE  g[s] = Extend(g[s \ {Max(s)}], q[Max(s)], 8, order)
    <3>1. Max(s) \in 1..Len(bs) /\ s \ {Max(s)} \in SUBSET (1..Len(bs))
      BY <1>2, <2>3, MaxIn
    <3>2. g[s] = F[<<Max(s), g[s \ {Max(s)}]>>] /\ g[s \ {Max(s)}] \in Vectors
      BY <2>2, <2>3, <3>1 DEF Folded
    <3> QED
      BY <3>1, <3>2
  <2>4. g = Body(g)
    BY <1>2, <2>2, <2>3 DEF Folded
  <2> QED
    BY <2>4
<1>5. iter = Body(iter)
  <2> HIDE DEF Body
  <2> QED
    BY <1>4
<1>6. iter[1..0] = v /\ \A k \in 1..Len(bs) : iter[1..k] = Extend(iter[1..(k - 1)], q[k], 8, order)
  <2> HIDE DEF q, iter
  <2>1. \A s \in SUBSET (1..Len(bs)) : iter[s] = IF s = {} THEN v ELSE Extend(iter[s \ {Max(s)}], q[Max(s)], 8, order)
    BY <1>2, <1>5
  <2>2. /\ 1..0 = {} /\ 1..0 \in SUBSET (1..Len(bs))
        /\ \A k \in 1..Len(bs) : /\ 1..k \in SUBSET (1..Len(bs)) /\ 1..k # {}
                               /\ Max(1..k) = k /\ (1..k) \ {Max(1..k)} = 1..(k - 1)
    BY <1>2, UpToFacts
  <2> HIDE DEF Body
  <2> QED
    BY <2>1, <2>2
<1> DEFINE a == [k \in 0..Len(bs) |-> iter[1..k]]
<1>7. a[0] = v /\ (\A k \in 1..Len(bs) : a[k] = Extend(a[k - 1], bs[k], 8, order)) /\ a[Len(bs)] = iter[DOMAIN q]
  <2> HIDE DEF iter, q
  <2> QED
    BY <1>2, <1>6
<1>8. a \in [0..Len(bs) -> Vectors]
  <2> DEFINE S == {k \in 0..Len(bs) : a[k] \in Vectors}
  <2> HIDE DEF a, q
  <2>1. 0 \in S
    <3>1. a[0] = v /\ v \in Vectors /\ 0 \in 0..Len(bs)
      BY <1>2, <1>7
    <3>2. a[0] \in Vectors /\ 0 \in 0..Len(bs)
      BY <3>1, Zenon
    <3> QED
      BY <3>2
  <2>2. ASSUME NEW k \in 1..Len(bs), k - 1 \in S PROVE k \in S
    <3>1. a[k] = Extend(a[k - 1], q[k], 8, order) /\ a[k - 1] \in Vectors /\ k \in 0..Len(bs)
      BY <1>2, <1>7, <2>2
    <3> QED
      BY <1>3, <3>1
  <2>3. \A k \in 0..Len(bs) : k \in S
    <3> HIDE DEF S
    <3> QED
      BY <1>2, <2>1, <2>2, InductTo
  <2>4. \A k \in 0..Len(bs) : a[k] \in Vectors
    BY <2>3
  <2> QED
    BY <2>4 DEF a
<1> QED
  <2> HIDE DEF a, iter, q
  <2> QED
    BY <1>1, <1>7, <1>8 DEF ExtendedByAll

\* ExtendAll adds its bytes behind what was there.
LEMMA ExtendAllVector ==
  ASSUME NEW v \in Vectors, NEW bs \in Seq(Byte), NEW order \in Orders
  PROVE  /\ ExtendAll(v, bs, order) \in Vectors
         /\ ExtendAll(v, bs, order).len = v.len + 8 * Len(bs)
         /\ ExtendAll(v, bs, order).packing = v.packing
         /\ \A k \in Nat : k < v.len => Get(ExtendAll(v, bs, order), k) = Get(v, k)
         /\ \A j \in 1..Len(bs), i \in 0..7 :
              Get(ExtendAll(v, bs, order), v.len + 8 * (j - 1) + i) = Bit(bs[j], Shift(order, i))
<1>0. PICK a : ExtendedByAll(a, v, bs, order)
  BY ExtendAllSteps
<1>1. /\ a \in [0..Len(bs) -> Vectors] /\ a[0] = v
      /\ \A k \in 1..Len(bs) : a[k] = Extend(a[k - 1], bs[k], 8, order)
      /\ ExtendAll(v, bs, order) = a[Len(bs)]
  BY <1>0 DEF ExtendedByAll
<1>2. v.len \in Nat /\ Len(bs) \in Nat
  BY DEF Vectors
<1> DEFINE Ok(m) ==
      /\ a[m].len = v.len + 8 * m /\ a[m].packing = v.packing
      /\ \A k \in Nat : k < v.len => Get(a[m], k) = Get(v, k)
      /\ \A j \in 1..m, i \in 0..7 : Get(a[m], v.len + 8 * (j - 1) + i) = Bit(bs[j], Shift(order, i))
           S == {m \in 0..Len(bs) : Ok(m)}
<1>3. 0 \in S
  <2>1. Ok(0)
    BY <1>1, <1>2
  <2> HIDE DEF Ok
  <2> QED
    BY <1>2, <2>1
<1>4. ASSUME NEW m \in 1..Len(bs), m - 1 \in S PROVE m \in S
  <2>1. Ok(m - 1)
    BY <1>4
  <2>0. bs[m] \in Byte
    OBVIOUS
  <2>2. a[m - 1] \in Vectors /\ a[m] = Extend(a[m - 1], bs[m], 8, order) /\ bs[m] \in Nat /\ 8 \in 0..8
    <3>1. m - 1 \in 0..Len(bs) /\ 8 \in 0..8
      BY <1>2
    <3> QED
      BY <1>1, <2>0, <3>1, ByteNat
  <2>3. /\ a[m].len = a[m - 1].len + 8 /\ a[m].packing = a[m - 1].packing
        /\ \A k \in Nat : Get(a[m], k) =
             IF k \in a[m - 1].len..(a[m - 1].len + 8 - 1) THEN Bit(bs[m], Shift(order, k - a[m - 1].len))
             ELSE Get(a[m - 1], k)
    <3>1. Extended(Extend(a[m - 1], bs[m], 8, order), a[m - 1], bs[m], 8, order)
      BY <2>2, ExtendVector
    <3>2. Extended(a[m], a[m - 1], bs[m], 8, order)
      BY <2>2, <3>1
    <3> QED
      BY <3>2 DEF Extended
  <2>4. a[m - 1].len = v.len + 8 * (m - 1)
    BY <2>1
  <2>5. a[m].len = v.len + 8 * m /\ a[m].packing = v.packing
    BY <1>2, <2>1, <2>3, <2>4
  <2>6. ASSUME NEW k \in Nat, k < v.len PROVE Get(a[m], k) = Get(v, k)
    <3>1. ~(k \in a[m - 1].len..(a[m - 1].len + 8 - 1))
      BY <1>2, <2>4, <2>6
    <3> QED
      BY <2>1, <2>3, <2>6, <3>1
  <2>7. ASSUME NEW j \in 1..m, NEW i \in 0..7
        PROVE  Get(a[m], v.len + 8 * (j - 1) + i) = Bit(bs[j], Shift(order, i))
    <3> DEFINE k == v.len + 8 * (j - 1) + i
    <3>0. k \in Nat
      BY <1>2
    <3>1. CASE j = m
      <4>1. k \in a[m - 1].len..(a[m - 1].len + 8 - 1) /\ k - a[m - 1].len = i
        BY <1>2, <2>4, <3>1
      <4> HIDE DEF k
      <4>2. Get(a[m], k) = Bit(bs[m], Shift(order, i))
        BY <2>3, <3>0, <4>1
      <4> QED
        BY <3>1, <4>2 DEF k
    <3>2. CASE j # m
      <4>1. ~(k \in a[m - 1].len..(a[m - 1].len + 8 - 1)) /\ j \in 1..(m - 1)
        BY <1>2, <2>4, <3>2
      <4>2. Get(a[m - 1], k) = Bit(bs[j], Shift(order, i))
        BY <2>1, <4>1
      <4> HIDE DEF k
      <4>3. Get(a[m], k) = Get(a[m - 1], k)
        BY <2>3, <3>0, <4>1
      <4> QED
        BY <4>2, <4>3 DEF k
    <3> QED
      BY <3>1, <3>2
  <2>8. Ok(m)
    BY <2>5, <2>6, <2>7
  <2> HIDE DEF Ok
  <2> QED
    BY <1>2, <2>8
<1>5. \A m \in 0..Len(bs) : m \in S
  <2> HIDE DEF S
  <2> QED
    BY <1>2, <1>3, <1>4, InductTo
<1>6. Ok(Len(bs))
  <2> HIDE DEF Ok
  <2> QED
    BY <1>2, <1>5
<1>7. a[Len(bs)] \in Vectors
  BY <1>1, <1>2
<1> QED
  BY <1>1, <1>6, <1>7, Zenon

\* Take returns the bytes that ExtendAll added, for both orders and packings.
LEMMA TakeAfterExtend ==
  ASSUME NEW bs \in Seq(Byte), NEW packing \in Orders, NEW order \in Orders, NEW j \in 1..Len(bs)
  PROVE  Take(ExtendAll(NewVector(packing), bs, order), 8 * (j - 1), 8, order) = bs[j]
<1> DEFINE u == ExtendAll(NewVector(packing), bs, order)
<1>1. NewVector(packing) \in Vectors /\ NewVector(packing).len = 0
  BY EmptyVector DEF NewVector
<1>2. /\ u \in Vectors
      /\ \A i \in 0..7 : Get(u, 0 + 8 * (j - 1) + i) = Bit(bs[j], Shift(order, i))
  BY <1>1, ExtendAllVector
<1>3. Readable(u) /\ 8 * (j - 1) \in Nat /\ bs[j] \in Byte
  <2>1. Len(bs) \in Nat
    OBVIOUS
  <2> HIDE DEF u
  <2> QED
    BY <1>2, <2>1, ReadableVectors
<1>4. \A i \in 0..7 : Get(u, 8 * (j - 1) + i) = Bit(bs[j], Shift(order, i))
  <2>1. \A i \in 0..7 : 0 + 8 * (j - 1) + i = 8 * (j - 1) + i
    BY <1>3
  <2> HIDE DEF u
  <2> QED
    BY <1>2, <2>1
<1> HIDE DEF u
<1>5. Take(u, 8 * (j - 1), 8, order) = bs[j]
  BY <1>3, <1>4, TakeByte
<1> QED
  BY <1>5 DEF u

-----------------------------------------------------------------------------
(* What Encode writes.                                                     *)

\* The function that PutUvarint is, up to n.
Varints(g, n) ==
  /\ DOMAIN g = 0..n
  /\ \A x \in 0..n : g[x] = IF x < 128 THEN <<x>> ELSE <<128 + (x % 128)>> \o g[x \div 128]

\* Such a function exists for every bound.
LEMMA VarintsExist ==
  ASSUME NEW n \in Nat
  PROVE  \E g : Varints(g, n)
<1> DEFINE S == {k \in Nat : \E g : Varints(g, k)}
<1>1. 0 \in S
  <2> DEFINE g == [x \in 0..0 |-> <<x>>]
  <2>1. Varints(g, 0)
    BY DEF Varints
  <2> HIDE DEF g
  <2> QED
    BY <2>1
<1>2. ASSUME NEW k \in Nat, k \in S PROVE k + 1 \in S
  <2>1. PICK g : Varints(g, k)
    BY <1>2
  <2> DEFINE f == [x \in 0..(k + 1) |->
                     IF x < 128 THEN <<x>> ELSE <<128 + (x % 128)>> \o g[x \div 128]]
  <2>2. \A x \in 0..k : f[x] = g[x]
    BY <2>1 DEF Varints
  <2>3. \A x \in 0..(k + 1) : x >= 128 => x \div 128 \in 0..k
    OBVIOUS
  <2>4. \A x \in 0..(k + 1) : f[x] = IF x < 128 THEN <<x>> ELSE <<128 + (x % 128)>> \o f[x \div 128]
    <3> SUFFICES ASSUME NEW x \in 0..(k + 1)
                 PROVE  f[x] = IF x < 128 THEN <<x>> ELSE <<128 + (x % 128)>> \o f[x \div 128]
      OBVIOUS
    <3>1. f[x] = IF x < 128 THEN <<x>> ELSE <<128 + (x % 128)>> \o g[x \div 128]
      OBVIOUS
    <3>2. ~(x < 128) => x \div 128 \in 0..k
      BY <2>3
    <3> HIDE DEF f
    <3> QED
      BY <2>2, <3>1, <3>2
  <2>5. Varints(f, k + 1)
    <3>1. DOMAIN f = 0..(k + 1)
      OBVIOUS
    <3> HIDE DEF f
    <3> QED
      BY <2>4, <3>1 DEF Varints
  <2> HIDE DEF f
  <2> QED
    BY <2>5
<1>3. \A k \in Nat : k \in S
  <2> HIDE DEF S
  <2> QED
    BY <1>1, <1>2, Induct
<1> QED
  BY <1>3

\* There is only one, so the bound does not matter.
LEMMA VarintsAgree ==
  ASSUME NEW n \in Nat, NEW m \in Nat, NEW g, NEW f, Varints(g, n), Varints(f, m),
         NEW x \in Nat, x <= n, x <= m
  PROVE  g[x] = f[x]
<1> DEFINE T == {y \in 0..n : y <= m /\ g[y] # f[y]}
<1> SUFFICES ASSUME T # {} PROVE FALSE
  OBVIOUS
<1>1. PICK y \in T : \A z \in T : y <= z
  <2>1. T \in SUBSET Nat
    OBVIOUS
  <2> HIDE DEF T
  <2> QED
    BY <2>1, Least
<1>2. /\ g[y] = IF y < 128 THEN <<y>> ELSE <<128 + (y % 128)>> \o g[y \div 128]
      /\ f[y] = IF y < 128 THEN <<y>> ELSE <<128 + (y % 128)>> \o f[y \div 128]
  <2>1. y \in 0..n /\ y \in 0..m
    OBVIOUS
  <2> HIDE DEF T
  <2> QED
    BY <2>1 DEF Varints
<1>3. ~(y < 128)
  BY <1>2
<1>4. y \div 128 \in 0..n /\ y \div 128 <= m /\ y \div 128 < y
  BY <1>3
<1>5. y \div 128 \notin T
  BY <1>1, <1>4
<1> QED
  BY <1>2, <1>4, <1>5

\* PutUvarint is the function that its definition describes.
LEMMA PutUvarintDef ==
  \A x \in Nat : PutUvarint[x] =
    IF x < 128 THEN <<x>> ELSE <<128 + (x % 128)>> \o PutUvarint[x \div 128]
<1> DEFINE Body(f) == [x \in Nat |-> IF x < 128 THEN <<x>> ELSE <<128 + (x % 128)>> \o f[x \div 128]]
           G(n) == CHOOSE g : Varints(g, n)
           h == [x \in Nat |-> G(x)[x]]
<1>1. \A n \in Nat : Varints(G(n), n)
  BY VarintsExist
<1>2. ASSUME NEW x \in Nat
      PROVE  h[x] = IF x < 128 THEN <<x>> ELSE <<128 + (x % 128)>> \o h[x \div 128]
  <2> HIDE DEF G
  <2>1. x \in 0..x /\ h[x] = G(x)[x]
    OBVIOUS
  <2>2. h[x] = IF x < 128 THEN <<x>> ELSE <<128 + (x % 128)>> \o G(x)[x \div 128]
    BY <1>1, <2>1 DEF Varints
  <2>3. x \div 128 \in Nat /\ x \div 128 <= x
    OBVIOUS
  <2>4. G(x)[x \div 128] = G(x \div 128)[x \div 128]
    BY <1>1, <2>3, VarintsAgree
  <2>5. h[x \div 128] = G(x \div 128)[x \div 128]
    BY <2>3
  <2> QED
    BY <2>2, <2>4, <2>5
<1>3. h = Body(h)
  <2> HIDE DEF G
  <2>1. \A x \in Nat : h[x] = Body(h)[x]
    <3> HIDE DEF h
    <3> QED
      BY <1>2
  <2> QED
    BY <2>1
<1>4. PutUvarint = CHOOSE f : f = Body(f)
  BY DEF PutUvarint
<1>5. PutUvarint = Body(PutUvarint)
  <2> HIDE DEF Body, h
  <2> QED
    BY <1>3, <1>4
<1> QED
  BY <1>5

\* A varint is a slice of bytes (binary.PutUvarint).
LEMMA PutUvarintIn == \A x \in Nat : PutUvarint[x] \in Seq(Byte)
<1> DEFINE T == {x \in Nat : PutUvarint[x] \notin Seq(Byte)}
<1> SUFFICES ASSUME T # {} PROVE FALSE
  OBVIOUS
<1>1. PICK x \in T : \A y \in T : x <= y
  <2>1. T \in SUBSET Nat
    OBVIOUS
  <2> HIDE DEF T
  <2> QED
    BY <2>1, Least
<1>2. PutUvarint[x] = IF x < 128 THEN <<x>> ELSE <<128 + (x % 128)>> \o PutUvarint[x \div 128]
  BY PutUvarintDef
<1>3. CASE x < 128
  <2>1. x \in Byte
    BY <1>3 DEF Byte
  <2>2. <<x>> \in Seq(Byte)
    BY <2>1
  <2> QED
    BY <1>2, <1>3, <2>2
<1>4. CASE ~(x < 128)
  <2>1. x \div 128 \in Nat /\ x \div 128 < x /\ 128 + (x % 128) \in Byte
    BY <1>4 DEF Byte
  <2>2. PutUvarint[x \div 128] \in Seq(Byte)
    BY <1>1, <2>1
  <2>3. <<128 + (x % 128)>> \in Seq(Byte)
    BY <2>1
  <2>4. <<128 + (x % 128)>> \o PutUvarint[x \div 128] \in Seq(Byte)
    BY <2>2, <2>3, ConcatProperties
  <2> QED
    BY <1>2, <1>4, <2>4
<1> QED
  BY <1>3, <1>4

\* A sequence with a number put into it.
LEMMA InsertAtIn ==
  ASSUME NEW t \in Seq(Nat), NEW x \in Nat, NEW c \in 0..Len(t)
  PROVE  InsertAt(t, c + 1, x) \in Seq(Nat) /\ Len(InsertAt(t, c + 1, x)) = Len(t) + 1
<1>1. (c + 1) - 1 = c /\ Len(t) \in Nat
  OBVIOUS
<1>2. InsertAt(t, c + 1, x) = (SubSeq(t, 1, (c + 1) - 1) \o <<x>>) \o SubSeq(t, c + 1, Len(t))
  BY Zenon DEF InsertAt
<1>3. /\ SubSeq(t, 1, c) \in Seq(Nat) /\ Len(SubSeq(t, 1, c)) = c
      /\ SubSeq(t, c + 1, Len(t)) \in Seq(Nat) /\ Len(SubSeq(t, c + 1, Len(t))) = Len(t) - c
  BY <1>1
<1>4. <<x>> \in Seq(Nat) /\ Len(<<x>>) = 1
  OBVIOUS
<1> DEFINE w == SubSeq(t, 1, c) \o <<x>>
           y == SubSeq(t, c + 1, Len(t))
<1>5. w \in Seq(Nat) /\ Len(w) = c + 1 /\ y \in Seq(Nat) /\ Len(y) = Len(t) - c
  BY <1>3, <1>4, ConcatProperties
<1> HIDE DEF w, y
<1>6. w \o y \in Seq(Nat) /\ Len(w \o y) = (c + 1) + (Len(t) - c)
  BY <1>5, ConcatProperties
<1>7. (c + 1) + (Len(t) - c) = Len(t) + 1
  BY <1>1
<1> QED
  BY <1>1, <1>2, <1>6, <1>7 DEF w, y

\* Insert puts its number somewhere into the sequence.
LEMMA InsertIn ==
  ASSUME NEW t \in Seq(Nat), NEW x \in Nat
  PROVE  Insert(t, x) \in Seq(Nat) /\ Len(Insert(t, x)) = Len(t) + 1
<1> DEFINE c == Cardinality({i \in 1..Len(t) : t[i] <= x})
<1>1. c \in 0..Len(t)
  <2>1. {i \in 1..Len(t) : t[i] <= x} \in SUBSET (1..Len(t)) /\ Len(t) \in Nat
    OBVIOUS
  <2>2. IsFiniteSet(1..Len(t)) /\ Cardinality(1..Len(t)) = Len(t)
    <3>1. IsFiniteSet(1..Len(t)) /\ Cardinality(1..Len(t)) = IF 1 > Len(t) THEN 0 ELSE Len(t) - 1 + 1
      BY <2>1, FS_Interval
    <3> QED
      BY <2>1, <3>1
  <2>3. c \in Nat /\ c <= Len(t)
    <3>1. IsFiniteSet({i \in 1..Len(t) : t[i] <= x}) /\ c <= Cardinality(1..Len(t))
      BY <2>1, <2>2, FS_Subset
    <3> QED
      BY <2>2, <3>1, FS_CardinalityType
  <2> HIDE DEF c
  <2> QED
    BY <2>1, <2>3
<1>2. Insert(t, x) = InsertAt(t, c + 1, x)
  BY Zenon DEF Insert
<1> HIDE DEF c
<1> QED
  BY <1>1, <1>2, InsertAtIn

\* The sequences that Sort goes through.
SortedBy(a, s) ==
  /\ a \in [0..Len(s) -> Seq(Nat)] /\ a[0] = <<>>
  /\ \A k \in 1..Len(s) : a[k] = Insert(a[k - 1], s[k])
  /\ Sort(s) = a[Len(s)]

\* Sort is defined by its steps.
LEMMA SortSteps ==
  ASSUME NEW s \in Seq(Nat)
  PROVE  \E a : SortedBy(a, s)
<1> DEFINE q == s
           Body(f) == [z \in SUBSET DOMAIN q |->
                         IF z = {} THEN <<>> ELSE Insert(f[z \ {Max(z)}], q[Max(z)])]
           iter == CHOOSE f : f = Body(f)
           F == [p \in (1..Len(s)) \X Seq(Nat) |-> Insert(p[2], q[p[1]])]
<1>1. Sort(s) = iter[DOMAIN q]
  BY Zenon DEF Sort, FoldLeft, MapThenFoldSet
<1>2. Len(s) \in Nat /\ DOMAIN q = 1..Len(s) /\ <<>> \in Seq(Nat) /\ \A k \in 1..Len(s) : q[k] = s[k]
  OBVIOUS
<1>3. ASSUME NEW k \in 1..Len(s), NEW d \in Seq(Nat) PROVE Insert(d, q[k]) \in Seq(Nat)
  <2>1. q[k] \in Nat
    OBVIOUS
  <2> HIDE DEF q
  <2> QED
    BY <2>1, InsertIn
<1>4. \E f : f = Body(f)
  <2> HIDE DEF q
  <2>1. F \in StepsIn(Len(s), Seq(Nat))
    BY <1>3 DEF StepsIn
  <2>2. PICK g : Folded(g, Len(s), Seq(Nat), <<>>, F)
    <3> HIDE DEF F
    <3> QED
      BY <1>2, <2>1, FoldExists
  <2>3. ASSUME NEW z \in SUBSET (1..Len(s)), z # {}
        PROVE  g[z] = Insert(g[z \ {Max(z)}], q[Max(z)])
    <3>1. Max(z) \in 1..Len(s) /\ z \ {Max(z)} \in SUBSET (1..Len(s))
      BY <1>2, <2>3, MaxIn
    <3>2. g[z] = F[<<Max(z), g[z \ {Max(z)}]>>] /\ g[z \ {Max(z)}] \in Seq(Nat)
      BY <2>2, <2>3, <3>1 DEF Folded
    <3> QED
      BY <3>1, <3>2
  <2>4. g = Body(g)
    BY <1>2, <2>2, <2>3 DEF Folded
  <2> QED
    BY <2>4
<1>5. iter = Body(iter)
  <2> HIDE DEF Body
  <2> QED
    BY <1>4
<1>6. iter[1..0] = <<>> /\ \A k \in 1..Len(s) : iter[1..k] = Insert(iter[1..(k - 1)], q[k])
  <2> HIDE DEF q, iter
  <2>1. \A z \in SUBSET (1..Len(s)) : iter[z] = IF z = {} THEN <<>> ELSE Insert(iter[z \ {Max(z)}], q[Max(z)])
    BY <1>2, <1>5
  <2>2. /\ 1..0 = {} /\ 1..0 \in SUBSET (1..Len(s))
        /\ \A k \in 1..Len(s) : /\ 1..k \in SUBSET (1..Len(s)) /\ 1..k # {}
                               /\ Max(1..k) = k /\ (1..k) \ {Max(1..k)} = 1..(k - 1)
    BY <1>2, UpToFacts
  <2> HIDE DEF Body
  <2> QED
    BY <2>1, <2>2
<1> DEFINE a == [k \in 0..Len(s) |-> iter[1..k]]
<1>7. a[0] = <<>> /\ (\A k \in 1..Len(s) : a[k] = Insert(a[k - 1], s[k])) /\ a[Len(s)] = iter[DOMAIN q]
  <2> HIDE DEF iter, q
  <2> QED
    BY <1>2, <1>6
<1>8. a \in [0..Len(s) -> Seq(Nat)]
  <2> DEFINE S == {k \in 0..Len(s) : a[k] \in Seq(Nat)}
  <2> HIDE DEF a, q
  <2>1. 0 \in S
    <3>1. a[0] = <<>> /\ <<>> \in Seq(Nat) /\ 0 \in 0..Len(s)
      BY <1>2, <1>7
    <3>2. a[0] \in Seq(Nat) /\ 0 \in 0..Len(s)
      BY <3>1, Zenon
    <3> QED
      BY <3>2
  <2>2. ASSUME NEW k \in 1..Len(s), k - 1 \in S PROVE k \in S
    <3>1. a[k] = Insert(a[k - 1], q[k]) /\ a[k - 1] \in Seq(Nat) /\ k \in 0..Len(s)
      BY <1>2, <1>7, <2>2
    <3> QED
      BY <1>3, <3>1
  <2>3. \A k \in 0..Len(s) : k \in S
    <3> HIDE DEF S
    <3> QED
      BY <1>2, <2>1, <2>2, InductTo
  <2>4. \A k \in 0..Len(s) : a[k] \in Seq(Nat)
    BY <2>3
  <2> QED
    BY <2>4 DEF a
<1> QED
  <2> HIDE DEF a, iter, q
  <2> QED
    BY <1>1, <1>7, <1>8 DEF SortedBy

\* What Sort returns has as many numbers as its argument, or at least one.
LEMMA SortIn ==
  ASSUME NEW s \in Seq(Nat)
  PROVE  Sort(s) \in Seq(Nat) /\ (s # <<>> => Sort(s) # <<>>)
<1>1. PICK a : SortedBy(a, s)
  BY SortSteps
<1>2. /\ a \in [0..Len(s) -> Seq(Nat)] /\ Sort(s) = a[Len(s)] /\ Len(s) \in Nat
      /\ \A k \in 1..Len(s) : a[k] = Insert(a[k - 1], s[k])
  BY <1>1 DEF SortedBy
<1>3. ASSUME s # <<>> PROVE Sort(s) # <<>>
  <2>1. Len(s) \in 1..Len(s) /\ Len(s) - 1 \in 0..Len(s)
    BY <1>2, <1>3
  <2>2. Sort(s) = Insert(a[Len(s) - 1], s[Len(s)]) /\ a[Len(s) - 1] \in Seq(Nat) /\ s[Len(s)] \in Nat
    BY <1>2, <2>1
  <2>3. Len(Insert(a[Len(s) - 1], s[Len(s)])) = Len(a[Len(s) - 1]) + 1
    BY <2>2, InsertIn
  <2>4. Len(Sort(s)) # 0
    BY <2>2, <2>3, LenProperties
  <2> QED
    BY <2>4
<1>4. Len(s) \in 0..Len(s)
  BY <1>2
<1> QED
  BY <1>2, <1>3, <1>4

\* The state of the loop of RunLengths: there is always a last run.
RunStates == {r \in [prev : Nat, runs : Seq(Nat)] : Len(r.runs) >= 1}

\* A number keeps that, whether it is a neighbour, behind a gap or repeated.
LEMMA NextRunIn ==
  ASSUME NEW r \in RunStates, NEW cur \in Nat
  PROVE  NextRun(r, cur) \in RunStates
<1>1. r.prev \in Nat /\ r.runs \in Seq(Nat) /\ Len(r.runs) \in Nat /\ Len(r.runs) >= 1
  BY DEF RunStates
<1> DEFINE n == Len(r.runs)
           delta == cur - r.prev
           runs == IF delta = 1 THEN [r.runs EXCEPT ![n] = @ + 1]
                   ELSE IF delta > 1 THEN r.runs \o <<delta - 1, 1>> ELSE r.runs
<1>2. NextRun(r, cur) = [prev |-> cur, runs |-> runs]
  BY DEF NextRun
<1>3. runs \in Seq(Nat) /\ Len(runs) >= 1
  <2>1. CASE delta = 1
    <3>1. runs = [r.runs EXCEPT ![n] = r.runs[n] + 1] /\ n \in 1..Len(r.runs) /\ r.runs[n] + 1 \in Nat
      BY <1>1, <2>1
    <3> HIDE DEF runs
    <3>2. runs \in Seq(Nat) /\ Len(runs) = Len(r.runs)
      BY <1>1, <3>1, ExceptSeq
    <3> QED
      BY <1>1, <3>2
  <2>2. CASE delta # 1 /\ delta > 1
    <3>1. runs = r.runs \o <<delta - 1, 1>>
      BY <2>2
    <3>2. <<delta - 1, 1>> \in Seq(Nat) /\ Len(<<delta - 1, 1>>) = 2
      <4>1. delta - 1 \in Nat
        BY <1>1, <2>2
      <4> QED
        BY <4>1
    <3> HIDE DEF runs, delta
    <3>3. r.runs \o <<delta - 1, 1>> \in Seq(Nat) /\ Len(r.runs \o <<delta - 1, 1>>) = Len(r.runs) + 2
      BY <1>1, <3>2, ConcatProperties
    <3> QED
      BY <1>1, <3>1, <3>3
  <2>3. CASE delta # 1 /\ ~(delta > 1)
    BY <1>1, <2>3
  <2> QED
    BY <2>1, <2>2, <2>3
<1> HIDE DEF runs
<1> QED
  BY <1>2, <1>3 DEF RunStates

\* The states that the loop of RunLengths goes through.
RunsBy(a, r, s) ==
  /\ a \in [0..Len(s) -> RunStates] /\ a[0] = r
  /\ \A k \in 1..Len(s) : a[k] = NextRun(a[k - 1], s[k])
  /\ NextRuns(r, s) = a[Len(s)]

\* The loop of RunLengths is defined by its steps.
LEMMA NextRunsSteps ==
  ASSUME NEW r \in RunStates, NEW s \in Seq(Nat)
  PROVE  \E a : RunsBy(a, r, s)
<1> DEFINE q == s
           Body(f) == [z \in SUBSET DOMAIN q |->
                         IF z = {} THEN r ELSE NextRun(f[z \ {Max(z)}], q[Max(z)])]
           iter == CHOOSE f : f = Body(f)
           F == [p \in (1..Len(s)) \X RunStates |-> NextRun(p[2], q[p[1]])]
<1>1. NextRuns(r, s) = iter[DOMAIN q]
  BY Zenon DEF NextRuns, FoldLeft, MapThenFoldSet
<1>2. Len(s) \in Nat /\ DOMAIN q = 1..Len(s) /\ r \in RunStates /\ \A k \in 1..Len(s) : q[k] = s[k]
  OBVIOUS
<1>3. ASSUME NEW k \in 1..Len(s), NEW d \in RunStates PROVE NextRun(d, q[k]) \in RunStates
  <2>1. q[k] \in Nat
    OBVIOUS
  <2> HIDE DEF q
  <2> QED
    BY <2>1, NextRunIn
<1>4. \E f : f = Body(f)
  <2> HIDE DEF q
  <2>1. F \in StepsIn(Len(s), RunStates)
    BY <1>3 DEF StepsIn
  <2>2. PICK g : Folded(g, Len(s), RunStates, r, F)
    <3> HIDE DEF F
    <3> QED
      BY <1>2, <2>1, FoldExists
  <2>3. ASSUME NEW z \in SUBSET (1..Len(s)), z # {}
        PROVE  g[z] = NextRun(g[z \ {Max(z)}], q[Max(z)])
    <3>1. Max(z) \in 1..Len(s) /\ z \ {Max(z)} \in SUBSET (1..Len(s))
      BY <1>2, <2>3, MaxIn
    <3>2. g[z] = F[<<Max(z), g[z \ {Max(z)}]>>] /\ g[z \ {Max(z)}] \in RunStates
      BY <2>2, <2>3, <3>1 DEF Folded
    <3> QED
      BY <3>1, <3>2
  <2>4. g = Body(g)
    BY <1>2, <2>2, <2>3 DEF Folded
  <2> QED
    BY <2>4
<1>5. iter = Body(iter)
  <2> HIDE DEF Body
  <2> QED
    BY <1>4
<1>6. iter[1..0] = r /\ \A k \in 1..Len(s) : iter[1..k] = NextRun(iter[1..(k - 1)], q[k])
  <2> HIDE DEF q, iter
  <2>1. \A z \in SUBSET (1..Len(s)) : iter[z] = IF z = {} THEN r ELSE NextRun(iter[z \ {Max(z)}], q[Max(z)])
    BY <1>2, <1>5
  <2>2. /\ 1..0 = {} /\ 1..0 \in SUBSET (1..Len(s))
        /\ \A k \in 1..Len(s) : /\ 1..k \in SUBSET (1..Len(s)) /\ 1..k # {}
                               /\ Max(1..k) = k /\ (1..k) \ {Max(1..k)} = 1..(k - 1)
    BY <1>2, UpToFacts
  <2> HIDE DEF Body
  <2> QED
    BY <2>1, <2>2
<1> DEFINE a == [k \in 0..Len(s) |-> iter[1..k]]
<1>7. a[0] = r /\ (\A k \in 1..Len(s) : a[k] = NextRun(a[k - 1], s[k])) /\ a[Len(s)] = iter[DOMAIN q]
  <2> HIDE DEF iter, q
  <2> QED
    BY <1>2, <1>6
<1>8. a \in [0..Len(s) -> RunStates]
  <2> DEFINE S == {k \in 0..Len(s) : a[k] \in RunStates}
  <2> HIDE DEF a, q
  <2>1. 0 \in S
    <3>1. a[0] = r /\ r \in RunStates /\ 0 \in 0..Len(s)
      BY <1>2, <1>7
    <3>2. a[0] \in RunStates /\ 0 \in 0..Len(s)
      BY <3>1, Zenon
    <3> QED
      BY <3>2
  <2>2. ASSUME NEW k \in 1..Len(s), k - 1 \in S PROVE k \in S
    <3>1. a[k] = NextRun(a[k - 1], q[k]) /\ a[k - 1] \in RunStates /\ k \in 0..Len(s)
      BY <1>2, <1>7, <2>2
    <3> QED
      BY <1>3, <3>1
  <2>3. \A k \in 0..Len(s) : k \in S
    <3> HIDE DEF S
    <3> QED
      BY <1>2, <2>1, <2>2, InductTo
  <2>4. \A k \in 0..Len(s) : a[k] \in RunStates
    BY <2>3
  <2> QED
    BY <2>4 DEF a
<1> QED
  <2> HIDE DEF a, iter, q
  <2> QED
    BY <1>1, <1>7, <1>8 DEF RunsBy

\* RunLengths returns a bit and run lengths (rleplus.go: RunLengths).
LEMMA RunLengthsIn ==
  ASSUME NEW s \in Seq(Nat)
  PROVE  RunLengths(s).runs \in Seq(Nat) /\ RunLengths(s).firstBit \in Bits
<1>1. CASE s = <<>>
  BY <1>1 DEF RunLengths, Bits
<1>2. CASE s # <<>>
  <2> DEFINE sorted == Sort(s)
             first == sorted[1]
             start == IF first = 0 THEN <<1>> ELSE <<first, 1>>
             r == [prev |-> first, runs |-> start]
  <2>1. sorted \in Seq(Nat) /\ sorted # <<>>
    BY <1>2, SortIn
  <2>2. RunLengths(s) = [firstBit |-> IF first = 0 THEN 1 ELSE 0, runs |-> NextRuns(r, Tail(sorted)).runs]
    BY <1>2 DEF RunLengths
  <2> HIDE DEF sorted
  <2>3. first \in Nat /\ Tail(sorted) \in Seq(Nat)
    BY <2>1
  <2> HIDE DEF first
  <2>4. start \in Seq(Nat) /\ Len(start) >= 1
    BY <2>3
  <2>5. r \in RunStates
    <3> HIDE DEF start
    <3> QED
      BY <2>3, <2>4 DEF RunStates
  <2> HIDE DEF r
  <2>6. NextRuns(r, Tail(sorted)) \in RunStates
    <3>1. PICK a : RunsBy(a, r, Tail(sorted))
      BY <2>3, <2>5, NextRunsSteps
    <3>2. Len(Tail(sorted)) \in 0..Len(Tail(sorted))
      BY <2>3
    <3> QED
      BY <3>1, <3>2 DEF RunsBy
  <2> QED
    BY <2>2, <2>6 DEF RunStates, Bits
<1> QED
  BY <1>1, <1>2

\* Every block is written as bits.
LEMMA PushRunIn ==
  ASSUME NEW v \in Vectors, NEW run \in Nat
  PROVE  PushRun(v, run) \in Vectors /\ PushRun(v, run).packing = v.packing
<1>0. 0 \in Bits /\ 1 \in Bits /\ "LSB0" \in Orders /\ 4 \in 0..8
  BY DEF Bits, Orders
<1>1. CASE run = 1
  <2>1. PushRun(v, run) = Push(v, 1)
    BY <1>1 DEF PushRun
  <2> QED
    BY <1>0, <2>1, PushVector
<1>2. CASE run # 1 /\ run < 16
  <2>1. PushRun(v, run) = Extend(Push(Push(v, 0), 1), run, 4, "LSB0")
    BY <1>2 DEF PushRun
  <2>2. Push(Push(v, 0), 1) \in Vectors /\ Push(Push(v, 0), 1).packing = v.packing
    BY <1>0, PushVector
  <2> DEFINE u == Push(Push(v, 0), 1)
  <2> HIDE DEF u
  <2>3. Extend(u, run, 4, "LSB0") \in Vectors /\ Extended(Extend(u, run, 4, "LSB0"), u, run, 4, "LSB0")
    BY <1>0, <2>2, ExtendVector DEF u
  <2> QED
    BY <2>1, <2>2, <2>3 DEF Extended, u
<1>3. CASE run # 1 /\ ~(run < 16)
  <2>1. PushRun(v, run) = ExtendAll(Push(Push(v, 0), 0), PutUvarint[run], "LSB0")
    BY <1>3 DEF PushRun
  <2>2. Push(Push(v, 0), 0) \in Vectors /\ Push(Push(v, 0), 0).packing = v.packing
    BY <1>0, PushVector
  <2> QED
    BY <1>0, <2>1, <2>2, PutUvarintIn, ExtendAllVector
<1> QED
  BY <1>1, <1>2, <1>3

Packed == {v \in Vectors : v.packing = "LSB0"}

\* The vectors that the loop of Encode goes through.
PushedBy(a, v, runs) ==
  /\ a \in [0..Len(runs) -> Packed] /\ a[0] = v
  /\ \A k \in 1..Len(runs) : a[k] = PushRun(a[k - 1], runs[k])
  /\ PushRuns(v, runs) = a[Len(runs)]

\* The loop of Encode is defined by its steps.
LEMMA PushRunsSteps ==
  ASSUME NEW v \in Packed, NEW runs \in Seq(Nat)
  PROVE  \E a : PushedBy(a, v, runs)
<1> DEFINE q == runs
           Body(f) == [s \in SUBSET DOMAIN q |->
                         IF s = {} THEN v ELSE PushRun(f[s \ {Max(s)}], q[Max(s)])]
           iter == CHOOSE f : f = Body(f)
           F == [p \in (1..Len(runs)) \X Packed |-> PushRun(p[2], q[p[1]])]
<1>1. PushRuns(v, runs) = iter[DOMAIN q]
  BY Zenon DEF PushRuns, FoldLeft, MapThenFoldSet
<1>2. Len(runs) \in Nat /\ DOMAIN q = 1..Len(runs) /\ v \in Packed /\ \A k \in 1..Len(runs) : q[k] = runs[k]
  OBVIOUS
<1>3. ASSUME NEW k \in 1..Len(runs), NEW d \in Packed PROVE PushRun(d, q[k]) \in Packed
  <2>1. q[k] \in Nat /\ d \in Vectors /\ d.packing = "LSB0"
    BY DEF Packed
  <2> HIDE DEF q
  <2> QED
    BY <2>1, PushRunIn DEF Packed
<1>4. \E f : f = Body(f)
  <2> HIDE DEF q
  <2>1. F \in StepsIn(Len(runs), Packed)
    BY <1>3 DEF StepsIn
  <2>2. PICK g : Folded(g, Len(runs), Packed, v, F)
    <3> HIDE DEF F
    <3> QED
      BY <1>2, <2>1, FoldExists
  <2>3. ASSUME NEW s \in SUBSET (1..Len(runs)), s # {}
        PROVE  g[s] = PushRun(g[s \ {Max(s)}], q[Max(s)])
    <3>1. Max(s) \in 1..Len(runs) /\ s \ {Max(s)} \in SUBSET (1..Len(runs))
      BY <1>2, <2>3, MaxIn
    <3>2. g[s] = F[<<Max(s), g[s \ {Max(s)}]>>] /\ g[s \ {Max(s)}] \in Packed
      BY <2>2, <2>3, <3>1 DEF Folded
    <3> QED
      BY <3>1, <3>2
  <2>4. g = Body(g)
    BY <1>2, <2>2, <2>3 DEF Folded
  <2> QED
    BY <2>4
<1>5. iter = Body(iter)
  <2> HIDE DEF Body
  <2> QED
    BY <1>4
<1>6. iter[1..0] = v /\ \A k \in 1..Len(runs) : iter[1..k] = PushRun(iter[1..(k - 1)], q[k])
  <2> HIDE DEF q, iter
  <2>1. \A s \in SUBSET (1..Len(runs)) : iter[s] = IF s = {} THEN v ELSE PushRun(iter[s \ {Max(s)}], q[Max(s)])
    BY <1>2, <1>5
  <2>2. /\ 1..0 = {} /\ 1..0 \in SUBSET (1..Len(runs))
        /\ \A k \in 1..Len(runs) : /\ 1..k \in SUBSET (1..Len(runs)) /\ 1..k # {}
                               /\ Max(1..k) = k /\ (1..k) \ {Max(1..k)} = 1..(k - 1)
    BY <1>2, UpToFacts
  <2> HIDE DEF Body
  <2> QED
    BY <2>1, <2>2
<1> DEFINE a == [k \in 0..Len(runs) |-> iter[1..k]]
<1>7. a[0] = v /\ (\A k \in 1..Len(runs) : a[k] = PushRun(a[k - 1], runs[k])) /\ a[Len(runs)] = iter[DOMAIN q]
  <2> HIDE DEF iter, q
  <2> QED
    BY <1>2, <1>6
<1>8. a \in [0..Len(runs) -> Packed]
  <2> DEFINE S == {k \in 0..Len(runs) : a[k] \in Packed}
  <2> HIDE DEF a, q
  <2>1. 0 \in S
    <3>1. a[0] = v /\ v \in Packed /\ 0 \in 0..Len(runs)
      BY <1>2, <1>7
    <3>2. a[0] \in Packed /\ 0 \in 0..Len(runs)
      BY <3>1, Zenon
    <3> QED
      BY <3>2
  <2>2. ASSUME NEW k \in 1..Len(runs), k - 1 \in S PROVE k \in S
    <3>1. a[k] = PushRun(a[k - 1], q[k]) /\ a[k - 1] \in Packed /\ k \in 0..Len(runs)
      BY <1>2, <1>7, <2>2
    <3> QED
      BY <1>3, <3>1
  <2>3. \A k \in 0..Len(runs) : k \in S
    <3> HIDE DEF S
    <3> QED
      BY <1>2, <2>1, <2>2, InductTo
  <2>4. \A k \in 0..Len(runs) : a[k] \in Packed
    BY <2>3
  <2> QED
    BY <2>4 DEF a
<1> QED
  <2> HIDE DEF a, iter, q
  <2> QED
    BY <1>1, <1>7, <1>8 DEF PushedBy

\* Encode makes a vector, packed from the low-order bit, for every slice of
\* integers (rleplus.go: Encode).
LEMMA EncodeIn ==
  ASSUME NEW s \in Seq(Nat)
  PROVE  EncodeInts(s) \in Packed
<1> DEFINE r == RunLengths(s)
           version == Extend(NewVector("LSB0"), Version, 2, "LSB0")
           header == Push(version, r.firstBit)
<1>1. NewVector("LSB0") \in Vectors /\ NewVector("LSB0").packing = "LSB0" /\ "LSB0" \in Orders
  BY EmptyVector DEF NewVector, Orders
<1>2. version \in Vectors /\ version.packing = "LSB0"
  <2>1. 2 \in 0..8 /\ Version \in Nat
    BY DEF Version
  <2>2. version \in Vectors /\ Extended(version, NewVector("LSB0"), Version, 2, "LSB0")
    BY <1>1, <2>1, ExtendVector
  <2> HIDE DEF version
  <2> QED
    BY <1>1, <2>2 DEF Extended
<1>3. r.runs \in Seq(Nat) /\ r.firstBit \in Bits
  BY RunLengthsIn
<1> HIDE DEF r, version
<1>4. header \in Packed
  BY <1>2, <1>3, PushVector DEF Packed
<1> HIDE DEF header
<1>5. PushRuns(header, r.runs) \in Packed
  <2>1. PICK a : PushedBy(a, header, r.runs)
    BY <1>3, <1>4, PushRunsSteps
  <2>2. Len(r.runs) \in 0..Len(r.runs)
    BY <1>3
  <2> QED
    BY <2>1, <2>2 DEF PushedBy
<1> QED
  BY <1>5 DEF EncodeInts, r, version, header

\* The values that Sevens goes through.
SevensBy(a, bs) ==
  /\ a \in [0..Len(bs) -> Nat] /\ a[0] = 0
  /\ \A k \in 1..Len(bs) : a[k] = 128 * a[k - 1] + (bs[k] % 128)
  /\ Sevens(bs) = a[Len(bs)]

\* Sevens is defined by its steps.
LEMMA SevensSteps ==
  ASSUME NEW bs \in Seq(Nat)
  PROVE  \E a : SevensBy(a, bs)
<1> DEFINE q == bs
           Body(f) == [s \in SUBSET DOMAIN q |->
                         IF s = {} THEN 0 ELSE 128 * f[s \ {Max(s)}] + (q[Max(s)] % 128)]
           iter == CHOOSE f : f = Body(f)
           F == [p \in (1..Len(bs)) \X Nat |-> 128 * p[2] + (q[p[1]] % 128)]
<1>1. Sevens(bs) = iter[DOMAIN q]
  BY Zenon DEF Sevens, FoldLeft, MapThenFoldSet
<1>2. Len(bs) \in Nat /\ DOMAIN q = 1..Len(bs) /\ 0 \in Nat /\ \A k \in 1..Len(bs) : q[k] = bs[k]
  OBVIOUS
<1>3. ASSUME NEW k \in 1..Len(bs), NEW d \in Nat PROVE 128 * d + (q[k] % 128) \in Nat
  <2>1. q[k] \in Nat
    OBVIOUS
  <2> HIDE DEF q
  <2> QED
    BY <2>1
<1>4. \E f : f = Body(f)
  <2> HIDE DEF q
  <2>1. F \in StepsIn(Len(bs), Nat)
    BY <1>3 DEF StepsIn
  <2>2. PICK g : Folded(g, Len(bs), Nat, 0, F)
    <3> HIDE DEF F
    <3> QED
      BY <1>2, <2>1, FoldExists
  <2>3. ASSUME NEW s \in SUBSET (1..Len(bs)), s # {}
        PROVE  g[s] = 128 * g[s \ {Max(s)}] + (q[Max(s)] % 128)
    <3>1. Max(s) \in 1..Len(bs) /\ s \ {Max(s)} \in SUBSET (1..Len(bs))
      BY <1>2, <2>3, MaxIn
    <3>2. g[s] = F[<<Max(s), g[s \ {Max(s)}]>>] /\ g[s \ {Max(s)}] \in Nat
      BY <2>2, <2>3, <3>1 DEF Folded
    <3> QED
      BY <3>1, <3>2
  <2>4. g = Body(g)
    BY <1>2, <2>2, <2>3 DEF Folded
  <2> QED
    BY <2>4
<1>5. iter = Body(iter)
  <2> HIDE DEF Body
  <2> QED
    BY <1>4
<1>6. iter[1..0] = 0 /\ \A k \in 1..Len(bs) : iter[1..k] = 128 * iter[1..(k - 1)] + (q[k] % 128)
  <2> HIDE DEF q, iter
  <2>1. \A s \in SUBSET (1..Len(bs)) : iter[s] = IF s = {} THEN 0 ELSE 128 * iter[s \ {Max(s)}] + (q[Max(s)] % 128)
    BY <1>2, <1>5
  <2>2. /\ 1..0 = {} /\ 1..0 \in SUBSET (1..Len(bs))
        /\ \A k \in 1..Len(bs) : /\ 1..k \in SUBSET (1..Len(bs)) /\ 1..k # {}
                               /\ Max(1..k) = k /\ (1..k) \ {Max(1..k)} = 1..(k - 1)
    BY <1>2, UpToFacts
  <2> HIDE DEF Body
  <2> QED
    BY <2>1, <2>2
<1> DEFINE a == [k \in 0..Len(bs) |-> iter[1..k]]
<1>7. a[0] = 0 /\ (\A k \in 1..Len(bs) : a[k] = 128 * a[k - 1] + (bs[k] % 128)) /\ a[Len(bs)] = iter[DOMAIN q]
  <2> HIDE DEF iter, q
  <2> QED
    BY <1>2, <1>6
<1>8. a \in [0..Len(bs) -> Nat]
  <2> DEFINE S == {k \in 0..Len(bs) : a[k] \in Nat}
  <2> HIDE DEF a, q
  <2>1. 0 \in S
    <3>1. a[0] = 0 /\ 0 \in Nat /\ 0 \in 0..Len(bs)
      BY <1>2, <1>7
    <3>2. a[0] \in Nat /\ 0 \in 0..Len(bs)
      BY <3>1, Zenon
    <3> QED
      BY <3>2
  <2>2. ASSUME NEW k \in 1..Len(bs), k - 1 \in S PROVE k \in S
    <3>1. a[k] = 128 * a[k - 1] + (q[k] % 128) /\ a[k - 1] \in Nat /\ k \in 0..Len(bs)
      BY <1>2, <1>7, <2>2
    <3> QED
      BY <1>3, <3>1
  <2>3. \A k \in 0..Len(bs) : k \in S
    <3> HIDE DEF S
    <3> QED
      BY <1>2, <2>1, <2>2, InductTo
  <2>4. \A k \in 0..Len(bs) : a[k] \in Nat
    BY <2>3
  <2> QED
    BY <2>4 DEF a
<1> QED
  <2> HIDE DEF a, iter, q
  <2> QED
    BY <1>1, <1>7, <1>8 DEF SevensBy

\* A varint is a natural number, and zero if its only byte is.
LEMMA UvarintIn ==
  ASSUME NEW bs \in Seq(Nat)
  PROVE  Uvarint(bs) \in Nat /\ (Len(bs) = 1 /\ bs[1] = 0 => Uvarint(bs) = 0)
<1>1. Reverse(bs) \in Seq(Nat) /\ Len(Reverse(bs)) = Len(bs) /\ (Len(bs) = 1 /\ bs[1] = 0 => Reverse(bs)[1] = 0)
  <2>1. Len(bs) \in Nat
    OBVIOUS
  <2>2. ASSUME NEW i \in 1..Len(bs) PROVE bs[(Len(bs) - i) + 1] \in Nat
    <3>1. (Len(bs) - i) + 1 \in 1..Len(bs)
      BY <2>1
    <3> QED
      BY <3>1
  <2>3. Reverse(bs) = [i \in 1..Len(bs) |-> bs[(Len(bs) - i) + 1]]
    BY DEF Reverse
  <2>4. Reverse(bs) \in Seq(Nat) /\ Len(Reverse(bs)) = Len(bs)
    BY <2>1, <2>2, <2>3
  <2>5. ASSUME Len(bs) = 1, bs[1] = 0 PROVE Reverse(bs)[1] = 0
    <3>1. Len(bs) = 1 /\ bs[1] = 0 /\ (1 - 1) + 1 = 1 /\ 1 \in 1..1
      BY <2>5
    <3> QED
      BY <2>3, <3>1
  <2> QED
    BY <2>4, <2>5
<1>2. PICK a : SevensBy(a, Reverse(bs))
  BY <1>1, SevensSteps
<1> DEFINE rs == Reverse(bs)
<1> HIDE DEF rs
<1>3. /\ a \in [0..Len(rs) -> Nat] /\ a[0] = 0 /\ Sevens(rs) = a[Len(rs)]
      /\ \A k \in 1..Len(rs) : a[k] = 128 * a[k - 1] + (rs[k] % 128)
      /\ rs \in Seq(Nat) /\ Len(rs) \in Nat
  BY <1>1, <1>2 DEF SevensBy, rs
<1>4. Sevens(rs) \in Nat
  BY <1>3
<1>5. ASSUME Len(bs) = 1, bs[1] = 0 PROVE Sevens(rs) = 0
  <2>1. Len(rs) = 1 /\ rs[1] = 0
    BY <1>1, <1>5 DEF rs
  <2>2. a[1] = 128 * a[0] + (rs[1] % 128)
    BY <1>3, <2>1
  <2> QED
    BY <1>3, <2>1, <2>2
<1> QED
  BY <1>4, <1>5 DEF Uvarint, rs

-----------------------------------------------------------------------------
(* Decode, step by step.                                                   *)

\* Types of the state.
Phases == {"encode", "header", "block", "varint", "done", "wrong version", "error"}
StateIn ==
  /\ raw \in BOOLEAN /\ ints \in Seq(Nat) /\ buf \in Seq(Byte) /\ len \in Nat
  /\ phase \in Phases /\ cursor \in Nat /\ curIdx \in 0..(Word - 1) /\ curBit \in Bits
  /\ varint \in Seq(Nat) /\ out \in Seq(0..(Word - 1)) /\ overflow \in BOOLEAN

\* Nothing is read before the header; behind the end there are zeroes, which
\* are one long block, whose varint is zero. Every byte of a varint before the
\* last one has its highest bit set, so that it begins in front of the end.
ReadInv ==
  /\ phase \in {"encode", "header"} => cursor = 0
  /\ phase = "block" => cursor <= 8 * Len(buf) + 8
  /\ phase = "varint" => cursor <= 8 * Len(buf) + IF Len(varint) = 0 THEN 10 ELSE 0
  /\ cursor <= 8 * Len(buf) + 18

\* The numbers so far are below the index of the next run.
OutInv == ~overflow => Increasing(out) /\ \A j \in 1..Len(out) : out[j] < curIdx

\* Between Encode and Decode the bytes and the length are those of a vector.
EncodedInv ==
  ~raw /\ phase = "header" => [buf |-> buf, len |-> len, packing |-> "LSB0"] \in Vectors

RleInv == StateIn /\ ReadInv /\ OutInv /\ EncodedInv

\* What Decode sees at its cursor.
LEMMA PeekIn ==
  ASSUME StateIn, NEW off \in Nat
  PROVE  /\ \A n \in 0..8 : Peek(off, n) \in Nat /\ (cursor + off >= 8 * Len(buf) => Peek(off, n) = 0)
         /\ Peek(off, 1) \in Bits
         /\ Peek(off, 8) >= 128 => cursor + off + 7 < 8 * Len(buf)
<1> DEFINE v == NewBitVector(buf, "LSB0")
<1>1. Readable(v) /\ v.len = 8 * Len(buf) /\ "LSB0" \in Orders /\ cursor + off \in Nat
  <2>1. "LSB0" \in Orders /\ buf \in Seq(Byte) /\ cursor + off \in Nat
    BY DEF StateIn, Orders
  <2>2. v.len = 8 * Len(buf)
    BY DEF NewBitVector
  <2> HIDE DEF v
  <2>3. Readable(v)
    BY <2>1, ReadableVectors DEF v
  <2> QED
    BY <2>1, <2>2, <2>3
<1>2. \A n : Peek(off, n) = Take(v, cursor + off, n, "LSB0")
  BY DEF Peek
<1> HIDE DEF v
<1>3. ASSUME NEW n \in 0..8
      PROVE  Peek(off, n) \in Nat /\ (cursor + off >= 8 * Len(buf) => Peek(off, n) = 0)
  <2>1. /\ Take(v, cursor + off, n, "LSB0") \in Nat
        /\ cursor + off >= v.len => Take(v, cursor + off, n, "LSB0") = 0
    BY <1>1, TakeIn
  <2> QED
    BY <1>1, <1>2, <2>1
<1>4. Peek(off, 1) \in Bits
  <2>1. Take(v, cursor + off, 1, "LSB0") = Get(v, cursor + off)
    BY <1>1, TakeOne
  <2>2. Get(v, cursor + off) \in Bits
    BY <1>1, GetIn
  <2> QED
    BY <1>2, <2>1, <2>2
<1>5. ASSUME Peek(off, 8) >= 128 PROVE cursor + off + 7 < 8 * Len(buf)
  <2>1. Take(v, cursor + off, 8, "LSB0") >= 128
    BY <1>2, <1>5
  <2>2. (cursor + off) + 7 < v.len
    BY <1>1, <2>1, TakeHigh
  <2>3. cursor \in Nat
    BY DEF StateIn
  <2> QED
    BY <1>1, <2>2, <2>3
<1> QED
  BY <1>3, <1>4, <1>5

\* The word is not empty, and the remainder of a division by it is a word.
LEMMA WordIn ==
  /\ Word \in Nat /\ Word >= 1 /\ 0 \in 0..(Word - 1)
  /\ \A x \in Int : x % Word \in 0..(Word - 1)
  /\ \A x \in 0..(Word - 1) : x % Word = x
<1>1. Word \in Nat \ {0}
  BY RleAssumption
<1>2. ASSUME NEW x \in Int PROVE x % Word \in 0..(Word - 1)
  BY <1>1
<1>3. ASSUME NEW x \in 0..(Word - 1) PROVE x % Word = x
  BY <1>1
<1> QED
  BY <1>1, <1>2, <1>3

\* The end of an iteration keeps the types.
LEMMA EmitIn ==
  ASSUME StateIn, NEW n \in Int, Emit(n)
  PROVE  /\ out' \in Seq(0..(Word - 1)) /\ curIdx' \in 0..(Word - 1) /\ curBit' \in Bits
         /\ overflow' \in BOOLEAN
<1>1. curIdx \in 0..(Word - 1) /\ curIdx \in Int /\ curBit \in {0, 1} /\ out \in Seq(0..(Word - 1))
      /\ overflow \in BOOLEAN
  BY DEF StateIn, Bits
<1>2. \A x \in Int : x % Word \in 0..(Word - 1)
  BY WordIn
<1>3. curIdx' \in 0..(Word - 1)
  <2>1. curIdx + n \in Int
    BY <1>1
  <2> QED
    BY <1>2, <2>1 DEF Emit
<1>4. curBit' \in Bits
  BY <1>1 DEF Emit, Bits
<1>5. overflow' \in BOOLEAN
  BY DEF Emit
<1>6. out' \in Seq(0..(Word - 1))
  <2> DEFINE run == [j \in 1..n |-> (curIdx + j - 1) % Word]
  <2>1. run \in Seq(0..(Word - 1))
    <3>1. ASSUME NEW j \in 1..n PROVE (curIdx + j - 1) % Word \in 0..(Word - 1)
      <4>1. curIdx + j - 1 \in Int
        BY <1>1
      <4> QED
        BY <1>2, <4>1
    <3>2. CASE n \in Nat
      BY <3>1, <3>2
    <3>3. CASE n \notin Nat
      <4>1. 1..n = {} /\ 1..0 = {} /\ 0 \in Nat
        BY <3>3
      <4>2. run = [j \in 1..0 |-> (curIdx + j - 1) % Word]
        BY <4>1
      <4> QED
        BY <4>1, <4>2
    <3> QED
      BY <3>2, <3>3
  <2>2. out' = IF curBit = 1 THEN out \o run ELSE out
    BY DEF Emit
  <2> HIDE DEF run
  <2>3. out \o run \in Seq(0..(Word - 1))
    BY <1>1, <2>1, ConcatProperties
  <2> QED
    BY <1>1, <2>2, <2>3
<1> QED
  BY <1>3, <1>4, <1>5, <1>6

\* A run that does not overflow continues the increasing numbers.
LEMMA EmitOut ==
  ASSUME StateIn, OutInv, NEW n \in Int, Emit(n)
  PROVE  OutInv'
<1> SUFFICES ASSUME ~overflow'
             PROVE  Increasing(out') /\ \A j \in 1..Len(out') : out'[j] < curIdx'
  BY DEF OutInv
<1>1. ~overflow /\ ~(n < 0) /\ ~(curIdx + n >= Word)
  BY DEF Emit
<1>2. curIdx \in 0..(Word - 1) /\ out \in Seq(0..(Word - 1)) /\ Word \in Nat
  BY WordIn DEF StateIn
<1>3. n \in Nat /\ curIdx + n \in 0..(Word - 1)
  BY <1>1, <1>2
<1>4. curIdx' = curIdx + n
  BY <1>3, WordIn DEF Emit
<1>5. Increasing(out) /\ (\A j \in 1..Len(out) : out[j] < curIdx) /\ Len(out) \in Nat
      /\ \A j \in 1..Len(out) : out[j] \in Int
  BY <1>1, <1>2 DEF OutInv
<1>6. CASE curBit # 1
  <2>1. out' = out
    BY <1>6 DEF Emit
  <2>2. \A j \in 1..Len(out) : out[j] < curIdx + n
    BY <1>2, <1>3, <1>5
  <2> QED
    BY <1>4, <1>5, <2>1, <2>2 DEF Increasing
<1>7. CASE curBit = 1
  <2> DEFINE run == [j \in 1..n |-> (curIdx + j - 1) % Word]
             w == out \o run
  <2>1. run \in Seq(Int) /\ Len(run) = n /\ \A j \in 1..n : run[j] = curIdx + j - 1
    <3>1. ASSUME NEW j \in 1..n PROVE (curIdx + j - 1) % Word = curIdx + j - 1
      <4>1. curIdx + j - 1 \in 0..(Word - 1)
        BY <1>2, <1>3
      <4> QED
        BY <4>1, WordIn
    <3>2. \A j \in 1..n : (curIdx + j - 1) \in Int
      BY <1>2
    <3> QED
      BY <1>3, <3>1, <3>2
  <2>2. out' = w
    BY <1>7 DEF Emit
  <2> HIDE DEF run
  <2>3. /\ Len(w) = Len(out) + n
        /\ \A j \in 1..(Len(out) + n) : w[j] = IF j <= Len(out) THEN out[j] ELSE run[j - Len(out)]
    <3>1. out \in Seq(Int)
      BY <1>2, <1>5
    <3> QED
      BY <2>1, <3>1, <1>3, ConcatProperties
  <2> HIDE DEF w
  <2>4. ASSUME NEW j \in 1..Len(w), j > Len(out) PROVE w[j] = curIdx + (j - Len(out)) - 1
    <3>1. j - Len(out) \in 1..n /\ ~(j <= Len(out)) /\ j \in 1..(Len(out) + n)
      BY <1>3, <1>5, <2>3, <2>4
    <3> QED
      BY <2>1, <2>3, <3>1
  <2>5. ASSUME NEW j \in 1..Len(w), j <= Len(out) PROVE w[j] = out[j] /\ j \in 1..Len(out)
    BY <1>3, <1>5, <2>3, <2>5
  <2>6. ASSUME NEW j \in 2..Len(w) PROVE w[j - 1] < w[j]
    <3>0. j \in 1..Len(w) /\ j - 1 \in 1..Len(w) /\ j \in Nat
      OBVIOUS
    <3>1. CASE j <= Len(out)
      <4>1. w[j] = out[j] /\ w[j - 1] = out[j - 1] /\ j \in 2..Len(out)
        BY <1>5, <2>5, <3>0, <3>1
      <4> QED
        BY <1>5, <4>1 DEF Increasing
    <3>2. CASE j = Len(out) + 1
      <4>1. w[j] = curIdx /\ w[j - 1] = out[j - 1] /\ j - 1 \in 1..Len(out)
        <5>1. w[j] = curIdx + (j - Len(out)) - 1
          BY <1>5, <2>4, <3>0, <3>2
        <5>2. w[j - 1] = out[j - 1] /\ j - 1 \in 1..Len(out)
          BY <1>5, <2>5, <3>0, <3>2
        <5> QED
          BY <1>2, <1>5, <3>2, <5>1, <5>2
      <4> QED
        BY <1>5, <4>1
    <3>3. CASE j > Len(out) + 1
      <4>1. w[j] = curIdx + (j - Len(out)) - 1 /\ w[j - 1] = curIdx + ((j - 1) - Len(out)) - 1
        BY <1>5, <2>4, <3>0, <3>3
      <4> QED
        BY <1>2, <1>5, <3>0, <4>1
    <3> QED
      BY <1>5, <3>0, <3>1, <3>2, <3>3
  <2>7. ASSUME NEW j \in 1..Len(w) PROVE w[j] < curIdx + n
    <3>1. CASE j <= Len(out)
      <4>1. w[j] = out[j] /\ j \in 1..Len(out)
        BY <2>5, <3>1
      <4> QED
        BY <1>2, <1>3, <1>5, <4>1
    <3>2. CASE j > Len(out)
      <4>1. w[j] = curIdx + (j - Len(out)) - 1
        BY <2>4, <3>2
      <4> QED
        BY <1>2, <1>3, <1>5, <2>3, <4>1
    <3> QED
      BY <1>5, <3>1, <3>2
  <2> QED
    BY <1>4, <2>2, <2>6, <2>7 DEF Increasing
<1> QED
  BY <1>6, <1>7

-----------------------------------------------------------------------------
(* The inductive invariant.                                                *)

\* A sequence of elements of a set is one of a larger set.
LEMMA SeqIn ==
  ASSUME NEW S, NEW T, S \subseteq T, NEW s \in Seq(S)
  PROVE  s \in Seq(T)
<1>1. Len(s) \in Nat /\ s \in [1..Len(s) -> T]
  BY LenProperties
<1> QED
  BY <1>1

\* The invariant holds before Encode and before Decode.
LEMMA RleInit == Init => RleInv
<1> SUFFICES ASSUME Init PROVE RleInv
  OBVIOUS
<1>1. StateIn
  <2>1. ints \in Seq(Nat) /\ buf \in Seq(Byte)
    <3>1. CASE ints \in Inputs /\ buf = <<>>
      <4>1. ints \in Seq(0..(Word - 1)) /\ 0..(Word - 1) \subseteq Nat
        BY <3>1, RleAssumption
      <4>2. ints \in Seq(Nat)
        BY <4>1, SeqIn
      <4>3. buf \in Seq(Byte)
        BY <3>1
      <4> QED
        BY <4>2, <4>3
    <3>2. CASE ints = <<>> /\ buf \in Buffers
      BY <3>2, RleAssumption DEF Byte
    <3> QED
      BY <3>1, <3>2 DEF Init
  <2>2. /\ raw \in BOOLEAN /\ len \in Nat /\ phase \in Phases /\ cursor \in Nat /\ curBit \in Bits
        /\ overflow \in BOOLEAN
    BY DEF Init, Phases, Bits
  <2>3. varint \in Seq(Nat) /\ out \in Seq(0..(Word - 1)) /\ curIdx \in 0..(Word - 1)
    BY WordIn DEF Init
  <2> QED
    BY <2>1, <2>2, <2>3 DEF StateIn
<1>2. ReadInv
  <2>1. phase \in {"encode", "header"} /\ cursor = 0 /\ Len(buf) \in Nat
    BY <1>1 DEF Init, StateIn
  <2> QED
    BY <2>1 DEF ReadInv
<1>3. OutInv
  BY DEF Init, OutInv, Increasing
<1>4. EncodedInv
  BY DEF Init, EncodedInv
<1> QED
  BY <1>1, <1>2, <1>3, <1>4 DEF RleInv

\* Encode hands over a vector of bits.
LEMMA EncodeStep ==
  ASSUME RleInv, Encode
  PROVE  RleInv'
<1>1. StateIn /\ ReadInv /\ OutInv
  BY DEF RleInv
<1> DEFINE v == EncodeInts(ints)
<1>2. buf' = v.buf /\ len' = v.len /\ phase = "encode" /\ phase' = "header"
      /\ raw' = raw /\ ints' = ints /\ cursor' = cursor /\ curIdx' = curIdx /\ curBit' = curBit
      /\ varint' = varint /\ out' = out /\ overflow' = overflow
  BY DEF Encode
<1>3. v \in Packed
  BY <1>1, EncodeIn DEF StateIn
<1> HIDE DEF v
<1>4. v = [buf |-> v.buf, len |-> v.len, packing |-> "LSB0"] /\ v \in Vectors
      /\ v.buf \in Seq(Byte) /\ v.len \in Nat
  BY <1>3 DEF Packed, Vectors
<1>5. StateIn'
  BY <1>1, <1>2, <1>4 DEF StateIn, Phases
<1>6. ReadInv'
  <2>1. cursor' = 0 /\ Len(buf') \in Nat /\ phase' = "header"
    BY <1>1, <1>2, <1>4 DEF ReadInv
  <2> QED
    BY <2>1 DEF ReadInv
<1>7. OutInv'
  BY <1>1, <1>2 DEF OutInv
<1>8. EncodedInv'
  BY <1>2, <1>4 DEF EncodedInv
<1> QED
  BY <1>5, <1>6, <1>7, <1>8 DEF RleInv

\* The header is read from a buffer that is not empty.
LEMMA HeaderStep ==
  ASSUME RleInv, decodeHeader
  PROVE  RleInv'
<1>1. StateIn /\ ReadInv /\ OutInv
  BY DEF RleInv
<1>2. /\ phase = "header" /\ raw' = raw /\ ints' = ints /\ buf' = buf /\ len' = len
      /\ curIdx' = curIdx /\ varint' = varint /\ out' = out /\ overflow' = overflow
  BY DEF decodeHeader
<1>3. \/ phase' = "done" /\ cursor' = cursor /\ curBit' = curBit
      \/ phase' = "wrong version" /\ cursor' = 2 /\ curBit' = curBit /\ buf # <<>>
      \/ phase' = "block" /\ cursor' = 3 /\ curBit' = Peek(2, 1) /\ buf # <<>>
  BY Zenon DEF decodeHeader
<1>4. cursor = 0 /\ Len(buf) \in Nat /\ (buf # <<>> => Len(buf) >= 1)
  <2>1. cursor = 0
    BY <1>1, <1>2 DEF ReadInv
  <2>2. Len(buf) \in Nat /\ (buf # <<>> => Len(buf) >= 1)
    BY <1>1 DEF StateIn
  <2> QED
    BY <2>1, <2>2
<1>5. StateIn'
  <2>1. curBit \in Bits /\ Peek(2, 1) \in Bits
    BY <1>1, PeekIn DEF StateIn
  <2>2. curBit' \in Bits
    BY <1>3, <2>1, Zenon
  <2>3. phase' \in Phases
    BY <1>3 DEF Phases
  <2>4. cursor' \in {0, 2, 3}
    BY <1>3, <1>4
  <2> QED
    BY <1>1, <1>2, <2>2, <2>3, <2>4 DEF StateIn
<1>6. ReadInv'
  <2>1. phase' \in {"done", "wrong version", "block"} /\ cursor' \in {0, 2, 3}
    BY <1>3, <1>4
  <2>2. buf' = buf /\ Len(buf) \in Nat
    BY <1>2, <1>4
  <2>3. cursor' <= 8 * Len(buf) + 8 /\ cursor' <= 8 * Len(buf) + 18
    <3>1. \A c \in {0, 2, 3}, l \in Nat : c <= 8 * l + 8 /\ c <= 8 * l + 18
      OBVIOUS
    <3> QED
      BY <2>1, <2>2, <3>1
  <2> QED
    BY <2>1, <2>2, <2>3 DEF ReadInv
<1>7. OutInv'
  BY <1>1, <1>2 DEF OutInv
<1>8. EncodedInv'
  BY <1>3 DEF EncodedInv
<1> QED
  BY <1>5, <1>6, <1>7, <1>8 DEF RleInv

\* A block that is not long begins in front of the end.
LEMMA BlockStep ==
  ASSUME RleInv, single \/ short
  PROVE  RleInv'
<1>1. StateIn /\ ReadInv /\ OutInv
  BY DEF RleInv
<1>2. /\ phase = "block" /\ phase' = "block" /\ raw' = raw /\ ints' = ints /\ buf' = buf /\ len' = len
      /\ varint' = varint
  BY DEF single, short
<1>3. cursor \in Nat /\ Len(buf) \in Nat
  BY <1>1 DEF StateIn
<1>4. PICK n \in Nat : Emit(n) /\ cursor' \in Nat /\ cursor' <= 8 * Len(buf) + 4
  <2>1. CASE single
    <3>1. cursor' = cursor + 1 /\ Emit(1) /\ Peek(0, 1) # 0
      BY <2>1 DEF single
    <3>2. cursor + 0 >= 8 * Len(buf) => Peek(0, 1) = 0
      BY <1>1, PeekIn
    <3>3. cursor' \in Nat /\ cursor' <= 8 * Len(buf) + 4
      BY <1>3, <3>1, <3>2
    <3> QED
      BY <3>1, <3>3
  <2>2. CASE short
    <3>1. cursor' = cursor + 6 /\ Emit(Peek(2, 4)) /\ Peek(1, 1) # 0
      BY <2>2 DEF short
    <3>2. (cursor + 1 >= 8 * Len(buf) => Peek(1, 1) = 0) /\ Peek(2, 4) \in Nat
      BY <1>1, PeekIn
    <3>3. cursor' \in Nat /\ cursor' <= 8 * Len(buf) + 4
      BY <1>3, <3>1, <3>2
    <3> QED
      BY <3>1, <3>2, <3>3
  <2> QED
    BY <2>1, <2>2
<1>5. n \in Int
  OBVIOUS
<1>6. StateIn'
  <2>1. /\ out' \in Seq(0..(Word - 1)) /\ curIdx' \in 0..(Word - 1) /\ curBit' \in Bits
        /\ overflow' \in BOOLEAN
    BY <1>1, <1>4, <1>5, EmitIn
  <2> QED
    BY <1>1, <1>2, <1>4, <2>1 DEF StateIn
<1>7. ReadInv'
  BY <1>2, <1>3, <1>4 DEF ReadInv
<1>8. OutInv'
  BY <1>1, <1>4, <1>5, EmitOut
<1>9. EncodedInv'
  BY <1>2 DEF EncodedInv
<1> QED
  BY <1>6, <1>7, <1>8, <1>9 DEF RleInv

\* A long block, and a byte of its varint that is not the last one.
LEMMA LongStep ==
  ASSUME RleInv, long \/ varintByte
  PROVE  RleInv'
<1>1. StateIn /\ ReadInv /\ OutInv
  BY DEF RleInv
<1>2. /\ raw' = raw /\ ints' = ints /\ buf' = buf /\ len' = len /\ curIdx' = curIdx
      /\ curBit' = curBit /\ out' = out /\ overflow' = overflow
  BY DEF long, varintByte
<1>3. cursor \in Nat /\ Len(buf) \in Nat /\ varint \in Seq(Nat)
  BY <1>1 DEF StateIn
<1>4. /\ phase' \in {"varint", "error"} /\ varint' \in Seq(Nat) /\ cursor' \in Nat
      /\ cursor' <= 8 * Len(buf) + IF Len(varint') = 0 THEN 10 ELSE 0
  <2>1. CASE long
    <3>1. phase = "block" /\ cursor' = cursor + 2 /\ phase' = "varint" /\ varint' \in Seq(Nat) /\ Len(varint') = 0
      BY <2>1 DEF long
    <3>2. cursor <= 8 * Len(buf) + 8
      BY <1>1, <3>1 DEF ReadInv
    <3>3. cursor' \in Nat /\ cursor' <= 8 * Len(buf) + 10
      BY <1>3, <3>1, <3>2
    <3> QED
      BY <3>1, <3>3
  <2>2. CASE varintByte
    <3>1. /\ Peek(0, 8) >= 128 /\ cursor' = cursor + 8 /\ varint' = Append(varint, Peek(0, 8))
          /\ phase' \in {"varint", "error"}
      BY <2>2 DEF varintByte
    <3>2. Peek(0, 8) \in Nat /\ (Peek(0, 8) >= 128 => cursor + 0 + 7 < 8 * Len(buf))
      BY <1>1, PeekIn
    <3>3. varint' \in Seq(Nat) /\ Len(varint') # 0
      BY <1>3, <3>1, <3>2, AppendProperties
    <3>4. cursor' \in Nat /\ cursor' <= 8 * Len(buf) + 0
      BY <1>3, <3>1, <3>2
    <3> QED
      BY <3>1, <3>3, <3>4
  <2> QED
    BY <2>1, <2>2
<1>5. StateIn'
  BY <1>1, <1>2, <1>4 DEF StateIn, Phases
<1>6. ReadInv'
  BY <1>2, <1>3, <1>4 DEF ReadInv
<1>7. OutInv'
  BY <1>1, <1>2 DEF OutInv
<1>8. EncodedInv'
  BY <1>4 DEF EncodedInv
<1> QED
  BY <1>5, <1>6, <1>7, <1>8 DEF RleInv

\* A varint that begins behind the end is zero and ends the loop.
LEMMA EndStep ==
  ASSUME RleInv, varintEnd
  PROVE  RleInv'
<1>1. StateIn /\ ReadInv /\ OutInv
  BY DEF RleInv
<1> DEFINE b == Peek(0, 8)
           x == Uvarint(Append(varint, b))
<1>2. /\ phase = "varint" /\ raw' = raw /\ ints' = ints /\ buf' = buf /\ len' = len /\ varint' = varint
      /\ cursor' = cursor + 8 /\ phase' = IF x = 0 THEN "done" ELSE "block"
      /\ Emit(Signed(x))
  BY DEF varintEnd
<1>3. cursor \in Nat /\ Len(buf) \in Nat /\ varint \in Seq(Nat) /\ Word \in Nat
  BY <1>1, WordIn DEF StateIn
<1>4. b \in Nat /\ (cursor + 0 >= 8 * Len(buf) => b = 0)
  BY <1>1, PeekIn
<1> HIDE DEF b
<1>5. /\ Append(varint, b) \in Seq(Nat)
      /\ Len(varint) = 0 => Len(Append(varint, b)) = 1 /\ Append(varint, b)[1] = b
  BY <1>3, <1>4, AppendProperties
<1>6. x \in Nat /\ (Len(varint) = 0 /\ b = 0 => x = 0)
  BY <1>5, UvarintIn
<1> HIDE DEF x
<1>7. Signed(x) \in Int
  BY <1>3, <1>6 DEF Signed
<1>8. StateIn'
  <2>1. /\ out' \in Seq(0..(Word - 1)) /\ curIdx' \in 0..(Word - 1) /\ curBit' \in Bits
        /\ overflow' \in BOOLEAN
    BY <1>1, <1>2, <1>7, EmitIn
  <2>2. cursor' \in Nat /\ phase' \in Phases
    BY <1>2, <1>3 DEF Phases
  <2> QED
    BY <1>1, <1>2, <2>1, <2>2 DEF StateIn
<1>9. ReadInv'
  <2>1. cursor <= 8 * Len(buf) + IF Len(varint) = 0 THEN 10 ELSE 0
    BY <1>1, <1>2 DEF ReadInv
  <2>2. phase' \in {"done", "block"} /\ (phase' = "block" => x # 0)
    BY <1>2
  <2>3. cursor' <= 8 * Len(buf) + 18
    BY <1>2, <1>3, <2>1
  <2>4. ASSUME phase' = "block" PROVE cursor' <= 8 * Len(buf) + 8
    <3>1. Len(varint) # 0 \/ ~(cursor >= 8 * Len(buf))
      BY <1>3, <1>4, <1>6, <2>2, <2>4
    <3> QED
      BY <1>2, <1>3, <2>1, <3>1
  <2> QED
    BY <1>2, <2>2, <2>3, <2>4 DEF ReadInv
<1>10. OutInv'
  BY <1>1, <1>2, <1>7, EmitOut
<1>11. EncodedInv'
  BY <1>2 DEF EncodedInv
<1> QED
  BY <1>8, <1>9, <1>10, <1>11 DEF RleInv

\* A step that changes nothing keeps the invariant.
LEMMA RleStutter ==
  ASSUME RleInv, UNCHANGED vars
  PROVE  RleInv'
<1>1. StateIn' /\ ReadInv'
  BY DEF RleInv, StateIn, ReadInv, vars
<1>2. OutInv' /\ EncodedInv'
  BY DEF RleInv, OutInv, EncodedInv, vars
<1> QED
  BY <1>1, <1>2 DEF RleInv

\* Every step of Encode and of Decode keeps the invariant (rleplus.go: Encode,
\* Decode).
LEMMA RleNext == RleInv /\ [Next]_vars => RleInv'
<1> SUFFICES ASSUME RleInv, [Next]_vars PROVE RleInv'
  OBVIOUS
<1>1. CASE Encode
  BY <1>1, EncodeStep
<1>2. CASE decodeHeader
  BY <1>2, HeaderStep
<1>3. CASE single
  BY <1>3, BlockStep
<1>4. CASE short
  BY <1>4, BlockStep
<1>5. CASE long
  BY <1>5, LongStep
<1>6. CASE varintByte
  BY <1>6, LongStep
<1>7. CASE varintEnd
  BY <1>7, EndStep
<1>8. CASE UNCHANGED vars
  BY <1>8, RleStutter
<1> QED
  BY <1>1, <1>2, <1>3, <1>4, <1>5, <1>6, <1>7, <1>8 DEF Next

-----------------------------------------------------------------------------
(* Theorems.                                                               *)

\* The invariant holds for words of every size and every input and buffer.
THEOREM RleInductive == Spec => []RleInv
<1>1. Init => RleInv
  BY RleInit
<1>2. RleInv /\ [Next]_vars => RleInv'
  BY RleNext
<1> QED
  BY <1>1, <1>2, PTL DEF Spec

\* Decode stops at most 18 bits behind the end of every buffer (rleplus.go,
\* Decode; bitvector.go, Get and Iterator).
THEOREM RleBoundedRead == Spec => []BoundedRead
<1>1. RleInv => BoundedRead
  BY DEF RleInv, ReadInv, BoundedRead
<1> QED
  BY <1>1, RleInductive, PTL

\* Whatever the buffer, Decode returns increasing numbers unless a run or the
\* sum of the runs is too large (rleplus.go, Decode).
THEOREM RleIncreasing == Spec => []IncreasingUnlessOverflow
<1>1. RleInv => IncreasingUnlessOverflow
  BY DEF RleInv, OutInv, IncreasingUnlessOverflow
<1> QED
  BY <1>1, RleInductive, PTL

\* For every slice of integers, Encode returns as many bits as it says, with
\* zeroes behind them (rleplus.go, Encode; bitvector.go, Push and Extend).
THEOREM RleLengthExact == Spec => []LengthExact
<1>1. RleInv => LengthExact
  <2> SUFFICES ASSUME RleInv, ~raw, phase = "header"
               PROVE  /\ Len(buf) = (len + 7) \div 8
                      /\ \A k \in len..(8 * Len(buf) - 1) : Get(NewBitVector(buf, "LSB0"), k) = 0
    BY DEF LengthExact
  <2> DEFINE v == [buf |-> buf, len |-> len, packing |-> "LSB0"]
             u == NewBitVector(buf, "LSB0")
  <2>1. v \in Vectors /\ v.buf = buf /\ v.len = len /\ v.packing = "LSB0"
    BY DEF RleInv, EncodedInv
  <2>2. u.buf = buf /\ u.len = 8 * Len(buf) /\ u.packing = "LSB0"
    BY DEF NewBitVector
  <2>3. Len(buf) \in Nat /\ len \in Nat
    BY DEF RleInv, StateIn
  <2> HIDE DEF v, u
  <2>4. Len(buf) = (len + 7) \div 8 /\ \A k \in len..(8 * Len(buf) - 1) : At(v, k) = 0
    BY <2>1 DEF Vectors
  <2>5. ASSUME NEW k \in len..(8 * Len(buf) - 1) PROVE Get(u, k) = 0
    <3>1. ~(k >= 8 * Len(buf))
      BY <2>3
    <3>2. Get(u, k) = At(u, k) /\ At(u, k) = At(v, k)
      BY <2>1, <2>2, <3>1 DEF Get, At
    <3> QED
      BY <2>4, <3>2
  <2> QED
    BY <2>4, <2>5 DEF u
<1> QED
  BY <1>1, RleInductive, PTL

\* Take returns every byte that Extend added, for each bit order and packing
\* (bitvector.go: Extend, Take).
THEOREM RleTakeInvertsExtend == Spec => []TakeInvertsExtend
<1>1. RleInv => TakeInvertsExtend
  <2> SUFFICES ASSUME RleInv, NEW packing \in Orders, NEW order \in Orders, NEW k \in 1..Len(buf)
               PROVE  Take(ExtendAll(NewVector(packing), buf, order), 8 * (k - 1), 8, order) = buf[k]
    BY DEF TakeInvertsExtend
  <2>1. buf \in Seq(Byte)
    BY DEF RleInv, StateIn
  <2> QED
    BY <2>1, TakeAfterExtend
<1> QED
  BY <1>1, RleInductive, PTL
=============================================================================
