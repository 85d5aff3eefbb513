--------------------------- MODULE RlePlusRoundTrip ---------------------------
(***************************************************************************)
(* The round trip of RlePlus, for words of every size and every input:     *)
(* Decode returns the numbers that Encode was given, increasing and once   *)
(* each.                                                                   *)
(*                                                                         *)
(* Four facts about Encode come first. PutUvarint writes varints that      *)
(* Uvarint reads back; Sort sorts; the runs of RunLengths cover exactly    *)
(* the numbers of the slice (RunsCover), where e[k] is the end of run k;   *)
(* and the bits of the encoding are the header, the blocks of the runs and *)
(* zeroes (EncodeRead), where p[k] is the end of block k. The invariant    *)
(* then says of Decode in front of block k + 1 that its cursor is p[k],    *)
(* its index is e[k] and it has emitted the numbers below e[k].            *)
(***************************************************************************)
EXTENDS RlePlusProofs

-----------------------------------------------------------------------------
(* Varints.                                                                *)

\* The highest bit is set in every byte but the last one.
IsVarint(bs) ==
  Len(bs) >= 1 /\ bs[Len(bs)] < 128 /\ \A j \in 1..(Len(bs) - 1) : bs[j] >= 128

\* A byte in front of a sequence of bytes.
LEMMA ConsFacts ==
  ASSUME NEW h \in Nat, NEW t \in Seq(Nat)
  PROVE  /\ <<h>> \o t \in Seq(Nat) /\ Len(<<h>> \o t) = Len(t) + 1 /\ Len(t) \in Nat
         /\ (<<h>> \o t)[1] = h
         /\ \A k \in 2..(Len(t) + 1) : (<<h>> \o t)[k] = t[k - 1]
OBVIOUS

\* The bytes of a varint are naturals, and so is its length.
LEMMA VarintNat ==
  ASSUME NEW x \in Nat
  PROVE  PutUvarint[x] \in Seq(Nat) /\ Len(PutUvarint[x]) \in Nat
<1>1. PutUvarint[x] \in Seq(Byte) /\ Byte \subseteq Nat
  BY PutUvarintIn DEF Byte
<1>2. PutUvarint[x] \in Seq(Nat)
  BY <1>1, SeqIn
<1> QED
  BY <1>2

\* What PutUvarint writes is a varint (binary.PutUvarint).
LEMMA VarintWritten == \A x \in Nat : IsVarint(PutUvarint[x])
<1> DEFINE T == {x \in Nat : ~IsVarint(PutUvarint[x])}
<1> SUFFICES ASSUME T # {} PROVE FALSE
  OBVIOUS
<1>1. PICK x \in T : \A y \in T : x <= y
  <2>1. T \in SUBSET Nat
    OBVIOUS
  <2> HIDE DEF T
  <2> QED
    BY <2>1, Least
<1>2. PutUvarint[x] = IF x < 128 THEN <<x>> ELSE <<128 + (x % 128)>> \o PutUvarint[x \div 128]
  BY PutUvarintDef
<1>3. CASE x < 128
  <2>1. PutUvarint[x] = <<x>>
    BY <1>2, <1>3
  <2>2. IsVarint(<<x>>)
    BY <1>3 DEF IsVarint
  <2> QED
    BY <1>1, <2>1, <2>2
<1>4. CASE ~(x < 128)
  <2> DEFINE h == 128 + (x % 128)
             t == PutUvarint[x \div 128]
             bs == <<h>> \o t
  <2>1. PutUvarint[x] = bs
    BY <1>2, <1>4
  <2>2. h \in Nat /\ h >= 128 /\ x \div 128 \in Nat /\ x \div 128 < x
    BY <1>4
  <2>3. IsVarint(t) /\ t \in Seq(Nat)
    BY <1>1, <2>2, VarintNat
  <2> HIDE DEF h, t
  <2>4. /\ Len(bs) = Len(t) + 1 /\ Len(t) \in Nat /\ bs[1] = h
        /\ \A k \in 2..(Len(t) + 1) : bs[k] = t[k - 1]
    BY <2>2, <2>3, ConsFacts
  <2> HIDE DEF bs
  <2>5. bs[Len(bs)] = t[Len(t)]
    BY <2>3, <2>4 DEF IsVarint
  <2>6. ASSUME NEW j \in 1..(Len(bs) - 1) PROVE bs[j] >= 128
    <3>1. CASE j = 1
      BY <2>2, <2>4, <3>1
    <3>2. CASE j # 1
      <4>1. j \in 2..(Len(t) + 1) /\ j - 1 \in 1..(Len(t) - 1)
        BY <2>4, <3>2
      <4> QED
        BY <2>3, <2>4, <4>1 DEF IsVarint
    <3> QED
      BY <3>1, <3>2
  <2>7. IsVarint(bs)
    BY <2>3, <2>4, <2>5, <2>6 DEF IsVarint
  <2> QED
    BY <1>1, <2>1, <2>7
<1> QED
  BY <1>3, <1>4

\* The varint of a smaller number is not longer.
LEMMA VarintLonger ==
  ASSUME NEW x \in Nat, NEW y \in Nat, x <= y
  PROVE  Len(PutUvarint[x]) <= Len(PutUvarint[y])
<1> DEFINE T == {m \in Nat : \E k \in 0..m : ~(Len(PutUvarint[k]) <= Len(PutUvarint[m]))}
<1> SUFFICES ASSUME T # {} PROVE FALSE
  OBVIOUS
<1>1. PICK m \in T : \A z \in T : m <= z
  <2>1. T \in SUBSET Nat
    OBVIOUS
  <2> HIDE DEF T
  <2> QED
    BY <2>1, Least
<1>2. PICK k \in 0..m : ~(Len(PutUvarint[k]) <= Len(PutUvarint[m]))
  BY <1>1
<1>3. ASSUME NEW z \in Nat
      PROVE  /\ z < 128 => Len(PutUvarint[z]) = 1
             /\ ~(z < 128) => Len(PutUvarint[z]) = Len(PutUvarint[z \div 128]) + 1
             /\ z \div 128 \in Nat /\ Len(PutUvarint[z]) \in Nat /\ Len(PutUvarint[z]) >= 1
  <2>1. PutUvarint[z] = IF z < 128 THEN <<z>> ELSE <<128 + (z % 128)>> \o PutUvarint[z \div 128]
    BY PutUvarintDef
  <2>2. z \div 128 \in Nat /\ 128 + (z % 128) \in Nat
    OBVIOUS
  <2>3. PutUvarint[z \div 128] \in Seq(Nat)
    BY <2>2, VarintNat
  <2>4. Len(<<128 + (z % 128)>> \o PutUvarint[z \div 128]) = Len(PutUvarint[z \div 128]) + 1
    BY <2>2, <2>3, ConsFacts
  <2>5. Len(<<z>>) = 1
    OBVIOUS
  <2>6. Len(PutUvarint[z]) \in Nat /\ Len(PutUvarint[z]) >= 1
    BY VarintNat, VarintWritten DEF IsVarint
  <2> QED
    BY <2>1, <2>2, <2>4, <2>5, <2>6
<1>4. m \in Nat /\ k \in Nat
  BY <1>1
<1>5. CASE k < 128
  BY <1>2, <1>3, <1>4, <1>5
<1>6. CASE ~(k < 128)
  <2>1. ~(m < 128) /\ m \div 128 \in Nat /\ k \div 128 \in 0..(m \div 128) /\ m \div 128 < m
    BY <1>4, <1>6
  <2>2. m \div 128 \notin T
    BY <1>1, <1>4, <2>1
  <2>3. Len(PutUvarint[k \div 128]) <= Len(PutUvarint[m \div 128])
    BY <2>1, <2>2
  <2>4. /\ Len(PutUvarint[k]) = Len(PutUvarint[k \div 128]) + 1
        /\ Len(PutUvarint[m]) = Len(PutUvarint[m \div 128]) + 1
        /\ Len(PutUvarint[k \div 128]) \in Nat /\ Len(PutUvarint[m \div 128]) \in Nat
    BY <1>3, <1>4, <1>6, <2>1
  <2> QED
    BY <1>2, <2>3, <2>4
<1> QED
  BY <1>5, <1>6

\* One more byte.
LEMMA SevensAppend ==
  ASSUME NEW q \in Seq(Nat), NEW b \in Nat
  PROVE  Sevens(Append(q, b)) = 128 * Sevens(q) + (b % 128)
<1> DEFINE u == Append(q, b)
<1>1. /\ u \in Seq(Nat) /\ Len(u) = Len(q) + 1 /\ Len(q) \in Nat /\ u[Len(q) + 1] = b
      /\ \A k \in 1..Len(q) : u[k] = q[k]
  OBVIOUS
<1> HIDE DEF u
<1>2. PICK a : SevensBy(a, q)
  BY SevensSteps
<1>3. PICK c : SevensBy(c, u)
  BY <1>1, SevensSteps
<1>4. /\ a[0] = 0 /\ (\A k \in 1..Len(q) : a[k] = 128 * a[k - 1] + (q[k] % 128)) /\ Sevens(q) = a[Len(q)]
  BY <1>2 DEF SevensBy
<1>5. /\ c[0] = 0 /\ (\A k \in 1..Len(u) : c[k] = 128 * c[k - 1] + (u[k] % 128)) /\ Sevens(u) = c[Len(u)]
  BY <1>3 DEF SevensBy
<1> DEFINE S == {k \in 0..Len(q) : c[k] = a[k]}
<1>6. 0 \in S
  BY <1>1, <1>4, <1>5
<1>7. ASSUME NEW k \in 1..Len(q), k - 1 \in S PROVE k \in S
  <2>1. k \in 1..Len(u) /\ u[k] = q[k] /\ c[k - 1] = a[k - 1]
    BY <1>1, <1>7
  <2>2. c[k] = 128 * c[k - 1] + (u[k] % 128) /\ a[k] = 128 * a[k - 1] + (q[k] % 128)
    BY <1>4, <1>5, <2>1
  <2> QED
    BY <2>1, <2>2
<1>8. Len(q) \in S
  <2> HIDE DEF S
  <2>1. \A k \in 0..Len(q) : k \in S
    BY <1>1, <1>6, <1>7, InductTo
  <2> QED
    BY <1>1, <2>1
<1>9. Len(u) \in 1..Len(u) /\ Len(u) - 1 = Len(q) /\ u[Len(u)] = b
  BY <1>1
<1>10. c[Len(u)] = 128 * c[Len(u) - 1] + (u[Len(u)] % 128)
  BY <1>5, <1>9
<1> QED
  BY <1>4, <1>5, <1>8, <1>9, <1>10 DEF u

\* The first byte of a sequence is the last one of its reverse.
LEMMA ReverseCons ==
  ASSUME NEW h \in Nat, NEW t \in Seq(Nat)
  PROVE  Reverse(t) \in Seq(Nat) /\ Reverse(<<h>> \o t) = Append(Reverse(t), h)
<1> DEFINE s == <<h>> \o t
           r == [i \in 1..Len(t) |-> t[(Len(t) - i) + 1]]
<1>1. Reverse(t) = r /\ Reverse(s) = [i \in 1..Len(s) |-> s[(Len(s) - i) + 1]]
  BY DEF Reverse
<1>2. /\ s \in Seq(Nat) /\ Len(s) = Len(t) + 1 /\ Len(t) \in Nat /\ s[1] = h
      /\ \A k \in 2..(Len(t) + 1) : s[k] = t[k - 1]
  BY ConsFacts
<1> HIDE DEF s
<1>3. ASSUME NEW i \in 1..Len(t) PROVE t[(Len(t) - i) + 1] \in Nat
  <2>1. (Len(t) - i) + 1 \in 1..Len(t)
    BY <1>2
  <2> QED
    BY <2>1
<1>4. r \in Seq(Nat) /\ Len(r) = Len(t) /\ \A i \in 1..Len(t) : r[i] = t[(Len(t) - i) + 1]
  BY <1>2, <1>3
<1> HIDE DEF r
<1>5. /\ Append(r, h) \in Seq(Nat) /\ Len(Append(r, h)) = Len(t) + 1
      /\ Append(r, h)[Len(t) + 1] = h /\ \A i \in 1..Len(t) : Append(r, h)[i] = r[i]
  BY <1>4
<1> DEFINE z == [i \in 1..(Len(t) + 1) |-> s[((Len(t) + 1) - i) + 1]]
<1>6. ASSUME NEW i \in 1..(Len(t) + 1) PROVE s[((Len(t) + 1) - i) + 1] = Append(r, h)[i]
  <2>1. CASE i = Len(t) + 1
    <3>1. ((Len(t) + 1) - i) + 1 = 1
      BY <1>2, <2>1
    <3> QED
      BY <1>2, <1>5, <2>1, <3>1
  <2>2. CASE i # Len(t) + 1
    <3>1. i \in 1..Len(t) /\ ((Len(t) + 1) - i) + 1 \in 2..(Len(t) + 1)
          /\ (((Len(t) + 1) - i) + 1) - 1 = (Len(t) - i) + 1
      BY <1>2, <2>2
    <3> QED
      BY <1>2, <1>4, <1>5, <3>1
  <2> QED
    BY <2>1, <2>2
<1>7. Append(r, h) = [i \in 1..(Len(t) + 1) |-> Append(r, h)[i]]
  <2> DEFINE w == Append(r, h)
  <2> HIDE DEF w
  <2>1. w \in Seq(Nat) /\ Len(w) = Len(t) + 1
    BY <1>5 DEF w
  <2>2. w \in [1..(Len(t) + 1) -> Nat]
    BY <2>1, LenProperties
  <2> QED
    BY <2>2 DEF w
<1>8. Reverse(s) = Append(r, h)
  BY <1>1, <1>2, <1>6, <1>7
<1> QED
  BY <1>1, <1>4, <1>8 DEF s

\* Uvarint undoes PutUvarint (binary.Uvarint).
LEMMA VarintValue == \A x \in Nat : Sevens(Reverse(PutUvarint[x])) = x
<1> DEFINE T == {x \in Nat : Sevens(Reverse(PutUvarint[x])) # x}
<1> SUFFICES ASSUME T # {} PROVE FALSE
  OBVIOUS
<1>1. PICK x \in T : \A y \in T : x <= y
  <2>1. T \in SUBSET Nat
    OBVIOUS
  <2> HIDE DEF T
  <2> QED
    BY <2>1, Least
<1>2. PutUvarint[x] = IF x < 128 THEN <<x>> ELSE <<128 + (x % 128)>> \o PutUvarint[x \div 128]
  BY PutUvarintDef
<1>0. Sevens(<<>>) = 0 /\ <<>> \in Seq(Nat)
  <2>1. <<>> \in Seq(Nat) /\ Len(<<>>) = 0
    OBVIOUS
  <2>2. PICK a : SevensBy(a, <<>>)
    BY <2>1, SevensSteps
  <2> QED
    BY <2>1, <2>2 DEF SevensBy
<1>3. CASE x < 128
  <2>1. PutUvarint[x] = <<x>>
    BY <1>2, <1>3
  <2>2. Reverse(<<x>>) = Append(<<>>, x)
    BY DEF Reverse
  <2>3. Sevens(Append(<<>>, x)) = 128 * Sevens(<<>>) + (x % 128)
    BY <1>0, SevensAppend
  <2>4. 128 * 0 + (x % 128) = x
    BY <1>3
  <2> QED
    BY <1>0, <1>1, <2>1, <2>2, <2>3, <2>4
<1>4. CASE ~(x < 128)
  <2> DEFINE h == 128 + (x % 128)
             t == PutUvarint[x \div 128]
  <2>1. PutUvarint[x] = <<h>> \o t
    BY <1>2, <1>4
  <2>2. h \in Nat /\ x \div 128 \in Nat /\ x \div 128 < x /\ 128 * (x \div 128) + (h % 128) = x
    BY <1>4
  <2>3. Sevens(Reverse(t)) = x \div 128 /\ t \in Seq(Nat)
    BY <1>1, <2>2, VarintNat
  <2> HIDE DEF h, t
  <2>4. Reverse(t) \in Seq(Nat) /\ Reverse(<<h>> \o t) = Append(Reverse(t), h)
    BY <2>2, <2>3, ReverseCons
  <2>5. Sevens(Append(Reverse(t), h)) = 128 * Sevens(Reverse(t)) + (h % 128)
    BY <2>2, <2>4, SevensAppend
  <2> QED
    BY <1>1, <2>1, <2>2, <2>3, <2>4, <2>5
<1> QED
  BY <1>3, <1>4

\* A word is read back from its varint, which is not too long for Decode.
LEMMA VarintRead ==
  ASSUME NEW x \in Nat, x < Word
  PROVE  Uvarint(PutUvarint[x]) = x /\ Len(PutUvarint[x]) <= MaxVarint
<1>1. Word \in Nat /\ Word - 1 \in Nat /\ x <= Word - 1 /\ MaxVarint = Len(PutUvarint[Word - 1])
  BY RleAssumption
<1>2. Len(PutUvarint[x]) <= MaxVarint /\ Len(PutUvarint[x]) \in Nat /\ MaxVarint \in Nat
  BY <1>1, VarintLonger, VarintNat
<1>3. Sevens(Reverse(PutUvarint[x])) = x
  BY VarintValue
<1>4. ~(Len(PutUvarint[x]) > MaxVarint) /\ ~(x >= Word)
  BY <1>1, <1>2
<1> QED
  BY <1>2, <1>3, <1>4 DEF Uvarint

-----------------------------------------------------------------------------
(* Sorting.                                                                *)

Sorted(t) == \A i, j \in 1..Len(t) : i <= j => t[i] <= t[j]

\* Where the numbers are after an insertion.
LEMMA InsertAtValues ==
  ASSUME NEW t \in Seq(Nat), NEW x \in Nat, NEW c \in 0..Len(t)
  PROVE  /\ \A k \in 1..c : InsertAt(t, c + 1, x)[k] = t[k]
         /\ InsertAt(t, c + 1, x)[c + 1] = x
         /\ \A k \in (c + 2)..(Len(t) + 1) : InsertAt(t, c + 1, x)[k] = t[k - 1]
<1>1. (c + 1) - 1 = c /\ Len(t) \in Nat
  OBVIOUS
<1> DEFINE p == SubSeq(t, 1, c)
           w == p \o <<x>>
           y == SubSeq(t, c + 1, Len(t))
<1>2. InsertAt(t, c + 1, x) = w \o y
  <2>1. InsertAt(t, c + 1, x) = (SubSeq(t, 1, (c + 1) - 1) \o <<x>>) \o SubSeq(t, c + 1, Len(t))
    BY Zenon DEF InsertAt
  <2> QED
    BY <1>1, <2>1
<1>3. /\ p \in Seq(Nat) /\ Len(p) = c /\ \A k \in 1..c : p[k] = t[k]
      /\ y \in Seq(Nat) /\ Len(y) = Len(t) - c /\ \A k \in 1..(Len(t) - c) : y[k] = t[c + k]
  BY <1>1
<1> HIDE DEF p, y
<1>4. w \in Seq(Nat) /\ Len(w) = c + 1 /\ w[c + 1] = x /\ \A k \in 1..c : w[k] = p[k]
  BY <1>3
<1> HIDE DEF w
<1>5. \A k \in 1..(Len(t) + 1) : (w \o y)[k] = IF k <= c + 1 THEN w[k] ELSE y[k - (c + 1)]
  <2>1. \A k \in 1..(Len(w) + Len(y)) : (w \o y)[k] = IF k <= Len(w) THEN w[k] ELSE y[k - Len(w)]
    BY <1>3, <1>4, ConcatProperties
  <2>2. Len(w) + Len(y) = Len(t) + 1
    BY <1>1, <1>3, <1>4
  <2> QED
    BY <1>4, <2>1, <2>2
<1>6. ASSUME NEW k \in (c + 2)..(Len(t) + 1) PROVE (w \o y)[k] = t[k - 1]
  <2>1. k \in 1..(Len(t) + 1) /\ ~(k <= c + 1) /\ k - (c + 1) \in 1..(Len(t) - c)
        /\ c + (k - (c + 1)) = k - 1
    BY <1>1
  <2> QED
    BY <1>3, <1>5, <2>1
<1>7. /\ \A k \in 1..c : (w \o y)[k] = t[k]
      /\ (w \o y)[c + 1] = x
  <2>1. c + 1 \in 1..(Len(t) + 1) /\ c + 1 <= c + 1
        /\ \A k \in 1..c : k \in 1..(Len(t) + 1) /\ k <= c + 1
    BY <1>1
  <2> QED
    BY <1>3, <1>4, <1>5, <2>1
<1> QED
  BY <1>2, <1>6, <1>7

\* In a sorted sequence the numbers up to x are in front.
LEMMA SortedPrefix ==
  ASSUME NEW t \in Seq(Nat), Sorted(t), NEW x \in Nat
  PROVE  \E m \in 0..Len(t) : {i \in 1..Len(t) : t[i] <= x} = 1..m
<1> DEFINE B == {i \in 1..Len(t) : ~(t[i] <= x)}
<1>1. Len(t) \in Nat /\ \A i \in 1..Len(t) : t[i] \in Nat
  OBVIOUS
<1>2. CASE B = {}
  <2>1. {i \in 1..Len(t) : t[i] <= x} = 1..Len(t)
    BY <1>2
  <2> QED
    BY <1>1, <2>1
<1>3. CASE B # {}
  <2>1. PICK b \in B : \A y \in B : b <= y
    <3>1. B \in SUBSET Nat
      OBVIOUS
    <3> HIDE DEF B
    <3> QED
      BY <1>3, <3>1, Least
  <2>2. b \in 1..Len(t) /\ ~(t[b] <= x)
    BY <2>1
  <2>3. ASSUME NEW i \in 1..Len(t) PROVE t[i] <= x <=> i \in 1..(b - 1)
    <3>1. CASE i < b
      BY <2>1, <2>2, <3>1
    <3>2. CASE ~(i < b)
      <4>1. t[b] <= t[i]
        BY <2>2, <3>2 DEF Sorted
      <4> QED
        BY <1>1, <2>2, <3>2, <4>1
    <3> QED
      BY <3>1, <3>2
  <2>4. 1..(b - 1) \subseteq 1..Len(t) /\ b - 1 \in 0..Len(t)
    BY <1>1, <2>2
  <2>5. {i \in 1..Len(t) : t[i] <= x} = 1..(b - 1)
    BY <2>3, <2>4
  <2> QED
    BY <2>4, <2>5
<1> QED
  BY <1>2, <1>3

\* Insert keeps a sequence sorted and adds its number.
LEMMA InsertSorted ==
  ASSUME NEW t \in Seq(Nat), Sorted(t), NEW x \in Nat
  PROVE  Sorted(Insert(t, x)) /\ ToSet(Insert(t, x)) = ToSet(t) \cup {x}
<1>1. PICK m \in 0..Len(t) : {i \in 1..Len(t) : t[i] <= x} = 1..m
  BY SortedPrefix
<1>2. Len(t) \in Nat /\ m \in Nat
  OBVIOUS
<1>3. Cardinality(1..m) = m
  <2>1. Cardinality(1..m) = IF 1 > m THEN 0 ELSE m - 1 + 1
    BY <1>2, FS_Interval
  <2> QED
    BY <1>2, <2>1
<1>4. Insert(t, x) = InsertAt(t, m + 1, x)
  BY <1>1, <1>3, Zenon DEF Insert
<1> DEFINE w == InsertAt(t, m + 1, x)
<1>5. /\ \A k \in 1..m : w[k] = t[k]
      /\ w[m + 1] = x
      /\ \A k \in (m + 2)..(Len(t) + 1) : w[k] = t[k - 1]
  BY InsertAtValues
<1>6. w \in Seq(Nat) /\ Len(w) = Len(t) + 1
  BY InsertAtIn
<1> HIDE DEF w
<1>7. \A i \in 1..Len(t) : t[i] \in Nat /\ (t[i] <= x <=> i \in 1..m)
  BY <1>1
<1>8. ASSUME NEW i \in 1..Len(w), NEW j \in 1..Len(w), i <= j PROVE w[i] <= w[j]
  <2>1. CASE j <= m
    <3>1. i \in 1..m /\ j \in 1..m /\ i \in 1..Len(t) /\ j \in 1..Len(t)
      BY <1>2, <1>8, <2>1
    <3> QED
      BY <1>5, <1>8, <3>1 DEF Sorted
  <2>2. CASE j = m + 1
    <3>1. CASE i = j
      BY <1>5, <2>2, <3>1
    <3>2. CASE i # j
      <4>1. i \in 1..m /\ i \in 1..Len(t)
        BY <1>2, <1>8, <2>2, <3>2
      <4> QED
        BY <1>5, <1>7, <2>2, <4>1
    <3> QED
      BY <3>1, <3>2
  <2>3. CASE j > m + 1
    <3>0. j \in (m + 2)..(Len(t) + 1) /\ j - 1 \in 1..Len(t) /\ j - 1 \notin 1..m
      BY <1>2, <1>6, <2>3
    <3>1. CASE i <= m
      <4>1. i \in 1..m /\ i \in 1..Len(t) /\ i <= j - 1
        BY <1>2, <2>3, <3>1
      <4> QED
        BY <1>5, <3>0, <4>1 DEF Sorted
    <3>2. CASE i = m + 1
      <4>1. ~(t[j - 1] <= x) /\ t[j - 1] \in Nat
        BY <1>7, <3>0
      <4> QED
        BY <1>5, <3>0, <3>2, <4>1
    <3>3. CASE i > m + 1
      <4>1. i \in (m + 2)..(Len(t) + 1) /\ i - 1 \in 1..Len(t) /\ i - 1 <= j - 1
        BY <1>2, <1>6, <1>8, <3>3
      <4> QED
        BY <1>5, <3>0, <4>1 DEF Sorted
    <3> QED
      BY <1>2, <3>1, <3>2, <3>3
  <2> QED
    BY <1>2, <2>1, <2>2, <2>3
<1>9. ToSet(w) = ToSet(t) \cup {x}
  <2>0. ToSet(w) = {w[k] : k \in 1..Len(w)} /\ ToSet(t) = {t[k] : k \in 1..Len(t)}
    BY <1>6, LenProperties DEF ToSet
  <2>1. ASSUME NEW k \in 1..Len(w) PROVE w[k] \in ToSet(t) \cup {x}
    <3>1. CASE k <= m
      <4>1. k \in 1..m /\ k \in 1..Len(t)
        BY <1>2, <3>1
      <4> QED
        BY <1>5, <2>0, <4>1
    <3>2. CASE k = m + 1
      BY <1>5, <3>2
    <3>3. CASE k > m + 1
      <4>1. k \in (m + 2)..(Len(t) + 1) /\ k - 1 \in 1..Len(t)
        BY <1>2, <1>6, <3>3
      <4> QED
        BY <1>5, <2>0, <4>1
    <3> QED
      BY <1>2, <3>1, <3>2, <3>3
  <2>2. ASSUME NEW k \in 1..Len(t) PROVE t[k] \in ToSet(w)
    <3>1. CASE k <= m
      <4>1. k \in 1..m /\ k \in 1..Len(w)
        BY <1>2, <1>6, <3>1
      <4> QED
        BY <1>5, <2>0, <4>1
    <3>2. CASE k > m
      <4>1. k + 1 \in (m + 2)..(Len(t) + 1) /\ k + 1 \in 1..Len(w) /\ (k + 1) - 1 = k
        BY <1>2, <1>6, <3>2
      <4>2. w[k + 1] = t[k]
        BY <1>5, <4>1
      <4> QED
        BY <2>0, <4>1, <4>2
    <3> QED
      BY <1>2, <3>1, <3>2
  <2>3. x \in ToSet(w)
    <3>1. m + 1 \in 1..Len(w)
      BY <1>2, <1>6
    <3> QED
      BY <1>5, <2>0, <3>1
  <2> QED
    BY <2>0, <2>1, <2>2, <2>3
<1> QED
  BY <1>4, <1>8, <1>9 DEF Sorted, w

\* Sort returns the same numbers in order (rleplus.go:174, sort.Slice).
LEMMA SortSorts ==
  ASSUME NEW s \in Seq(Nat)
  PROVE  /\ Sort(s) \in Seq(Nat) /\ Sorted(Sort(s)) /\ Len(Sort(s)) = Len(s)
         /\ ToSet(Sort(s)) = ToSet(s)
<1>1. PICK a : SortedBy(a, s)
  BY SortSteps
<1>2. /\ a \in [0..Len(s) -> Seq(Nat)] /\ a[0] = <<>> /\ Sort(s) = a[Len(s)] /\ Len(s) \in Nat
      /\ \A k \in 1..Len(s) : a[k] = Insert(a[k - 1], s[k])
  BY <1>1 DEF SortedBy
<1> DEFINE Ok(k) == Sorted(a[k]) /\ Len(a[k]) = k /\ ToSet(a[k]) = {s[i] : i \in 1..k}
           S == {k \in 0..Len(s) : Ok(k)}
<1>3. 0 \in S
  <2>1. Len(<<>>) = 0 /\ Sorted(<<>>) /\ ToSet(<<>>) = {}
    BY DEF Sorted, ToSet
  <2>2. {s[i] : i \in 1..0} = {} /\ 0 \in 0..Len(s)
    BY <1>2
  <2>3. Ok(0)
    BY <1>2, <2>1, <2>2, Zenon
  <2> HIDE DEF Ok
  <2> QED
    BY <2>2, <2>3
<1>4. ASSUME NEW k \in 1..Len(s), k - 1 \in S PROVE k \in S
  <2>0. k - 1 \in 0..Len(s) /\ k \in 0..Len(s) /\ s[k] \in Nat
    BY <1>2
  <2>1. a[k - 1] \in Seq(Nat) /\ a[k] = Insert(a[k - 1], s[k])
    BY <1>2, <2>0
  <2>2. Ok(k - 1)
    BY <1>4
  <2>3. Sorted(a[k]) /\ ToSet(a[k]) = ToSet(a[k - 1]) \cup {s[k]} /\ Len(a[k]) = Len(a[k - 1]) + 1
    BY <2>0, <2>1, <2>2, InsertSorted, InsertIn
  <2>4. 1..k = 1..(k - 1) \cup {k}
    OBVIOUS
  <2>5. Ok(k)
    <3>1. Len(a[k]) = k
      BY <2>2, <2>3
    <3>2. ToSet(a[k]) = {s[i] : i \in 1..k}
      BY <2>2, <2>3, <2>4
    <3> QED
      BY <2>3, <3>1, <3>2
  <2> HIDE DEF Ok
  <2> QED
    BY <2>0, <2>5
<1>5. Len(s) \in S
  <2> HIDE DEF S
  <2>1. \A k \in 0..Len(s) : k \in S
    BY <1>2, <1>3, <1>4, InductTo
  <2> QED
    BY <1>2, <2>1
<1>6. Ok(Len(s))
  BY <1>5
<1>7. ToSet(s) = {s[i] : i \in 1..Len(s)}
  BY LenProperties DEF ToSet
<1>8. Sort(s) \in Seq(Nat)
  BY SortIn
<1> QED
  BY <1>2, <1>6, <1>7, <1>8


-----------------------------------------------------------------------------
(* Runs.                                                                   *)

\* Whether the k-th run is one of ones, when the first one is one of firstBit.
Ones(firstBit, k) == (firstBit + k) % 2 = 0

\* Runs of zeroes and of ones alternate.
LEMMA OnesFlip ==
  ASSUME NEW f \in Bits, NEW k \in Nat
  PROVE  Ones(f, k + 1) <=> ~Ones(f, k)
BY DEF Ones, Bits

\* The numbers in front of e[k] are those of the first k runs.
Ends(e, runs) ==
  /\ e \in [0..Len(runs) -> Nat] /\ e[0] = 0
  /\ \A k \in 1..Len(runs) : e[k] = e[k - 1] + runs[k] /\ runs[k] >= 1

\* The runs of ones have the numbers of S, the others have none of them.
Covers(e, runs, firstBit, S) ==
  \A k \in 1..Len(runs) : \A x \in e[k - 1]..(e[k] - 1) : x \in S <=> Ones(firstBit, k)

\* The runs follow each other.
LEMMA EndsUp ==
  ASSUME NEW runs \in Seq(Nat), NEW e, Ends(e, runs),
         NEW i \in 0..Len(runs), NEW j \in 0..Len(runs), i <= j
  PROVE  e[i] <= e[j] /\ (i < j => e[i] < e[j])
<1>1. /\ e \in [0..Len(runs) -> Nat] /\ Len(runs) \in Nat
      /\ \A k \in 1..Len(runs) : e[k] = e[k - 1] + runs[k] /\ runs[k] >= 1
  BY DEF Ends
<1> DEFINE Up(k) == i <= k => e[i] <= e[k] /\ (i < k => e[i] < e[k])
           S == {k \in 0..Len(runs) : Up(k)}
<1>2. 0 \in S
  BY <1>1
<1>3. ASSUME NEW k \in 1..Len(runs), k - 1 \in S PROVE k \in S
  <2>1. k - 1 \in 0..Len(runs) /\ k \in 0..Len(runs) /\ Up(k - 1)
    BY <1>1, <1>3
  <2>0. runs[k] \in Nat
    OBVIOUS
  <2>2. e[k] \in Nat /\ e[k - 1] \in Nat /\ e[i] \in Nat /\ runs[k] \in Nat
    BY <1>1, <2>0, <2>1
  <2>3. e[k] = e[k - 1] + runs[k] /\ runs[k] >= 1
    BY <1>1
  <2>4. Up(k)
    <3>1. CASE i <= k - 1
      BY <2>1, <2>2, <2>3, <3>1
    <3>2. CASE ~(i <= k - 1)
      <4>1. i >= k
        BY <3>2
      <4>2. i <= k => i = k
        BY <4>1
      <4> QED
        BY <2>2, <4>1, <4>2
    <3> QED
      BY <3>1, <3>2
  <2> HIDE DEF Up
  <2> QED
    BY <2>1, <2>4
<1>4. j \in S
  <2> HIDE DEF S
  <2>1. \A k \in 0..Len(runs) : k \in S
    BY <1>1, <1>2, <1>3, InductTo
  <2> QED
    BY <2>1
<1> QED
  BY <1>4

\* The runs that the loop of RunLengths has made of the numbers in S, of which
\* it has read c: they end with the last number.
RunsOf(r, f, S, c) ==
  \E e : /\ Ends(e, r.runs) /\ Covers(e, r.runs, f, S)
         /\ e[Len(r.runs)] = r.prev + 1 /\ Ones(f, Len(r.runs))
         /\ \A x \in S : x <= r.prev
         /\ \A k \in 1..Len(r.runs) : Ones(f, k) => r.runs[k] <= c

\* The fields of the state of the loop.
LEMMA RunStateIn ==
  ASSUME NEW r \in RunStates
  PROVE  /\ r.prev \in Nat /\ r.runs \in Seq(Nat) /\ Len(r.runs) \in Nat /\ Len(r.runs) >= 1
BY DEF RunStates

\* A neighbour of the last number lengthens the last run.
LEMMA RunNeighbour ==
  ASSUME NEW r \in RunStates, NEW f \in Bits, NEW S \in SUBSET Nat, NEW c \in Nat,
         RunsOf(r, f, S, c), NEW cur \in Nat, cur = r.prev + 1
  PROVE  RunsOf(NextRun(r, cur), f, S \cup {cur}, c + 1)
<1> DEFINE n == Len(r.runs)
           u == NextRun(r, cur)
           w == [r.runs EXCEPT ![n] = r.runs[n] + 1]
<1>1. r.prev \in Nat /\ r.runs \in Seq(Nat) /\ n \in Nat /\ n >= 1
  BY RunStateIn
<1>2. u.prev = cur /\ u.runs = w
  <2>1. cur - r.prev = 1
    BY <1>1
  <2> QED
    BY <2>1 DEF NextRun
<1>3. PICK e : /\ Ends(e, r.runs) /\ Covers(e, r.runs, f, S)
               /\ e[n] = r.prev + 1 /\ Ones(f, n)
               /\ \A x \in S : x <= r.prev
               /\ \A k \in 1..n : Ones(f, k) => r.runs[k] <= c
  BY DEF RunsOf
<1>4. /\ e \in [0..n -> Nat] /\ e[0] = 0
      /\ \A k \in 1..n : e[k] = e[k - 1] + r.runs[k] /\ r.runs[k] >= 1
  BY <1>3 DEF Ends
<1>5. \A k \in 1..n : \A x \in e[k - 1]..(e[k] - 1) : x \in S <=> Ones(f, k)
  BY <1>3 DEF Covers
<1>6. \A k \in 0..n : e[k] <= e[n] /\ (k < n => e[k] < e[n])
  <2>1. \A k \in 0..n : n \in 0..n /\ k <= n
    BY <1>1
  <2> QED
    BY <1>1, <1>3, <2>1, EndsUp
<1> HIDE DEF n, u
<1>7. w \in Seq(Nat) /\ Len(w) = n /\ w[n] = r.runs[n] + 1 /\ \A k \in 1..n : k # n => w[k] = r.runs[k]
  BY <1>1 DEF n
<1> HIDE DEF w
<1> DEFINE d == [e EXCEPT ![n] = e[n] + 1]
<1>8. d \in [0..n -> Nat] /\ d[n] = e[n] + 1 /\ \A k \in 0..n : k # n => d[k] = e[k]
  BY <1>1, <1>4
<1> HIDE DEF d
<1>9. Ends(d, w)
  <2>1. d[0] = 0
    BY <1>1, <1>4, <1>8
  <2>2. ASSUME NEW k \in 1..n PROVE d[k] = d[k - 1] + w[k] /\ w[k] >= 1
    <3>1. k - 1 \in 0..n /\ k - 1 # n /\ k \in 0..n
      BY <1>1
    <3>0. r.runs[k] \in Nat /\ r.runs[n] \in Nat
      BY <1>1 DEF n
    <3>2. d[k - 1] = e[k - 1] /\ e[k - 1] \in Nat
      BY <1>4, <1>8, <3>1
    <3>3. e[k] = e[k - 1] + r.runs[k] /\ r.runs[k] >= 1
      BY <1>4
    <3>4. CASE k = n
      <4>1. d[k] = e[k] + 1 /\ w[k] = r.runs[k] + 1
        BY <1>7, <1>8, <3>4
      <4> QED
        BY <3>0, <3>2, <3>3, <4>1
    <3>5. CASE k # n
      BY <1>7, <1>8, <3>1, <3>2, <3>3, <3>5
    <3> QED
      BY <3>4, <3>5
  <2> QED
    BY <1>7, <1>8, <2>1, <2>2 DEF Ends
<1>10. ASSUME NEW k \in 1..n, NEW x \in d[k - 1]..(d[k] - 1)
       PROVE  x \in S \cup {cur} <=> Ones(f, k)
  <2>1. k - 1 \in 0..n /\ k - 1 # n /\ k \in 0..n
    BY <1>1
  <2>2. d[k - 1] = e[k - 1] /\ e[k - 1] \in Nat /\ e[k] \in Nat /\ e[n] = cur
    BY <1>3, <1>4, <1>8, <2>1
  <2>3. CASE k = n
    <3>1. x = cur \/ x \in e[k - 1]..(e[k] - 1)
      BY <1>8, <2>2, <2>3
    <3> QED
      BY <1>3, <1>5, <2>3, <3>1
  <2>4. CASE k # n
    <3>1. d[k] = e[k] /\ k < n
      BY <1>1, <1>8, <2>1, <2>4
    <3>2. e[k] < e[n]
      BY <1>6, <2>1, <3>1
    <3>3. x \in e[k - 1]..(e[k] - 1)
      BY <2>2, <3>1
    <3>4. x # cur
      BY <2>2, <3>2, <3>3
    <3> QED
      BY <1>5, <3>3, <3>4
  <2> QED
    BY <2>3, <2>4
<1>11. \A x \in S \cup {cur} : x <= cur
  BY <1>1, <1>3
<1>12. ASSUME NEW k \in 1..n, Ones(f, k) PROVE w[k] <= c + 1
  <2>1. r.runs[k] \in Nat /\ r.runs[k] <= c
    BY <1>1, <1>3, <1>12 DEF n
  <2> QED
    BY <1>7, <2>1
<1>13. Covers(d, w, f, S \cup {cur})
  BY <1>7, <1>10 DEF Covers
<1>14. d[Len(w)] = cur + 1 /\ Ones(f, Len(w))
  BY <1>3, <1>7, <1>8
<1>15. \A k \in 1..Len(w) : Ones(f, k) => w[k] <= c + 1
  BY <1>7, <1>12
<1> QED
  BY <1>2, <1>9, <1>11, <1>13, <1>14, <1>15 DEF RunsOf, u

\* A number behind a gap adds a run of zeroes and a new run.
LEMMA RunGap ==
  ASSUME NEW r \in RunStates, NEW f \in Bits, NEW S \in SUBSET Nat, NEW c \in Nat,
         RunsOf(r, f, S, c), NEW cur \in Nat, cur > r.prev + 1
  PROVE  RunsOf(NextRun(r, cur), f, S \cup {cur}, c + 1)
<1> DEFINE n == Len(r.runs)
           u == NextRun(r, cur)
           g == (cur - r.prev) - 1
           w == r.runs \o <<g, 1>>
<1>1. r.prev \in Nat /\ r.runs \in Seq(Nat) /\ n \in Nat /\ n >= 1
  BY RunStateIn
<1>0. g \in Nat /\ g >= 1 /\ r.prev + 1 + g = cur
  BY <1>1
<1>2. u.prev = cur /\ u.runs = w
  <2>1. cur - r.prev # 1 /\ cur - r.prev > 1
    BY <1>1
  <2> QED
    BY <2>1 DEF NextRun
<1>3. PICK e : /\ Ends(e, r.runs) /\ Covers(e, r.runs, f, S)
               /\ e[n] = r.prev + 1 /\ Ones(f, n)
               /\ \A x \in S : x <= r.prev
               /\ \A k \in 1..n : Ones(f, k) => r.runs[k] <= c
  BY DEF RunsOf
<1>4. /\ e \in [0..n -> Nat] /\ e[0] = 0
      /\ \A k \in 1..n : e[k] = e[k - 1] + r.runs[k] /\ r.runs[k] >= 1
  BY <1>3 DEF Ends
<1>5. \A k \in 1..n : \A x \in e[k - 1]..(e[k] - 1) : x \in S <=> Ones(f, k)
  BY <1>3 DEF Covers
<1>6. \A k \in 0..n : e[k] <= e[n]
  <2>1. \A k \in 0..n : n \in 0..n /\ k <= n
    BY <1>1
  <2> QED
    BY <1>1, <1>3, <2>1, EndsUp
<1> HIDE DEF u, g
<1>7. /\ w \in Seq(Nat) /\ Len(w) = n + 2 /\ w[n + 1] = g /\ w[n + 2] = 1
      /\ \A k \in 1..n : w[k] = r.runs[k]
  <2> DEFINE t == <<g, 1>>
  <2>1. t \in Seq(Nat) /\ Len(t) = 2 /\ t[1] = g /\ t[2] = 1
    BY <1>0
  <2> HIDE DEF t
  <2>2. /\ r.runs \o t \in Seq(Nat) /\ Len(r.runs \o t) = n + 2
        /\ \A k \in 1..(n + 2) : (r.runs \o t)[k] = IF k <= n THEN r.runs[k] ELSE t[k - n]
    <3>1. /\ r.runs \o t \in Seq(Nat) /\ Len(r.runs \o t) = n + Len(t)
          /\ \A k \in 1..(n + Len(t)) : (r.runs \o t)[k] = IF k <= n THEN r.runs[k] ELSE t[k - n]
      BY <1>1, <2>1, ConcatProperties
    <3> HIDE DEF n
    <3> QED
      BY <2>1, <3>1
  <2>3. /\ n + 1 \in 1..(n + 2) /\ n + 2 \in 1..(n + 2) /\ ~(n + 1 <= n) /\ ~(n + 2 <= n)
        /\ (n + 1) - n = 1 /\ (n + 2) - n = 2 /\ \A k \in 1..n : k \in 1..(n + 2) /\ k <= n
    BY <1>1
  <2> HIDE DEF n
  <2> QED
    BY <2>1, <2>2, <2>3 DEF t
<1> HIDE DEF w, n
<1> DEFINE d == [k \in 0..(n + 2) |-> IF k <= n THEN e[k] ELSE IF k = n + 1 THEN cur ELSE cur + 1]
<1>8. /\ d \in [0..(n + 2) -> Nat] /\ d[n + 1] = cur /\ d[n + 2] = cur + 1
      /\ \A k \in 0..n : d[k] = e[k]
  <2>1. /\ n + 1 \in 0..(n + 2) /\ n + 2 \in 0..(n + 2) /\ ~(n + 1 <= n) /\ ~(n + 2 <= n)
        /\ n + 2 # n + 1 /\ \A k \in 0..n : k \in 0..(n + 2) /\ k <= n
    BY <1>1
  <2>2. \A k \in 0..(n + 2) : k <= n => k \in 0..n
    BY <1>1
  <2>3. d \in [0..(n + 2) -> Nat]
    BY <1>4, <2>2
  <2> QED
    BY <2>1, <2>3
<1> HIDE DEF d
<1>9. /\ (n + 1) - 1 = n /\ (n + 2) - 1 = n + 1 /\ n \in 0..n /\ e[n] \in Nat
      /\ \A k \in 1..(n + 2) : k = n + 1 \/ k = n + 2 \/ (k \in 1..n /\ k \in 0..n /\ k - 1 \in 0..n)
  <2>1. (n + 1) - 1 = n /\ (n + 2) - 1 = n + 1 /\ n \in 0..n
    BY <1>1
  <2>3. e[n] \in Nat
    BY <1>4, <2>1
  <2>4. \A k \in 1..(n + 2) : k = n + 1 \/ k = n + 2 \/ (k \in 1..n /\ k \in 0..n /\ k - 1 \in 0..n)
    <3> SUFFICES ASSUME NEW k \in 1..(n + 2), k # n + 1, k # n + 2
                 PROVE  k \in 1..n /\ k \in 0..n /\ k - 1 \in 0..n
      OBVIOUS
    <3>1. k <= n
      BY <1>1
    <3> QED
      BY <1>1, <3>1
  <2> QED
    BY <2>1, <2>3, <2>4
<1>10. Ends(d, w)
  <2>1. d[0] = 0
    BY <1>1, <1>4, <1>8
  <2>2. ASSUME NEW k \in 1..(n + 2) PROVE d[k] = d[k - 1] + w[k] /\ w[k] >= 1
    <3>1. CASE k = n + 1
      BY <1>0, <1>1, <1>3, <1>7, <1>8, <1>9, <3>1
    <3>2. CASE k = n + 2
      BY <1>1, <1>7, <1>8, <1>9, <3>2
    <3>3. CASE k \in 1..n /\ k \in 0..n /\ k - 1 \in 0..n
      BY <1>4, <1>7, <1>8, <3>3
    <3> QED
      BY <1>9, <3>1, <3>2, <3>3
  <2> QED
    BY <1>7, <1>8, <2>1, <2>2 DEF Ends
<1>11. ~Ones(f, n + 1) /\ Ones(f, n + 2)
  <2>1. (n + 1) + 1 = n + 2 /\ n + 1 \in Nat
    BY <1>1
  <2> QED
    BY <1>1, <1>3, <2>1, OnesFlip
<1>12. ASSUME NEW k \in 1..(n + 2), NEW x \in d[k - 1]..(d[k] - 1)
       PROVE  x \in S \cup {cur} <=> Ones(f, k)
  <2>1. CASE k = n + 1
    <3>1. x \in (r.prev + 1)..(cur - 1)
      BY <1>3, <1>8, <1>9, <2>1
    <3>2. x # cur /\ ~(x <= r.prev)
      BY <1>1, <3>1
    <3> QED
      BY <1>3, <1>11, <2>1, <3>2
  <2>2. CASE k = n + 2
    <3>1. x = cur
      BY <1>8, <1>9, <2>2
    <3> QED
      BY <1>11, <2>2, <3>1
  <2>3. CASE k \in 1..n /\ k \in 0..n /\ k - 1 \in 0..n
    <3>1. x \in e[k - 1]..(e[k] - 1) /\ e[k] <= e[n] /\ e[k] \in Nat /\ e[k - 1] \in Nat
      BY <1>4, <1>6, <1>8, <2>3
    <3>2. x # cur
      BY <1>1, <1>3, <3>1
    <3> QED
      BY <1>5, <2>3, <3>1, <3>2
  <2> QED
    BY <1>9, <2>1, <2>2, <2>3
<1>13. \A x \in S \cup {cur} : x <= cur
  BY <1>1, <1>3
<1>14. ASSUME NEW k \in 1..(n + 2), Ones(f, k) PROVE w[k] <= c + 1
  <2>1. CASE k = n + 1
    BY <1>11, <1>14, <2>1
  <2>2. CASE k = n + 2
    BY <1>7, <2>2
  <2>3. CASE k \in 1..n
    <3>1. r.runs[k] \in Nat /\ r.runs[k] <= c
      BY <1>1, <1>3, <1>14, <2>3 DEF n
    <3> QED
      BY <1>7, <2>3, <3>1
  <2> QED
    BY <1>9, <2>1, <2>2, <2>3
<1>15. Covers(d, w, f, S \cup {cur})
  BY <1>7, <1>12 DEF Covers
<1>16. d[Len(w)] = cur + 1 /\ Ones(f, Len(w))
  BY <1>7, <1>8, <1>11
<1>17. \A k \in 1..Len(w) : Ones(f, k) => w[k] <= c + 1
  BY <1>7, <1>14
<1> QED
  BY <1>2, <1>10, <1>13, <1>15, <1>16, <1>17 DEF RunsOf, u

\* A repeated number is ignored.
LEMMA RunRepeat ==
  ASSUME NEW r \in RunStates, NEW f \in Bits, NEW S \in SUBSET Nat, NEW c \in Nat,
         RunsOf(r, f, S, c), NEW cur \in Nat, cur = r.prev
  PROVE  RunsOf(NextRun(r, cur), f, S \cup {cur}, c + 1)
<1> DEFINE n == Len(r.runs)
           u == NextRun(r, cur)
<1>1. r.prev \in Nat /\ r.runs \in Seq(Nat) /\ n \in Nat /\ n >= 1
  BY RunStateIn
<1>2. u.prev = r.prev /\ u.runs = r.runs
  <2>1. cur - r.prev # 1 /\ ~(cur - r.prev > 1)
    BY <1>1
  <2> QED
    BY <2>1 DEF NextRun
<1>3. PICK e : /\ Ends(e, r.runs) /\ Covers(e, r.runs, f, S)
               /\ e[n] = r.prev + 1 /\ Ones(f, n)
               /\ \A x \in S : x <= r.prev
               /\ \A k \in 1..n : Ones(f, k) => r.runs[k] <= c
  BY DEF RunsOf
<1>4. r.prev \in e[n - 1]..(e[n] - 1)
  <2>1. n - 1 \in 0..n /\ n \in 0..n /\ n \in 1..n
    BY <1>1
  <2>2. e \in [0..n -> Nat] /\ e[n] = e[n - 1] + r.runs[n] /\ r.runs[n] >= 1
    BY <1>3, <2>1 DEF Ends
  <2>0. r.runs[n] \in Nat
    BY <1>1, <2>1
  <2> HIDE DEF n
  <2>3. e[n - 1] \in Nat /\ e[n] \in Nat /\ r.runs[n] \in Nat
    BY <2>0, <2>1, <2>2
  <2> QED
    BY <1>1, <1>3, <2>2, <2>3
<1>5. S \cup {cur} = S
  <2>1. n \in 1..n
    BY <1>1
  <2>2. r.prev \in S
    BY <1>3, <1>4, <2>1 DEF Covers
  <2> QED
    BY <2>2
<1>6. ASSUME NEW k \in 1..n, Ones(f, k) PROVE r.runs[k] <= c + 1
  <2>1. r.runs[k] \in Nat
    BY <1>1
  <2>2. r.runs[k] <= c
    BY <1>3, <1>6
  <2> QED
    BY <2>1, <2>2
<1>7. \A k \in 1..Len(r.runs) : Ones(f, k) => r.runs[k] <= c + 1
  BY <1>6
<1> HIDE DEF u
<1> QED
  BY <1>2, <1>3, <1>5, <1>7 DEF RunsOf, u

\* One step of the loop (rleplus.go:188-202).
LEMMA RunStep ==
  ASSUME NEW r \in RunStates, NEW f \in Bits, NEW S \in SUBSET Nat, NEW c \in Nat,
         RunsOf(r, f, S, c), NEW cur \in Nat, r.prev <= cur
  PROVE  RunsOf(NextRun(r, cur), f, S \cup {cur}, c + 1)
<1>1. r.prev \in Nat
  BY RunStateIn
<1>2. cur = r.prev \/ cur = r.prev + 1 \/ cur > r.prev + 1
  BY <1>1
<1> QED
  BY <1>2, RunRepeat, RunNeighbour, RunGap

\* The first number (rleplus.go:176-186).
LEMMA RunFirst ==
  ASSUME NEW first \in Nat
  PROVE  LET f == IF first = 0 THEN 1 ELSE 0
             start == IF first = 0 THEN <<1>> ELSE <<first, 1>>
             r == [prev |-> first, runs |-> start]
         IN  r \in RunStates /\ f \in Bits /\ RunsOf(r, f, {first}, 1)
<1> DEFINE f == IF first = 0 THEN 1 ELSE 0
           start == IF first = 0 THEN <<1>> ELSE <<first, 1>>
           r == [prev |-> first, runs |-> start]
<1>1. start \in Seq(Nat) /\ Len(start) >= 1 /\ f \in Bits
  BY DEF Bits
<1>2. r \in RunStates /\ r.runs = start /\ r.prev = first
  <2> HIDE DEF start
  <2> QED
    BY <1>1 DEF RunStates
<1>3. RunsOf(r, f, {first}, 1)
  <2>1. CASE first = 0
    <3> DEFINE e == [k \in 0..1 |-> IF k = 0 THEN 0 ELSE 1]
    <3>1. start = <<1>> /\ f = 1
      BY <2>1
    <3>2. /\ Len(start) = 1 /\ start[1] = 1
          /\ e \in [0..1 -> Nat] /\ e[0] = 0 /\ e[1] = 1 /\ 1..1 = {1} /\ 1 - 1 = 0
      BY <3>1
    <3>3. Ones(1, 1)
      BY DEF Ones
    <3> HIDE DEF e, start, f
    <3>4. Ends(e, start)
      BY <3>2 DEF Ends
    <3>5. Covers(e, start, f, {first})
      <4>1. \A x \in 0..(1 - 1) : x = 0
        OBVIOUS
      <4> QED
        BY <2>1, <3>1, <3>2, <3>3, <4>1 DEF Covers
    <3>6. e[Len(start)] = first + 1 /\ Ones(f, Len(start))
      BY <2>1, <3>1, <3>2, <3>3
    <3>7. \A k \in 1..Len(start) : Ones(f, k) => start[k] <= 1
      BY <3>2
    <3> HIDE DEF r
    <3> QED
      BY <1>2, <3>4, <3>5, <3>6, <3>7 DEF RunsOf
  <2>2. CASE first # 0
    <3> DEFINE e == [k \in 0..2 |-> IF k = 0 THEN 0 ELSE IF k = 1 THEN first ELSE first + 1]
    <3>1. start = <<first, 1>> /\ f = 0
      BY <2>2
    <3>2. /\ Len(start) = 2 /\ start[1] = first /\ start[2] = 1
          /\ e \in [0..2 -> Nat] /\ e[0] = 0 /\ e[1] = first /\ e[2] = first + 1
          /\ 1..2 = {1, 2} /\ 1 - 1 = 0 /\ 2 - 1 = 1
      BY <3>1
    <3>3. ~Ones(0, 1) /\ Ones(0, 2)
      BY DEF Ones
    <3> HIDE DEF e, start, f
    <3>4. Ends(e, start)
      BY <2>2, <3>2 DEF Ends
    <3>5. Covers(e, start, f, {first})
      <4>1. \A x \in 0..(first - 1) : x # first
        OBVIOUS
      <4>2. \A x \in first..((first + 1) - 1) : x = first
        OBVIOUS
      <4> QED
        BY <3>1, <3>2, <3>3, <4>1, <4>2 DEF Covers
    <3>6. e[Len(start)] = first + 1 /\ Ones(f, Len(start))
      BY <3>1, <3>2, <3>3
    <3>7. \A k \in 1..Len(start) : Ones(f, k) => start[k] <= 1
      BY <3>1, <3>2, <3>3
    <3> HIDE DEF r
    <3> QED
      BY <1>2, <3>4, <3>5, <3>6, <3>7 DEF RunsOf
  <2> QED
    BY <2>1, <2>2
<1> QED
  BY <1>1, <1>2, <1>3

\* RunLengths makes runs that cover the numbers of its argument and end with
\* one of them.
LEMMA RunsEnd ==
  ASSUME NEW s \in Seq(Nat), s # <<>>
  PROVE  /\ RunLengths(s).firstBit \in Bits
         /\ \E r \in RunStates : /\ r.runs = RunLengths(s).runs /\ r.prev \in ToSet(s)
                                 /\ RunsOf(r, RunLengths(s).firstBit, ToSet(s), Len(s))
<1> DEFINE t == Sort(s)
           first == t[1]
           f == IF first = 0 THEN 1 ELSE 0
           start == IF first = 0 THEN <<1>> ELSE <<first, 1>>
           r0 == [prev |-> first, runs |-> start]
           m == Len(s) - 1
           w == Tail(t)
<1>1. t \in Seq(Nat) /\ Sorted(t) /\ Len(t) = Len(s) /\ ToSet(t) = ToSet(s)
  BY SortSorts
<1>2. Len(s) \in Nat /\ Len(s) >= 1 /\ m \in Nat /\ m + 1 = Len(s)
  <2>1. Len(s) \in Nat /\ Len(s) # 0
    BY EmptySeq
  <2> QED
    BY <2>1
<1>3. /\ RunLengths(s).firstBit = f
      /\ RunLengths(s).runs = NextRuns(r0, w).runs
  BY DEF RunLengths
<1> HIDE DEF t, m
<1>4. first \in Nat
  BY <1>1, <1>2
<1>5. r0 \in RunStates /\ f \in Bits /\ RunsOf(r0, f, {first}, 1) /\ r0.prev = first
  BY <1>4, RunFirst
<1> HIDE DEF first, f, start, r0
<1>6. w \in Seq(Nat) /\ Len(w) = m /\ \A k \in 1..m : w[k] = t[k + 1]
  <2>1. t # <<>>
    BY <1>1, <1>2
  <2>2. Len(t) - 1 = m
    BY <1>1, <1>2
  <2>3. Tail(t) \in Seq(Nat) /\ Len(Tail(t)) = Len(t) - 1 /\ \A k \in 1..(Len(t) - 1) : Tail(t)[k] = t[k + 1]
    BY <1>1, <2>1, HeadTailProperties
  <2> QED
    BY <2>2, <2>3
<1> HIDE DEF w
<1>7. PICK a : RunsBy(a, r0, w)
  BY <1>5, <1>6, NextRunsSteps
<1>8. /\ a \in [0..m -> RunStates] /\ a[0] = r0 /\ NextRuns(r0, w) = a[m]
      /\ \A k \in 1..m : a[k] = NextRun(a[k - 1], w[k])
  BY <1>6, <1>7 DEF RunsBy
<1> DEFINE N(k) == {t[i] : i \in 1..k}
           Ok(k) == a[k].prev = t[k + 1] /\ RunsOf(a[k], f, N(k + 1), k + 1)
           S == {k \in 0..m : Ok(k)}
<1>9. 0 \in S
  <2>1. 0 + 1 = 1 /\ N(1) = {first} /\ 0 \in 0..m
    BY <1>2 DEF first
  <2>2. Ok(0)
    <3>1. a[0].prev = t[0 + 1]
      BY <1>5, <1>8, <2>1 DEF first
    <3> HIDE DEF N
    <3> QED
      BY <1>5, <1>8, <2>1, <3>1
  <2> HIDE DEF Ok
  <2> QED
    BY <2>1, <2>2
<1>10. ASSUME NEW k \in 1..m, k - 1 \in S PROVE k \in S
  <2>1. /\ k - 1 \in 0..m /\ k \in 0..m /\ (k - 1) + 1 = k /\ k \in Nat
        /\ k \in 1..Len(t) /\ k + 1 \in 1..Len(t) /\ k <= k + 1
    BY <1>1, <1>2
  <2>2. Ok(k - 1)
    BY <1>10
  <2>3. a[k - 1].prev = t[k] /\ RunsOf(a[k - 1], f, N(k), k)
    <3> HIDE DEF N
    <3> QED
      BY <2>1, <2>2
  <2>4. t[k] \in Nat /\ t[k + 1] \in Nat
    BY <1>1, <2>1
  <2>5. t[k] <= t[k + 1]
    BY <1>1, <2>1 DEF Sorted
  <2>6. a[k - 1] \in RunStates /\ a[k] = NextRun(a[k - 1], t[k + 1])
    BY <1>6, <1>8, <2>1
  <2>7. N(k) \in SUBSET Nat
    BY <1>1, <2>1
  <2>8. N(k + 1) = N(k) \cup {t[k + 1]}
    <3>1. 1..(k + 1) = 1..k \cup {k + 1}
      OBVIOUS
    <3> QED
      BY <3>1
  <2> HIDE DEF N
  <2>9. RunsOf(NextRun(a[k - 1], t[k + 1]), f, N(k) \cup {t[k + 1]}, k + 1)
    BY <1>5, <2>1, <2>3, <2>4, <2>5, <2>6, <2>7, RunStep
  <2>10. NextRun(a[k - 1], t[k + 1]).prev = t[k + 1]
    BY DEF NextRun
  <2>11. Ok(k)
    BY <2>6, <2>8, <2>9, <2>10
  <2> HIDE DEF Ok
  <2> QED
    BY <2>1, <2>11
<1>11. Ok(m)
  <2>1. \A k \in 0..m : k \in S
    <3> HIDE DEF S
    <3> QED
      BY <1>2, <1>9, <1>10, InductTo
  <2>2. m \in S
    <3>1. m \in 0..m
      BY <1>2
    <3> HIDE DEF S
    <3> QED
      BY <2>1, <3>1
  <2> QED
    BY <2>2
<1>12. N(m + 1) = ToSet(s) /\ t[m + 1] \in ToSet(s)
  <2>1. ToSet(t) = {t[i] : i \in 1..Len(t)}
    BY <1>1, LenProperties DEF ToSet
  <2>2. m + 1 = Len(t) /\ m + 1 \in 1..Len(t)
    BY <1>1, <1>2
  <2> QED
    BY <1>1, <2>1, <2>2
<1>13. a[m] \in RunStates
  BY <1>2, <1>8
<1> HIDE DEF N
<1>14. RunsOf(a[m], f, ToSet(s), Len(s)) /\ a[m].prev \in ToSet(s)
  BY <1>2, <1>11, <1>12
<1> QED
  BY <1>3, <1>5, <1>8, <1>13, <1>14

\* The runs of a set of words: every number is in one of them, the last one is
\* one of ones, none is longer than a word, and a run of ones fits an int.
Layout(e, f, runs, S) ==
  /\ Ends(e, runs) /\ Covers(e, runs, f, S) /\ Ones(f, Len(runs))
  /\ \A x \in S : x < e[Len(runs)]
  /\ e[Len(runs)] <= Word
  /\ \A k \in 1..Len(runs) : runs[k] < Word /\ (Ones(f, k) => runs[k] < Word \div 2)

\* The runs of every argument of Encode (rleplus.go: RunLengths).
LEMMA RunsCover ==
  ASSUME NEW s \in Seq(0..(Word - 1)), Len(s) < Word \div 2
  PROVE  \E e : Layout(e, RunLengths(s).firstBit, RunLengths(s).runs, ToSet(s))
<1> DEFINE f == RunLengths(s).firstBit
           runs == RunLengths(s).runs
           n == Len(runs)
<1>0. s \in Seq(Nat) /\ Word \in Nat /\ Word >= 1 /\ Word \div 2 <= Word /\ Word \div 2 \in Nat
  <2>1. Word \in Nat /\ Word >= 1
    BY WordIn
  <2>2. 0..(Word - 1) \subseteq Nat
    OBVIOUS
  <2> QED
    BY <2>1, <2>2, SeqIn
<1>1. CASE s = <<>>
  <2>1. f = 0 /\ runs = <<>>
    BY <1>1 DEF RunLengths
  <2>2. Len(<<>>) = 0 /\ 1..0 = {}
    OBVIOUS
  <2>3. n = 0 /\ ToSet(s) = {}
    <3>1. ToSet(<<>>) = {}
      BY DEF ToSet
    <3> QED
      BY <1>1, <2>1, <2>2, <3>1, Zenon
  <2> DEFINE e == [k \in 0..0 |-> 0]
  <2>4. e \in [0..0 -> Nat] /\ e[0] = 0
    OBVIOUS
  <2> HIDE DEF e, f, runs
  <2>6. Ones(f, n)
    BY <2>1, <2>3 DEF Ones
  <2>5. Layout(e, f, runs, ToSet(s))
    BY <1>0, <2>2, <2>3, <2>4, <2>6 DEF Layout, Ends, Covers
  <2> QED
    BY <2>5 DEF f, runs
<1>2. CASE s # <<>>
  <2>1. PICK r \in RunStates : r.runs = runs /\ r.prev \in ToSet(s) /\ RunsOf(r, f, ToSet(s), Len(s))
    BY <1>0, <1>2, RunsEnd
  <2>2. f \in Bits
    BY <1>0, <1>2, RunsEnd
  <2> HIDE DEF f, runs
  <2>3. PICK e : /\ Ends(e, runs) /\ Covers(e, runs, f, ToSet(s))
                 /\ e[n] = r.prev + 1 /\ Ones(f, n)
                 /\ \A x \in ToSet(s) : x <= r.prev
                 /\ \A k \in 1..n : Ones(f, k) => runs[k] <= Len(s)
    BY <2>1 DEF RunsOf
  <2>4. runs \in Seq(Nat) /\ n \in Nat
    BY <2>1, RunStateIn
  <2>5. /\ e \in [0..n -> Nat]
        /\ \A k \in 1..n : e[k] = e[k - 1] + runs[k] /\ runs[k] >= 1
    BY <2>3 DEF Ends
  <2>6. ToSet(s) \subseteq 0..(Word - 1)
    <3>1. s \in [1..Len(s) -> 0..(Word - 1)]
      BY LenProperties
    <3>2. ToSet(s) = {s[i] : i \in 1..Len(s)}
      BY <3>1 DEF ToSet
    <3> QED
      BY <3>1, <3>2
  <2>7. e[n] <= Word /\ r.prev \in Nat /\ Len(s) \in Nat
    BY <1>0, <2>1, <2>3, <2>6
  <2>8. \A x \in ToSet(s) : x < e[n]
    BY <2>3, <2>6, <2>7
  <2>9. ASSUME NEW k \in 1..n PROVE runs[k] < Word /\ (Ones(f, k) => runs[k] < Word \div 2)
    <3>1. runs[k] \in Nat
      BY <2>4
    <3>2. CASE Ones(f, k)
      <4>1. runs[k] <= Len(s)
        BY <2>3, <3>2
      <4> QED
        BY <1>0, <2>7, <3>1, <4>1
    <3>3. CASE ~Ones(f, k)
      <4>1. k # n
        BY <2>3, <3>3
      <4>2. k \in 0..n /\ k - 1 \in 0..n /\ n \in 0..n /\ k <= n /\ k < n
        BY <2>4, <4>1
      <4>3. e[k] < e[n]
        BY <2>3, <2>4, <4>2, EndsUp
      <4>4. e[k] \in Nat /\ e[k - 1] \in Nat /\ e[n] \in Nat
        BY <2>5, <4>2
      <4>5. e[k] = e[k - 1] + runs[k]
        BY <2>5
      <4> QED
        BY <1>0, <2>7, <3>1, <3>3, <4>3, <4>4, <4>5
    <3> QED
      BY <3>2, <3>3
  <2>10. Layout(e, f, runs, ToSet(s))
    BY <2>3, <2>7, <2>8, <2>9 DEF Layout
  <2> QED
    BY <2>10 DEF f, runs
<1> QED
  BY <1>1, <1>2

-----------------------------------------------------------------------------
(* The bits of an encoding.                                                *)

\* The number of bits of the block of a run.
Width(run) == IF run = 1 THEN 1 ELSE IF run < 16 THEN 6 ELSE 2 + 8 * Len(PutUvarint[run])

\* The three kinds of block at a place of a vector.
SingleAt(v, p) == Get(v, p) = 1
ShortAt(v, p, run) ==
  /\ Get(v, p) = 0 /\ Get(v, p + 1) = 1
  /\ \A i \in 0..3 : Get(v, (p + 2) + i) = Bit(run, i)
LongAt(v, p, run) ==
  /\ Get(v, p) = 0 /\ Get(v, p + 1) = 0
  /\ \A j \in 1..Len(PutUvarint[run]), i \in 0..7 :
       Get(v, (p + 2) + 8 * (j - 1) + i) = Bit(PutUvarint[run][j], i)

BlockAt(v, p, run) ==
  /\ run = 1 => SingleAt(v, p)
  /\ run # 1 /\ run < 16 => ShortAt(v, p, run)
  /\ run # 1 /\ ~(run < 16) => LongAt(v, p, run)

\* A block has at least one bit.
LEMMA WidthIn ==
  ASSUME NEW run \in Nat
  PROVE  Width(run) \in Nat /\ Width(run) >= 1
<1>1. Len(PutUvarint[run]) \in Nat
  BY VarintNat
<1> QED
  BY <1>1 DEF Width

\* A block is kept by what keeps its bits.
LEMMA BlockKept ==
  ASSUME NEW u, NEW v, NEW p \in Nat, NEW run \in Nat, BlockAt(u, p, run),
         \A k \in Nat : k < p + Width(run) => Get(v, k) = Get(u, k)
  PROVE  BlockAt(v, p, run)
<1>1. CASE run = 1
  <2>1. p < p + Width(run)
    BY WidthIn
  <2> QED
    BY <1>1, <2>1 DEF BlockAt, SingleAt
<1>2. CASE run # 1 /\ run < 16
  <2>1. Width(run) = 6
    BY <1>2 DEF Width
  <2>2. p < p + 6 /\ p + 1 < p + 6 /\ p + 1 \in Nat
        /\ \A i \in 0..3 : (p + 2) + i \in Nat /\ (p + 2) + i < p + 6
    OBVIOUS
  <2>3. ShortAt(u, p, run)
    BY <1>2 DEF BlockAt
  <2>4. ShortAt(v, p, run)
    BY <2>1, <2>2, <2>3 DEF ShortAt
  <2> QED
    BY <1>2, <2>4 DEF BlockAt
<1>3. CASE run # 1 /\ ~(run < 16)
  <2> DEFINE L == Len(PutUvarint[run])
  <2>0. L \in Nat
    BY VarintNat
  <2>1. Width(run) = 2 + 8 * L
    BY <1>3 DEF Width
  <2>3. LongAt(u, p, run)
    BY <1>3 DEF BlockAt
  <2> HIDE DEF L
  <2>2. p < p + (2 + 8 * L) /\ p + 1 < p + (2 + 8 * L) /\ p + 1 \in Nat
    BY <2>0
  <2>4. ASSUME NEW j \in 1..L, NEW i \in 0..7
        PROVE  (p + 2) + 8 * (j - 1) + i \in Nat /\ (p + 2) + 8 * (j - 1) + i < p + (2 + 8 * L)
    BY <2>0
  <2>5. /\ Get(u, p) = 0 /\ Get(u, p + 1) = 0
        /\ \A j \in 1..L, i \in 0..7 : Get(u, (p + 2) + 8 * (j - 1) + i) = Bit(PutUvarint[run][j], i)
    BY <2>3 DEF LongAt, L
  <2>6. ASSUME NEW j \in 1..L, NEW i \in 0..7
        PROVE  Get(v, (p + 2) + 8 * (j - 1) + i) = Bit(PutUvarint[run][j], i)
    BY <2>1, <2>4, <2>5
  <2>7. Get(v, p) = 0 /\ Get(v, p + 1) = 0
    BY <2>1, <2>2, <2>5
  <2>8. LongAt(v, p, run)
    BY <2>6, <2>7 DEF LongAt, L
  <2> QED
    BY <1>3, <2>8 DEF BlockAt
<1> QED
  BY <1>1, <1>2, <1>3

\* Two bits behind a vector.
LEMMA PushTwo ==
  ASSUME NEW v \in Packed, NEW x \in Bits
  PROVE  LET u == Push(Push(v, 0), x) IN
         /\ u \in Packed /\ u.len = v.len + 2 /\ v.len \in Nat
         /\ \A k \in Nat : k < v.len => Get(u, k) = Get(v, k)
         /\ Get(u, v.len) = 0 /\ Get(u, v.len + 1) = x
<1> DEFINE w == Push(v, 0)
           u == Push(w, x)
<1>0. 0 \in Bits /\ v \in Vectors /\ v.packing = "LSB0" /\ v.len \in Nat
  BY DEF Bits, Packed, Vectors
<1>1. /\ w \in Vectors /\ w.len = v.len + 1 /\ w.packing = "LSB0"
      /\ \A k \in Nat : Get(w, k) = IF k = v.len THEN 0 ELSE Get(v, k)
  BY <1>0, PushVector
<1> HIDE DEF w
<1>2. /\ u \in Vectors /\ u.len = w.len + 1 /\ u.packing = "LSB0"
      /\ \A k \in Nat : Get(u, k) = IF k = w.len THEN x ELSE Get(w, k)
  BY <1>1, PushVector
<1> HIDE DEF u
<1>3. /\ u.len = v.len + 2 /\ v.len + 1 \in Nat /\ v.len # v.len + 1
      /\ \A k \in Nat : k < v.len => k # v.len /\ k # v.len + 1
  BY <1>0, <1>1, <1>2
<1>4. u \in Packed
  BY <1>2 DEF Packed
<1>5. \A k \in Nat : k < v.len => Get(u, k) = Get(v, k)
  BY <1>1, <1>2, <1>3
<1>6. Get(u, v.len) = 0 /\ Get(u, v.len + 1) = x
  BY <1>0, <1>1, <1>2, <1>3
<1> QED
  BY <1>0, <1>3, <1>4, <1>5, <1>6 DEF u, w

\* What the loop of Encode adds for a run: its block behind the others, which
\* it does not change (rleplus.go:54-74).
PushedRun(u, v, run) ==
  /\ u.len = v.len + Width(run) /\ BlockAt(u, v.len, run)
  /\ \A k \in Nat : k < v.len => Get(u, k) = Get(v, k)

\* PushRun writes the block of its run, of each of the three kinds.
LEMMA PushRunBlock ==
  ASSUME NEW v \in Packed, NEW run \in Nat
  PROVE  PushedRun(PushRun(v, run), v, run)
<1>0. /\ 0 \in Bits /\ 1 \in Bits /\ "LSB0" \in Orders /\ 4 \in 0..8
      /\ v \in Vectors /\ v.len \in Nat /\ \A i \in Int : Shift("LSB0", i) = i
  BY DEF Bits, Orders, Packed, Vectors, Shift
<1>1. CASE run = 1
  <2> DEFINE u == Push(v, 1)
  <2>1. PushRun(v, run) = u /\ Width(run) = 1
    BY <1>1 DEF PushRun, Width
  <2>2. u.len = v.len + 1 /\ \A k \in Nat : Get(u, k) = IF k = v.len THEN 1 ELSE Get(v, k)
    BY <1>0, PushVector
  <2> HIDE DEF u
  <2>3. BlockAt(u, v.len, run)
    BY <1>0, <1>1, <2>2 DEF BlockAt, SingleAt
  <2>4. \A k \in Nat : k < v.len => Get(u, k) = Get(v, k)
    BY <1>0, <2>2
  <2> QED
    BY <2>1, <2>2, <2>3, <2>4 DEF PushedRun
<1>2. CASE run # 1 /\ run < 16
  <2> DEFINE w == Push(Push(v, 0), 1)
             u == Extend(w, run, 4, "LSB0")
  <2>1. PushRun(v, run) = u /\ Width(run) = 6
    BY <1>2 DEF PushRun, Width
  <2>2. /\ w \in Vectors /\ w.len = v.len + 2
        /\ \A k \in Nat : k < v.len => Get(w, k) = Get(v, k)
        /\ Get(w, v.len) = 0 /\ Get(w, v.len + 1) = 1
    BY <1>0, PushTwo DEF Packed
  <2> HIDE DEF w
  <2>3. Extended(u, w, run, 4, "LSB0")
    BY <1>0, <2>2, ExtendVector
  <2> HIDE DEF u
  <2>4. /\ u.len = v.len + 6
        /\ \A k \in Nat : k < v.len + 2 => Get(u, k) = Get(w, k)
        /\ \A i \in 0..3 : Get(u, (v.len + 2) + i) = Bit(run, i)
    <3>1. /\ u.len = w.len + 4
          /\ \A k \in Nat : Get(u, k) =
               IF k \in w.len..(w.len + 4 - 1) THEN Bit(run, Shift("LSB0", k - w.len)) ELSE Get(w, k)
      BY <2>3 DEF Extended
    <3>2. u.len = v.len + 6
      BY <1>0, <2>2, <3>1
    <3>3. ASSUME NEW k \in Nat, k < v.len + 2 PROVE Get(u, k) = Get(w, k)
      <4>1. k \notin w.len..(w.len + 4 - 1)
        BY <1>0, <2>2, <3>3
      <4> QED
        BY <3>1, <4>1
    <3>4. ASSUME NEW i \in 0..3 PROVE Get(u, (v.len + 2) + i) = Bit(run, i)
      <4>1. /\ (v.len + 2) + i \in Nat /\ (v.len + 2) + i \in w.len..(w.len + 4 - 1)
            /\ ((v.len + 2) + i) - w.len = i /\ i \in Int
        BY <1>0, <2>2
      <4> QED
        BY <1>0, <3>1, <4>1
    <3> QED
      BY <3>2, <3>3, <3>4
  <2>5. /\ v.len < v.len + 2 /\ v.len + 1 < v.len + 2 /\ v.len + 1 \in Nat
        /\ \A k \in Nat : k < v.len => k < v.len + 2
    BY <1>0
  <2>6. ShortAt(u, v.len, run)
    BY <1>0, <2>2, <2>4, <2>5 DEF ShortAt
  <2>7. \A k \in Nat : k < v.len => Get(u, k) = Get(v, k)
    BY <2>2, <2>4, <2>5
  <2> QED
    BY <1>2, <2>1, <2>4, <2>6, <2>7 DEF PushedRun, BlockAt
<1>3. CASE run # 1 /\ ~(run < 16)
  <2> DEFINE w == Push(Push(v, 0), 0)
             bs == PutUvarint[run]
             u == ExtendAll(w, bs, "LSB0")
  <2>1. PushRun(v, run) = u /\ Width(run) = 2 + 8 * Len(bs)
    BY <1>3 DEF PushRun, Width
  <2>2. /\ w \in Vectors /\ w.len = v.len + 2
        /\ \A k \in Nat : k < v.len => Get(w, k) = Get(v, k)
        /\ Get(w, v.len) = 0 /\ Get(w, v.len + 1) = 0
    BY <1>0, PushTwo DEF Packed
  <2>3. bs \in Seq(Byte) /\ Len(bs) \in Nat
    BY PutUvarintIn, VarintNat
  <2> HIDE DEF w, bs
  <2>4. /\ u.len = w.len + 8 * Len(bs)
        /\ \A k \in Nat : k < w.len => Get(u, k) = Get(w, k)
        /\ \A j \in 1..Len(bs), i \in 0..7 :
             Get(u, w.len + 8 * (j - 1) + i) = Bit(bs[j], Shift("LSB0", i))
    <3>1. w \in Vectors /\ "LSB0" \in Orders
      BY <1>0, <2>2
    <3> QED
      BY <2>3, <3>1, ExtendAllVector
  <2> HIDE DEF u
  <2>5. /\ u.len = v.len + (2 + 8 * Len(bs))
        /\ v.len < w.len /\ v.len + 1 < w.len /\ v.len + 1 \in Nat
        /\ \A k \in Nat : k < v.len => k < w.len
    <3>1. v.len \in Nat /\ w.len = v.len + 2 /\ u.len = w.len + 8 * Len(bs) /\ Len(bs) \in Nat
      BY <1>0, <2>2, <2>3, <2>4
    <3>2. \A l, m \in Nat : (l + 2) + 8 * m = l + (2 + 8 * m)
      OBVIOUS
    <3>3. u.len = v.len + (2 + 8 * Len(bs))
      BY <3>1, <3>2
    <3>4. \A k \in Nat : k < v.len => k < v.len + 2
      BY <3>1
    <3>5. v.len < v.len + 2 /\ v.len + 1 < v.len + 2 /\ v.len + 1 \in Nat
      BY <3>1
    <3> QED
      BY <3>1, <3>3, <3>4, <3>5
  <2>6. ASSUME NEW j \in 1..Len(bs), NEW i \in 0..7
        PROVE  Get(u, (v.len + 2) + 8 * (j - 1) + i) = Bit(bs[j], i)
    <3>1. Get(u, w.len + 8 * (j - 1) + i) = Bit(bs[j], Shift("LSB0", i))
      BY <2>4
    <3>2. Shift("LSB0", i) = i
      BY <1>0
    <3> QED
      BY <2>2, <3>1, <3>2
  <2>7. LongAt(u, v.len, run)
    BY <1>0, <2>2, <2>4, <2>5, <2>6 DEF LongAt, bs
  <2>8. \A k \in Nat : k < v.len => Get(u, k) = Get(v, k)
    BY <2>2, <2>4, <2>5
  <2> QED
    BY <1>3, <2>1, <2>5, <2>7, <2>8 DEF PushedRun, BlockAt
<1> QED
  BY <1>1, <1>2, <1>3

\* The bits of an encoding: version, first bit, blocks, and zeroes behind them;
\* the first k blocks end at p[k].
Written(p, v, firstBit, runs) ==
  /\ p \in [0..Len(runs) -> Nat] /\ p[0] = 3
  /\ Get(v, 0) = 0 /\ Get(v, 1) = 0 /\ Get(v, 2) = firstBit
  /\ \A k \in 1..Len(runs) : p[k] = p[k - 1] + Width(runs[k]) /\ BlockAt(v, p[k - 1], runs[k])
  /\ \A i \in Nat : i >= p[Len(runs)] => Get(v, i) = 0

\* The header (rleplus.go:50-52).
LEMMA HeaderBits ==
  ASSUME NEW f \in Bits
  PROVE  LET header == Push(Extend(NewVector("LSB0"), Version, 2, "LSB0"), f) IN
         /\ header \in Packed /\ header.len = 3
         /\ Get(header, 0) = 0 /\ Get(header, 1) = 0 /\ Get(header, 2) = f
<1> DEFINE z == NewVector("LSB0")
           w == Extend(z, Version, 2, "LSB0")
           header == Push(w, f)
<1>1. z \in Vectors /\ z.packing = "LSB0" /\ z.len = 0 /\ "LSB0" \in Orders /\ 2 \in 0..8 /\ Version \in Nat
  BY EmptyVector DEF NewVector, Orders, Version
<1> HIDE DEF z
<1>2. w \in Vectors /\ Extended(w, z, Version, 2, "LSB0")
  BY <1>1, ExtendVector
<1> HIDE DEF w
<1>3. w.len = 2 /\ w.packing = "LSB0" /\ Get(w, 0) = 0 /\ Get(w, 1) = 0
  <2>1. /\ w.len = 0 + 2 /\ w.packing = "LSB0"
        /\ \A k \in Nat : Get(w, k) =
             IF k \in 0..(0 + 2 - 1) THEN Bit(Version, Shift("LSB0", k - 0)) ELSE Get(z, k)
    BY <1>1, <1>2 DEF Extended
  <2>2. Bit(Version, Shift("LSB0", 0 - 0)) = 0 /\ Bit(Version, Shift("LSB0", 1 - 0)) = 0
    <3>1. Shift("LSB0", 0 - 0) = 0 /\ Shift("LSB0", 1 - 0) = 1 /\ 2^0 = 1 /\ 2^1 = 2
      BY Powers DEF Shift
    <3>2. (0 \div 1) % 2 = 0 /\ (0 \div 2) % 2 = 0
      OBVIOUS
    <3> QED
      BY <3>1, <3>2 DEF Bit, Version
  <2>3. 0 \in 0..(0 + 2 - 1) /\ 1 \in 0..(0 + 2 - 1) /\ 0 \in Nat /\ 1 \in Nat /\ 0 + 2 = 2
    OBVIOUS
  <2> QED
    BY <2>1, <2>2, <2>3
<1>4. /\ header \in Vectors /\ header.len = 2 + 1 /\ header.packing = "LSB0"
      /\ \A k \in Nat : Get(header, k) = IF k = 2 THEN f ELSE Get(w, k)
  BY <1>2, <1>3, PushVector
<1> HIDE DEF header
<1>5. header \in Packed
  BY <1>4 DEF Packed
<1>6. header.len = 3 /\ 0 \in Nat /\ 1 \in Nat /\ 2 \in Nat /\ 0 # 2 /\ 1 # 2
  BY <1>4
<1> QED
  BY <1>3, <1>4, <1>5, <1>6 DEF header, w, z

\* What Encode writes (rleplus.go: Encode).
LEMMA EncodeWritten ==
  ASSUME NEW s \in Seq(Nat)
  PROVE  /\ EncodeInts(s) \in Packed /\ EncodeInts(s).buf # <<>>
         /\ \E p : Written(p, EncodeInts(s), RunLengths(s).firstBit, RunLengths(s).runs)
<1> DEFINE f == RunLengths(s).firstBit
           runs == RunLengths(s).runs
           n == Len(runs)
           header == Push(Extend(NewVector("LSB0"), Version, 2, "LSB0"), f)
           v == EncodeInts(s)
<1>1. runs \in Seq(Nat) /\ f \in Bits /\ n \in Nat
  BY RunLengthsIn
<1>2. v = PushRuns(header, runs)
  BY DEF EncodeInts
<1>3. v \in Packed
  BY EncodeIn
<1> HIDE DEF f, runs, v
<1>4. /\ header \in Packed /\ header.len = 3
      /\ Get(header, 0) = 0 /\ Get(header, 1) = 0 /\ Get(header, 2) = f
  BY <1>1, HeaderBits
<1> HIDE DEF header
<1>5. PICK a : PushedBy(a, header, runs)
  BY <1>1, <1>4, PushRunsSteps
<1>6. /\ a \in [0..n -> Packed] /\ a[0] = header /\ v = a[n]
      /\ \A k \in 1..n : a[k] = PushRun(a[k - 1], runs[k])
  BY <1>2, <1>5 DEF PushedBy
<1> HIDE DEF n
<1>7. ASSUME NEW k \in 1..n
      PROVE  /\ PushedRun(a[k], a[k - 1], runs[k]) /\ runs[k] \in Nat
             /\ a[k] \in Packed /\ a[k - 1] \in Packed /\ k - 1 \in 0..n /\ k \in 0..n
  <2>1. k - 1 \in 0..n /\ k \in 0..n
    BY <1>1
  <2>2. runs[k] \in Nat
    BY <1>1 DEF n
  <2>3. a[k] \in Packed /\ a[k - 1] \in Packed /\ a[k] = PushRun(a[k - 1], runs[k])
    BY <1>6, <2>1
  <2>4. PushedRun(PushRun(a[k - 1], runs[k]), a[k - 1], runs[k])
    BY <2>2, <2>3, PushRunBlock
  <2> QED
    BY <2>1, <2>2, <2>3, <2>4
<1> DEFINE p == [k \in 0..n |-> a[k].len]
<1>8. p \in [0..n -> Nat] /\ (\A k \in 0..n : p[k] = a[k].len) /\ p[0] = 3
  <2>1. \A u \in Packed : u.len \in Nat
    BY DEF Packed, Vectors
  <2>2. 0 \in 0..n
    BY <1>1
  <2> QED
    BY <1>4, <1>6, <2>1, <2>2
<1> HIDE DEF p
<1>9. ASSUME NEW k \in 1..n PROVE p[k] = p[k - 1] + Width(runs[k])
  BY <1>7, <1>8 DEF PushedRun
<1> DEFINE Ok(k) == /\ p[k] >= 3
                    /\ Get(a[k], 0) = 0 /\ Get(a[k], 1) = 0 /\ Get(a[k], 2) = f
                    /\ \A j \in 1..k : BlockAt(a[k], p[j - 1], runs[j]) /\ p[j] <= p[k]
           S == {k \in 0..n : Ok(k)}
<1>10. 0 \in S
  <2>1. 0 \in 0..n /\ 1..0 = {}
    BY <1>1
  <2>2. Ok(0)
    BY <1>4, <1>6, <1>8, <2>1
  <2> HIDE DEF Ok
  <2> QED
    BY <2>1, <2>2
<1>11. ASSUME NEW k \in 1..n, k - 1 \in S PROVE k \in S
  <2>1. Ok(k - 1)
    BY <1>11
  <2>2. /\ PushedRun(a[k], a[k - 1], runs[k]) /\ runs[k] \in Nat
        /\ k - 1 \in 0..n /\ k \in 0..n
    BY <1>7
  <2>3. /\ p[k] = p[k - 1] + Width(runs[k]) /\ p[k - 1] \in Nat /\ p[k] \in Nat
        /\ Width(runs[k]) \in Nat /\ Width(runs[k]) >= 1 /\ p[k - 1] = a[k - 1].len
    BY <1>8, <1>9, <2>2, WidthIn
  <2>4. p[k - 1] <= p[k] /\ p[k] >= 3 /\ p[k - 1] >= 3
    BY <2>1, <2>3
  <2>5. \A i \in Nat : i < p[k - 1] => Get(a[k], i) = Get(a[k - 1], i)
    BY <2>2, <2>3 DEF PushedRun
  <2>6. Get(a[k], 0) = 0 /\ Get(a[k], 1) = 0 /\ Get(a[k], 2) = f
    <3>1. 0 < p[k - 1] /\ 1 < p[k - 1] /\ 2 < p[k - 1] /\ 0 \in Nat /\ 1 \in Nat /\ 2 \in Nat
      BY <2>3, <2>4
    <3> QED
      BY <2>1, <2>5, <3>1
  <2>7. ASSUME NEW j \in 1..k PROVE BlockAt(a[k], p[j - 1], runs[j]) /\ p[j] <= p[k]
    <3>1. CASE j = k
      BY <2>2, <2>3, <3>1 DEF PushedRun
    <3>2. CASE j # k
      <4>1. j \in 1..(k - 1) /\ j \in 1..n /\ j - 1 \in 0..n /\ j \in 0..n
        BY <1>1, <3>2
      <4>2. BlockAt(a[k - 1], p[j - 1], runs[j]) /\ p[j] <= p[k - 1]
        BY <2>1, <4>1
      <4>3. p[j - 1] \in Nat /\ p[j] \in Nat /\ runs[j] \in Nat /\ p[j] = p[j - 1] + Width(runs[j])
        BY <1>7, <1>8, <1>9, <4>1
      <4>4. \A i \in Nat : i < p[j - 1] + Width(runs[j]) => Get(a[k], i) = Get(a[k - 1], i)
        <5>1. \A i \in Nat : i < p[j] => i < p[k - 1]
          BY <2>3, <4>2, <4>3
        <5> QED
          BY <2>5, <4>3, <5>1
      <4>5. BlockAt(a[k], p[j - 1], runs[j])
        BY <4>2, <4>3, <4>4, BlockKept
      <4> QED
        BY <2>3, <2>4, <4>2, <4>3, <4>5
    <3> QED
      BY <3>1, <3>2
  <2>8. Ok(k)
    BY <2>4, <2>6, <2>7
  <2> HIDE DEF Ok
  <2> QED
    BY <2>2, <2>8
<1>12. Ok(n)
  <2>1. n \in 0..n
    BY <1>1
  <2>2. n \in S
    <3> HIDE DEF S
    <3>1. \A k \in 0..n : k \in S
      BY <1>1, <1>10, <1>11, InductTo
    <3> QED
      BY <2>1, <3>1
  <2> QED
    BY <2>2
<1>15. p[n] = v.len /\ Readable(v)
  <2>1. n \in 0..n
    BY <1>1
  <2> QED
    BY <1>3, <1>6, <1>8, <2>1, ReadableVectors DEF Packed
<1>13. \A i \in Nat : i >= p[n] => Get(v, i) = 0
  BY <1>15, GetIn
<1>14. Written(p, v, f, runs)
  BY <1>6, <1>8, <1>9, <1>12, <1>13 DEF Written, n
<1>16. v.buf # <<>>
  <2>1. v.len >= 3 /\ v.len \in Nat /\ Len(v.buf) = (v.len + 7) \div 8
    BY <1>3, <1>12, <1>15 DEF Packed, Vectors
  <2>2. Len(v.buf) # 0 /\ Len(<<>>) = 0
    BY <2>1
  <2> QED
    BY <2>2
<1> QED
  BY <1>3, <1>14, <1>16 DEF v, f, runs

\* Decode sees the bits of the vector, although it does not know its length.
LEMMA SameBits ==
  ASSUME NEW v \in Packed, NEW i \in Nat
  PROVE  Get(NewBitVector(v.buf, "LSB0"), i) = Get(v, i)
<1> DEFINE u == NewBitVector(v.buf, "LSB0")
<1>1. /\ v.buf \in Seq(Byte) /\ v.len \in Nat /\ v.packing = "LSB0" /\ Len(v.buf) \in Nat
      /\ Len(v.buf) = (v.len + 7) \div 8
      /\ \A k \in v.len..(8 * Len(v.buf) - 1) : At(v, k) = 0
  BY DEF Packed, Vectors
<1>2. u.buf = v.buf /\ u.len = 8 * Len(v.buf) /\ u.packing = "LSB0"
  BY DEF NewBitVector
<1> HIDE DEF u
<1>3. At(u, i) = At(v, i)
  BY <1>1, <1>2 DEF At
<1>4. Get(u, i) = IF i >= u.len THEN 0 ELSE At(u, i)
  BY DEF Get, At
<1>5. Get(v, i) = IF i >= v.len THEN 0 ELSE At(v, i)
  BY DEF Get, At
<1>6. v.len <= 8 * Len(v.buf)
  BY <1>1
<1>7. CASE i >= 8 * Len(v.buf)
  <2>1. i >= v.len
    BY <1>1, <1>6, <1>7
  <2> QED
    BY <1>2, <1>4, <1>5, <1>7, <2>1 DEF u
<1>8. CASE ~(i >= 8 * Len(v.buf)) /\ i >= v.len
  <2>1. i \in v.len..(8 * Len(v.buf) - 1)
    BY <1>1, <1>8
  <2> QED
    BY <1>1, <1>2, <1>3, <1>4, <1>5, <1>8, <2>1 DEF u
<1>9. CASE ~(i >= 8 * Len(v.buf)) /\ ~(i >= v.len)
  BY <1>2, <1>3, <1>4, <1>5, <1>9 DEF u
<1> QED
  BY <1>7, <1>8, <1>9

\* What Decode reads is what Encode wrote.
LEMMA EncodeRead ==
  ASSUME NEW s \in Seq(Nat)
  PROVE  \E p : Written(p, NewBitVector(EncodeInts(s).buf, "LSB0"),
                        RunLengths(s).firstBit, RunLengths(s).runs)
<1> DEFINE v == EncodeInts(s)
           u == NewBitVector(v.buf, "LSB0")
           f == RunLengths(s).firstBit
           runs == RunLengths(s).runs
<1>1. v \in Packed /\ \E p : Written(p, v, f, runs)
  BY EncodeWritten
<1>2. runs \in Seq(Nat)
  BY RunLengthsIn
<1> HIDE DEF v, f, runs
<1>3. \A i \in Nat : Get(u, i) = Get(v, i)
  BY <1>1, SameBits
<1> HIDE DEF u
<1>4. PICK p : Written(p, v, f, runs)
  BY <1>1
<1>5. /\ p \in [0..Len(runs) -> Nat] /\ p[0] = 3
      /\ Get(v, 0) = 0 /\ Get(v, 1) = 0 /\ Get(v, 2) = f
      /\ \A k \in 1..Len(runs) : p[k] = p[k - 1] + Width(runs[k]) /\ BlockAt(v, p[k - 1], runs[k])
      /\ \A i \in Nat : i >= p[Len(runs)] => Get(v, i) = 0
  BY <1>4 DEF Written
<1>6. ASSUME NEW k \in 1..Len(runs) PROVE BlockAt(u, p[k - 1], runs[k])
  <2>1. k - 1 \in 0..Len(runs) /\ runs[k] \in Nat
    BY <1>2
  <2>2. p[k - 1] \in Nat
    BY <1>5, <2>1
  <2> QED
    BY <1>3, <1>5, <2>1, <2>2, BlockKept
<1>7. Get(u, 0) = 0 /\ Get(u, 1) = 0 /\ Get(u, 2) = f
  BY <1>3, <1>5
<1>8. Written(p, u, f, runs)
  BY <1>3, <1>5, <1>6, <1>7 DEF Written
<1> QED
  BY <1>8 DEF u, v, f, runs

-----------------------------------------------------------------------------
(* What Decode reads.                                                      *)

\* Two zeroes are the version.
LEMMA TakeTwo ==
  ASSUME NEW v, Readable(v), NEW index \in Nat, Get(v, index) = 0, Get(v, index + 1) = 0
  PROVE  Take(v, index, 2, "LSB0") = 0
<1>0. "LSB0" \in Orders /\ 2 \in 0..8
  BY DEF Orders
<1>1. PICK a : TakenBy(a, v, index, 2, "LSB0")
  BY <1>0, TakeSteps
<1>2. /\ a[1] = a[0] + Get(v, index + 1 - 1) * 2^Shift("LSB0", 1 - 1) /\ a[0] = 0
      /\ a[2] = a[1] + Get(v, index + 2 - 1) * 2^Shift("LSB0", 2 - 1)
      /\ Take(v, index, 2, "LSB0") = a[2]
  BY <1>1 DEF TakenBy
<1>3. /\ index + 1 - 1 = index /\ index + 2 - 1 = index + 1
      /\ 2^Shift("LSB0", 1 - 1) = 1 /\ 2^Shift("LSB0", 2 - 1) = 2
  BY Powers DEF Shift
<1> QED
  BY <1>2, <1>3

\* The four bits of a short block are its run.
LEMMA TakeFour ==
  ASSUME NEW v, Readable(v), NEW index \in Nat, NEW run \in 0..15,
         \A i \in 0..3 : Get(v, index + i) = Bit(run, i)
  PROVE  Take(v, index, 4, "LSB0") = run
<1>0. "LSB0" \in Orders /\ 4 \in 0..8
  BY DEF Orders
<1>1. PICK a : TakenBy(a, v, index, 4, "LSB0")
  BY <1>0, TakeSteps
<1>2. ASSUME NEW k \in 0..3 PROVE a[k + 1] = a[k] + Bit(run, k) * 2^k
  <2>1. k + 1 \in 1..4 /\ (k + 1) - 1 = k /\ index + (k + 1) - 1 = index + k
    OBVIOUS
  <2>2. a[k + 1] = a[(k + 1) - 1] + Get(v, index + (k + 1) - 1) * 2^Shift("LSB0", (k + 1) - 1)
    BY <1>1, <2>1 DEF TakenBy
  <2>3. Shift("LSB0", k) = k
    BY DEF Shift
  <2> QED
    BY <2>1, <2>2, <2>3
<1>3. a[0] = 0 /\ a[4] = Take(v, index, 4, "LSB0")
  BY <1>1 DEF TakenBy
<1>4. /\ Bit(run, 0) = (run \div 1) % 2 /\ Bit(run, 1) = (run \div 2) % 2
      /\ Bit(run, 2) = (run \div 4) % 2 /\ Bit(run, 3) = (run \div 8) % 2
  BY Powers DEF Bit
<1>5. /\ a[1] = a[0] + Bit(run, 0) * 1 /\ a[2] = a[1] + Bit(run, 1) * 2
      /\ a[3] = a[2] + Bit(run, 2) * 4 /\ a[4] = a[3] + Bit(run, 3) * 8
  BY <1>2, Powers
<1>6. run = ((run \div 1) % 2) + 2 * ((run \div 2) % 2) + 4 * ((run \div 4) % 2) + 8 * ((run \div 8) % 2)
  OBVIOUS
<1> QED
  BY <1>3, <1>4, <1>5, <1>6

\* A run of ones is appended to the numbers.
LEMMA AppendRun ==
  ASSUME NEW o \in Seq(Nat), Increasing(o), NEW a \in Nat, NEW m \in Nat, \A x \in ToSet(o) : x < a,
         NEW r, r = [j \in 1..m |-> a + j - 1]
  PROVE  Increasing(o \o r) /\ ToSet(o \o r) = ToSet(o) \cup (a..(a + m - 1))
<1> DEFINE q == o \o r
           l == Len(o)
<1>1. r \in Seq(Nat) /\ Len(r) = m /\ \A j \in 1..m : r[j] = a + j - 1
  <2>1. \A j \in 1..m : a + j - 1 \in Nat
    OBVIOUS
  <2> QED
    BY <2>1
<1>2. l \in Nat /\ \A j \in 1..l : o[j] \in Nat
  OBVIOUS
<1>3. /\ q \in Seq(Nat) /\ Len(q) = l + m
      /\ \A j \in 1..(l + m) : q[j] = IF j <= l THEN o[j] ELSE r[j - l]
  BY <1>1, ConcatProperties
<1>4. ToSet(o) = {o[j] : j \in 1..l} /\ ToSet(q) = {q[j] : j \in 1..(l + m)}
  <2>1. DOMAIN o = 1..l /\ DOMAIN q = 1..(l + m)
    BY <1>3, LenProperties
  <2> HIDE DEF q, l
  <2> QED
    BY <2>1 DEF ToSet
<1> HIDE DEF q, l
<1>5. ASSUME NEW j \in 2..(l + m) PROVE q[j - 1] < q[j]
  <2>0. j \in 1..(l + m) /\ j - 1 \in 1..(l + m)
    BY <1>2
  <2>1. CASE j <= l
    <3>1. j \in 2..l /\ j - 1 <= l
      BY <1>2, <2>1
    <3>2. o[j - 1] < o[j]
      BY <3>1 DEF Increasing, l
    <3> QED
      BY <1>3, <2>0, <2>1, <3>1, <3>2
  <2>2. CASE j = l + 1
    <3>1. j - 1 \in 1..l /\ j - 1 <= l /\ ~(j <= l) /\ j - l = 1 /\ 1 \in 1..m
      BY <1>2, <2>2
    <3>2. o[j - 1] < a
      BY <1>4, <3>1
    <3>3. r[1] = a
      BY <1>1, <3>1
    <3>4. q[j - 1] = o[j - 1] /\ q[j] = r[1]
      BY <1>3, <2>0, <3>1
    <3> QED
      BY <3>2, <3>3, <3>4
  <2>3. CASE j > l + 1
    <3>1. /\ ~(j - 1 <= l) /\ ~(j <= l) /\ (j - 1) - l \in 1..m /\ j - l \in 1..m
      BY <1>2, <2>3
    <3>2. r[(j - 1) - l] = a + ((j - 1) - l) - 1 /\ r[j - l] = a + (j - l) - 1
      BY <1>1, <3>1
    <3>3. a + ((j - 1) - l) - 1 < a + (j - l) - 1
      BY <1>2
    <3>4. q[j - 1] = r[(j - 1) - l] /\ q[j] = r[j - l]
      BY <1>3, <2>0, <3>1
    <3> QED
      BY <3>2, <3>3, <3>4
  <2> QED
    BY <1>2, <2>1, <2>2, <2>3
<1>6. ASSUME NEW j \in 1..(l + m) PROVE q[j] \in ToSet(o) \cup (a..(a + m - 1))
  <2>1. CASE j <= l
    <3>1. j \in 1..l
      BY <1>2, <2>1
    <3> QED
      BY <1>3, <1>4, <2>1, <3>1
  <2>2. CASE ~(j <= l)
    <3>1. j - l \in 1..m
      BY <1>2, <2>2
    <3>2. a + (j - l) - 1 \in a..(a + m - 1)
      BY <3>1
    <3> QED
      BY <1>1, <1>3, <2>2, <3>1, <3>2
  <2> QED
    BY <2>1, <2>2
<1>7. ASSUME NEW j \in 1..l PROVE o[j] \in ToSet(q)
  <2>1. j \in 1..(l + m) /\ j <= l
    BY <1>2
  <2> QED
    BY <1>3, <1>4, <2>1
<1>8. ASSUME NEW x \in a..(a + m - 1) PROVE x \in ToSet(q)
  <2> DEFINE j == (x - a) + 1
  <2>1. j \in 1..m /\ l + j \in 1..(l + m) /\ ~(l + j <= l) /\ (l + j) - l = j /\ a + j - 1 = x
    BY <1>2
  <2> HIDE DEF j
  <2>2. q[l + j] = x
    BY <1>1, <1>3, <2>1
  <2> QED
    BY <1>4, <2>1, <2>2
<1>9. Increasing(q)
  BY <1>3, <1>5 DEF Increasing
<1>10. ToSet(q) = ToSet(o) \cup (a..(a + m - 1))
  BY <1>4, <1>6, <1>7, <1>8
<1> QED
  BY <1>9, <1>10 DEF q

\* An index modulo the word, when the run was converted to a signed word.
LEMMA WordDown ==
  ASSUME NEW y \in 1..Word
  PROVE  (y - Word) % Word = y % Word
<1>1. Word \in Nat /\ Word >= 1
  BY WordIn
<1>2. CASE y = Word
  <2>1. y - Word = 0 /\ 0 % Word = 0 /\ Word % Word = 0
    BY <1>1, <1>2
  <2> QED
    BY <1>2, <2>1
<1>3. CASE y < Word
  <2>1. y % Word = y
    BY <1>1, <1>3
  <2>2. (y - Word) % Word = y
    BY <1>1, <1>3
  <2> QED
    BY <2>1, <2>2
<1> QED
  BY <1>1, <1>2, <1>3

-----------------------------------------------------------------------------
(* The inductive invariant.                                                *)

First == RunLengths(ints).firstBit
Runs == RunLengths(ints).runs
Read == NewBitVector(buf, "LSB0")

\* The blocks of the runs end at p, and the numbers of the runs at e.
Plan(p, e) == Written(p, Read, First, Runs) /\ Layout(e, First, Runs, ToSet(ints))

\* Decode has emitted the first k runs: exactly the numbers in front of e[k].
Progress(e, k) ==
  /\ k \in 0..Len(Runs)
  /\ curBit = 1 <=> Ones(First, k + 1)
  /\ curIdx = e[k] % Word
  /\ Increasing(out) /\ ToSet(out) = {x \in ToSet(ints) : x < e[k]}

\* Decode is in front of a block, or behind the last one.
AtBlock == \E p, e, k : Plan(p, e) /\ Progress(e, k) /\ cursor = p[k]

\* Decode is in front of a byte of the varint of a long block, the bytes before
\* which it has, or behind the end.
InVarint(p, k) ==
  /\ cursor = (p[k] + 2) + 8 * Len(varint)
  /\ k = Len(Runs) => Len(varint) = 0
  /\ k # Len(Runs) =>
       LET bs == PutUvarint[Runs[k + 1]] IN
       /\ ~(Runs[k + 1] < 16) /\ Len(varint) < Len(bs)
       /\ \A j \in 1..Len(varint) : varint[j] = bs[j]
AtVarint == \E p, e, k : Plan(p, e) /\ Progress(e, k) /\ InVarint(p, k)

RoundInv ==
  ~raw =>
    /\ ints \in Inputs /\ phase \notin {"wrong version", "error"}
    /\ phase \in {"encode", "header"} => Len(out) = 0 /\ curIdx = 0 /\ cursor = 0
    /\ phase = "header" => buf = EncodeInts(ints).buf
    /\ phase = "block" => AtBlock
    /\ phase = "varint" => AtVarint
    /\ phase = "done" => ToSet(out) = ToSet(ints) /\ Increasing(out)

\* The next run.
LEMMA RunFacts ==
  ASSUME StateIn, NEW p, NEW e, NEW k, Plan(p, e), Progress(e, k), k # Len(Runs)
  PROVE  /\ k \in 0..Len(Runs) /\ k + 1 \in 0..Len(Runs) /\ k + 1 \in 1..Len(Runs) /\ k \in Nat
         /\ Runs[k + 1] \in Nat /\ Runs[k + 1] >= 1 /\ Runs[k + 1] < Word
         /\ Ones(First, k + 1) => Runs[k + 1] < Word \div 2
         /\ e[k] \in Nat /\ e[k + 1] = e[k] + Runs[k + 1] /\ e[k + 1] <= Word /\ curIdx = e[k]
         /\ \A x \in e[k]..(e[k + 1] - 1) : x \in ToSet(ints) <=> Ones(First, k + 1)
         /\ p[k] \in Nat /\ p[k + 1] = p[k] + Width(Runs[k + 1])
         /\ BlockAt(Read, p[k], Runs[k + 1])
         /\ curBit = 1 <=> Ones(First, k + 1)
<1> DEFINE n == Len(Runs)
           run == Runs[k + 1]
<1>1. Runs \in Seq(Nat) /\ n \in Nat /\ Word \in Nat
  <2>1. ints \in Seq(Nat)
    BY DEF StateIn
  <2> QED
    BY <2>1, RunLengthsIn, WordIn DEF Runs
<1>2. /\ k \in 0..n /\ k \in Nat /\ k + 1 \in 0..n /\ k + 1 \in 1..n
      /\ (k + 1) - 1 = k /\ n \in 0..n /\ k + 1 <= n
  <2>1. k \in 0..n
    BY DEF Progress
  <2> HIDE DEF n
  <2> QED
    BY <1>1, <2>1 DEF n
<1>3. run \in Nat
  BY <1>1, <1>2
<1>4. /\ Ends(e, Runs) /\ Covers(e, Runs, First, ToSet(ints))
      /\ e[n] <= Word /\ run < Word /\ (Ones(First, k + 1) => run < Word \div 2)
  BY <1>2 DEF Plan, Layout
<1>5. /\ e \in [0..n -> Nat] /\ e[k + 1] = e[k] + run /\ run >= 1
  BY <1>2, <1>4 DEF Ends
<1>6. e[k + 1] <= e[n]
  BY <1>1, <1>2, <1>4, EndsUp
<1>7. \A x \in e[k]..(e[k + 1] - 1) : x \in ToSet(ints) <=> Ones(First, k + 1)
  BY <1>2, <1>4 DEF Covers
<1>8. /\ p \in [0..n -> Nat] /\ p[k + 1] = p[k] + Width(run) /\ BlockAt(Read, p[k], run)
  BY <1>2 DEF Plan, Written
<1>9. curIdx = e[k] % Word /\ (curBit = 1 <=> Ones(First, k + 1))
  BY DEF Progress
<1> HIDE DEF run, n
<1>10. e[k] \in Nat /\ p[k] \in Nat /\ e[n] \in Nat /\ e[k + 1] \in Nat
  BY <1>2, <1>5, <1>8
<1>11. e[k + 1] <= Word /\ e[k] \in 0..(Word - 1)
  BY <1>1, <1>3, <1>4, <1>5, <1>6, <1>10
<1>12. curIdx = e[k]
  BY <1>9, <1>11, WordIn
<1> QED
  BY <1>2, <1>3, <1>4, <1>5, <1>7, <1>8, <1>9, <1>10, <1>11, <1>12 DEF run, n

\* A run that is read is emitted: its numbers, if it is one of ones; a run of
\* zeroes may have become negative, which the index does not notice
\* (rleplus.go:144-150).
LEMMA EmitRun ==
  ASSUME StateIn, NEW p, NEW e, NEW k, Plan(p, e), Progress(e, k), k # Len(Runs),
         NEW x \in Int, Emit(x), UNCHANGED <<ints, buf>>,
         x = Runs[k + 1] \/ (x = Runs[k + 1] - Word /\ ~Ones(First, k + 1))
  PROVE  Plan(p, e)' /\ Progress(e, k + 1)'
<1> DEFINE run == Runs[k + 1]
           b == e[k + 1]
<1>1. Plan(p, e)' /\ Runs' = Runs /\ First' = First /\ ToSet(ints)' = ToSet(ints)
  <2>1. Read' = Read /\ Runs' = Runs /\ First' = First /\ ToSet(ints)' = ToSet(ints)
    BY DEF Read, Runs, First
  <2> QED
    BY <2>1 DEF Plan
<1>2. /\ k + 1 \in 0..Len(Runs) /\ k \in Nat
      /\ run \in Nat /\ run >= 1 /\ run < Word
      /\ e[k] \in Nat /\ b = e[k] + run /\ b <= Word /\ curIdx = e[k]
      /\ \A z \in e[k]..(b - 1) : z \in ToSet(ints) <=> Ones(First, k + 1)
      /\ curBit = 1 <=> Ones(First, k + 1)
  BY RunFacts
<1>3. /\ curIdx' = (curIdx + x) % Word /\ curBit' = 1 - curBit /\ curBit \in {0, 1}
      /\ out' = IF curBit = 1 THEN out \o [j \in 1..x |-> (curIdx + j - 1) % Word] ELSE out
  BY DEF Emit, StateIn, Bits
<1>4. Word \in Nat /\ First \in Bits /\ ToSet(ints) \subseteq Nat /\ out \in Seq(Nat)
  <2>1. ints \in Seq(Nat) /\ out \in Seq(0..(Word - 1)) /\ 0..(Word - 1) \subseteq Nat
    BY DEF StateIn
  <2>2. ToSet(ints) \subseteq Nat
    <3>1. ints \in [1..Len(ints) -> Nat]
      BY <2>1, LenProperties
    <3> QED
      BY <3>1 DEF ToSet
  <2> QED
    BY <2>1, <2>2, RunLengthsIn, SeqIn, WordIn DEF First
<1> HIDE DEF run, b
<1>5. x = run \/ (x = run - Word /\ ~Ones(First, k + 1))
  BY DEF run
<1>6. curIdx' = b % Word
  <2>1. CASE x = run
    BY <1>2, <1>3, <2>1
  <2>2. CASE x = run - Word
    <3>1. b \in 1..Word /\ curIdx + x = b - Word
      BY <1>2, <1>4, <2>2
    <3> QED
      BY <1>3, <3>1, WordDown
  <2> QED
    BY <1>5, <2>1, <2>2
<1>7. curBit' = 1 <=> Ones(First, (k + 1) + 1)
  <2>1. Ones(First, (k + 1) + 1) <=> ~Ones(First, k + 1)
    <3>1. k + 1 \in Nat
      BY <1>2
    <3> QED
      BY <1>4, <3>1, OnesFlip
  <2>2. curBit' = 1 <=> curBit # 1
    BY <1>3
  <2> QED
    BY <1>2, <2>1, <2>2
<1>8. Increasing(out) /\ ToSet(out) = {z \in ToSet(ints) : z < e[k]}
  BY DEF Progress
<1>9. Increasing(out') /\ ToSet(out') = {z \in ToSet(ints) : z < b}
  <2>1. CASE Ones(First, k + 1)
    <3> DEFINE r == [j \in 1..run |-> e[k] + j - 1]
    <3>1. out' = out \o [j \in 1..run |-> (e[k] + j - 1) % Word]
      BY <1>2, <1>3, <1>5, <2>1
    <3>2. ASSUME NEW j \in 1..run PROVE (e[k] + j - 1) % Word = e[k] + j - 1
      <4>0. run \in Nat /\ e[k] \in Nat /\ e[k] + run <= Word /\ Word \in Nat
        BY <1>2, <1>4
      <4>1. e[k] + j - 1 \in 0..(Word - 1)
        BY <4>0
      <4> QED
        BY <4>1, WordIn
    <3>3. out' = out \o r
      BY <3>1, <3>2
    <3>4. \A z \in ToSet(out) : z < e[k]
      BY <1>8
    <3>r. r = [j \in 1..run |-> e[k] + j - 1]
      OBVIOUS
    <3> HIDE DEF r
    <3>5. Increasing(out \o r) /\ ToSet(out \o r) = ToSet(out) \cup (e[k]..(e[k] + run - 1))
      <4>1. run \in Nat /\ e[k] \in Nat /\ out \in Seq(Nat) /\ Increasing(out)
        BY <1>2, <1>4, <1>8
      <4> QED
        BY <3>4, <3>r, <4>1, AppendRun
    <3>6. e[k]..(e[k] + run - 1) = e[k]..(b - 1)
      BY <1>2
    <3>7. \A z \in Nat : z < b <=> (z < e[k] \/ z \in e[k]..(b - 1))
      BY <1>2
    <3>8. e[k]..(b - 1) \subseteq Nat
      BY <1>2
    <3>9. ToSet(out) \cup (e[k]..(b - 1)) = {z \in ToSet(ints) : z < b}
      BY <1>2, <1>4, <1>8, <2>1, <3>7, <3>8
    <3> QED
      BY <3>3, <3>5, <3>6, <3>9
  <2>2. CASE ~Ones(First, k + 1)
    <3>1. out' = out
      BY <1>2, <1>3, <2>2
    <3>2. \A z \in Nat : z < b <=> (z < e[k] \/ z \in e[k]..(b - 1))
      BY <1>2
    <3>3. {z \in ToSet(ints) : z < e[k]} = {z \in ToSet(ints) : z < b}
      BY <1>2, <1>4, <2>2, <3>2
    <3> QED
      BY <1>8, <3>1, <3>3
  <2> QED
    BY <2>1, <2>2
<1>10. Increasing(out)' /\ ToSet(out)' = {z \in ToSet(ints)' : z < b}
  BY <1>1, <1>9 DEF Increasing, ToSet
<1>11. Progress(e, k + 1)'
  BY <1>1, <1>2, <1>6, <1>7, <1>10 DEF Progress, b
<1> QED
  BY <1>1, <1>11

\* The bits at the cursor.
LEMMA PeekRead ==
  ASSUME StateIn, NEW off \in Nat
  PROVE  /\ Readable(Read) /\ cursor + off \in Nat /\ cursor \in Nat
         /\ \A n : Peek(off, n) = Take(Read, cursor + off, n, "LSB0")
         /\ Peek(off, 1) = Get(Read, cursor + off)
<1>1. "LSB0" \in Orders /\ buf \in Seq(Byte) /\ cursor + off \in Nat /\ cursor \in Nat
  BY DEF StateIn, Orders
<1>2. Readable(Read)
  BY <1>1, ReadableVectors DEF Read
<1>3. \A n : Peek(off, n) = Take(Read, cursor + off, n, "LSB0")
  BY DEF Peek, Read
<1>4. Take(Read, cursor + off, 1, "LSB0") = Get(Read, cursor + off)
  BY <1>1, <1>2, TakeOne
<1> QED
  BY <1>1, <1>2, <1>3, <1>4

\* Behind the last block there are zeroes.
LEMMA PlanEnd ==
  ASSUME StateIn, NEW p, NEW e, Plan(p, e)
  PROVE  /\ p[Len(Runs)] \in Nat
         /\ \A i \in Nat : Get(Read, p[Len(Runs)] + i) = 0
<1>1. Len(Runs) \in Nat
  <2>1. Runs \in Seq(Nat)
    BY RunLengthsIn DEF StateIn, Runs
  <2> QED
    BY <2>1
<1>2. /\ p \in [0..Len(Runs) -> Nat]
      /\ \A i \in Nat : i >= p[Len(Runs)] => Get(Read, i) = 0
  BY DEF Plan, Written
<1>3. p[Len(Runs)] \in Nat
  BY <1>1, <1>2
<1>4. \A i \in Nat : p[Len(Runs)] + i \in Nat /\ p[Len(Runs)] + i >= p[Len(Runs)]
  BY <1>3
<1> QED
  BY <1>2, <1>3, <1>4

\* The two bits at the beginning of a block tell its kind.
LEMMA BlockKinds ==
  ASSUME NEW v, NEW p \in Nat, NEW run \in Nat, BlockAt(v, p, run)
  PROVE  /\ Get(v, p) = 1 <=> run = 1
         /\ run # 1 => /\ Get(v, p) = 0
                       /\ Get(v, p + 1) = 1 => run < 16 /\ ShortAt(v, p, run)
                       /\ Get(v, p + 1) = 0 => ~(run < 16) /\ LongAt(v, p, run)
<1>1. CASE run = 1
  BY <1>1 DEF BlockAt, SingleAt
<1>2. CASE run # 1 /\ run < 16
  <2>1. ShortAt(v, p, run)
    BY <1>2 DEF BlockAt
  <2>2. Get(v, p) = 0 /\ Get(v, p + 1) = 1
    BY <2>1 DEF ShortAt
  <2> QED
    BY <1>2, <2>1, <2>2
<1>3. CASE run # 1 /\ ~(run < 16)
  <2>1. LongAt(v, p, run)
    BY <1>3 DEF BlockAt
  <2>2. Get(v, p) = 0 /\ Get(v, p + 1) = 0
    BY <2>1 DEF LongAt
  <2> QED
    BY <1>3, <2>1, <2>2
<1> QED
  BY <1>1, <1>2, <1>3

\* A single block (rleplus.go:111).
LEMMA SingleRound ==
  ASSUME StateIn, AtBlock, single
  PROVE  AtBlock'
<1>1. PICK p, e, k : Plan(p, e) /\ Progress(e, k) /\ cursor = p[k]
  BY DEF AtBlock
<1>2. /\ Peek(0, 1) = 1 /\ cursor' = cursor + 1 /\ Emit(1) /\ UNCHANGED <<ints, buf>>
  BY DEF single
<1>3. cursor \in Nat /\ Get(Read, p[k]) = 1
  <2>1. Peek(0, 1) = Get(Read, cursor + 0) /\ cursor \in Nat /\ cursor + 0 = cursor
    BY PeekRead DEF StateIn
  <2> QED
    BY <1>1, <1>2, <2>1
<1>4. k # Len(Runs)
  <2>1. \A i \in Nat : Get(Read, p[Len(Runs)] + i) = 0
    BY <1>1, PlanEnd
  <2>2. k = Len(Runs) => Get(Read, p[k] + 0) = 0
    BY <2>1
  <2> QED
    BY <1>1, <1>3, <2>2
<1>5. /\ Runs[k + 1] \in Nat /\ p[k] \in Nat /\ p[k + 1] = p[k] + Width(Runs[k + 1])
      /\ BlockAt(Read, p[k], Runs[k + 1])
  BY <1>1, <1>4, RunFacts
<1>6. Runs[k + 1] = 1
  BY <1>3, <1>5, BlockKinds
<1>7. Plan(p, e)' /\ Progress(e, k + 1)'
  BY <1>1, <1>2, <1>4, <1>6, EmitRun
<1>8. cursor' = p[k + 1]
  BY <1>1, <1>2, <1>5, <1>6 DEF Width
<1> QED
  BY <1>7, <1>8 DEF AtBlock

\* A short block (rleplus.go:116-118).
LEMMA ShortRound ==
  ASSUME StateIn, AtBlock, short
  PROVE  AtBlock'
<1>1. PICK p, e, k : Plan(p, e) /\ Progress(e, k) /\ cursor = p[k]
  BY DEF AtBlock
<1>2. /\ Peek(0, 1) = 0 /\ Peek(1, 1) = 1 /\ cursor' = cursor + 6 /\ Emit(Peek(2, 4))
      /\ UNCHANGED <<ints, buf>>
  BY DEF short
<1>3. /\ cursor \in Nat /\ Get(Read, p[k]) = 0 /\ Get(Read, p[k] + 1) = 1 /\ Readable(Read)
      /\ Peek(2, 4) = Take(Read, p[k] + 2, 4, "LSB0")
  <2>1. Peek(0, 1) = Get(Read, cursor + 0) /\ cursor \in Nat /\ cursor + 0 = cursor
    BY PeekRead DEF StateIn
  <2>2. Peek(1, 1) = Get(Read, cursor + 1) /\ Readable(Read)
    BY PeekRead
  <2>3. Peek(2, 4) = Take(Read, cursor + 2, 4, "LSB0")
    BY PeekRead
  <2> QED
    BY <1>1, <1>2, <2>1, <2>2, <2>3
<1>4. k # Len(Runs)
  <2>1. \A i \in Nat : Get(Read, p[Len(Runs)] + i) = 0
    BY <1>1, PlanEnd
  <2>2. k = Len(Runs) => Get(Read, p[k] + 1) = 0
    BY <2>1
  <2> QED
    BY <1>3, <2>2
<1>5. /\ Runs[k + 1] \in Nat /\ p[k] \in Nat /\ p[k + 1] = p[k] + Width(Runs[k + 1])
      /\ BlockAt(Read, p[k], Runs[k + 1])
  BY <1>1, <1>4, RunFacts
<1> DEFINE run == Runs[k + 1]
<1> HIDE DEF run
<1>6. run # 1 /\ run < 16 /\ ShortAt(Read, p[k], run) /\ run \in Nat
  BY <1>3, <1>5, BlockKinds DEF run
<1>7. Peek(2, 4) = run
  <2>1. run \in 0..15 /\ p[k] + 2 \in Nat
    BY <1>5, <1>6
  <2>2. \A i \in 0..3 : Get(Read, (p[k] + 2) + i) = Bit(run, i)
    BY <1>6 DEF ShortAt
  <2> QED
    BY <1>3, <2>1, <2>2, TakeFour
<1>8. Plan(p, e)' /\ Progress(e, k + 1)'
  <2>1. Emit(run) /\ run \in Int
    BY <1>2, <1>6, <1>7
  <2> QED
    BY <1>1, <1>2, <1>4, <2>1, EmitRun DEF run
<1>9. cursor' = p[k + 1]
  BY <1>1, <1>2, <1>5, <1>6 DEF Width, run
<1> QED
  BY <1>8, <1>9 DEF AtBlock

\* The beginning of a long block, or of the zeroes behind the end
\* (rleplus.go:119-121).
LEMMA LongRound ==
  ASSUME StateIn, AtBlock, long
  PROVE  AtVarint'
<1>1. PICK p, e, k : Plan(p, e) /\ Progress(e, k) /\ cursor = p[k]
  BY DEF AtBlock
<1>2. /\ Peek(0, 1) = 0 /\ Peek(1, 1) = 0 /\ cursor' = cursor + 2 /\ varint' = <<>>
      /\ UNCHANGED <<ints, buf, curIdx, curBit, out>>
  BY DEF long
<1>3. cursor \in Nat /\ Get(Read, p[k]) = 0 /\ Get(Read, p[k] + 1) = 0
  <2>1. Peek(0, 1) = Get(Read, cursor + 0) /\ cursor \in Nat /\ cursor + 0 = cursor
    BY PeekRead DEF StateIn
  <2>2. Peek(1, 1) = Get(Read, cursor + 1)
    BY PeekRead
  <2> QED
    BY <1>1, <1>2, <2>1, <2>2
<1>4. Plan(p, e)' /\ Progress(e, k)' /\ Runs' = Runs
  BY <1>1, <1>2 DEF Plan, Progress, Read, Runs, First, Increasing, ToSet
<1>5. Len(varint') = 0 /\ 1..0 = {}
  BY <1>2
<1>6. cursor' = (p[k] + 2) + 8 * Len(varint')
  BY <1>1, <1>2, <1>3, <1>5
<1>7. k # Len(Runs) => ~(Runs[k + 1] < 16) /\ 0 < Len(PutUvarint[Runs[k + 1]])
  <2> SUFFICES ASSUME k # Len(Runs) PROVE ~(Runs[k + 1] < 16) /\ 0 < Len(PutUvarint[Runs[k + 1]])
    OBVIOUS
  <2>1. Runs[k + 1] \in Nat /\ p[k] \in Nat /\ BlockAt(Read, p[k], Runs[k + 1])
    BY <1>1, RunFacts
  <2>2. ~(Runs[k + 1] < 16)
    <3>1. Runs[k + 1] # 1
      BY <1>3, <2>1, BlockKinds
    <3> QED
      BY <1>3, <2>1, <3>1, BlockKinds
  <2>3. Len(PutUvarint[Runs[k + 1]]) \in Nat /\ Len(PutUvarint[Runs[k + 1]]) >= 1
    BY <2>1, VarintNat, VarintWritten DEF IsVarint
  <2> QED
    BY <2>2, <2>3
<1>8. InVarint(p, k)'
  BY <1>4, <1>5, <1>6, <1>7 DEF InVarint
<1> QED
  BY <1>4, <1>8 DEF AtVarint

\* What Decode reads as a byte of a varint: the next byte that Encode wrote,
\* or zero behind the end.
LEMMA VarintPeek ==
  ASSUME StateIn, NEW p, NEW e, NEW k, Plan(p, e), Progress(e, k), InVarint(p, k)
  PROVE  /\ k = Len(Runs) => Peek(0, 8) = 0
         /\ k # Len(Runs) => /\ Peek(0, 8) = PutUvarint[Runs[k + 1]][Len(varint) + 1]
                             /\ Len(varint) + 1 \in 1..Len(PutUvarint[Runs[k + 1]])
<1> DEFINE m == Len(varint)
<1>1. m \in Nat /\ varint \in Seq(Nat)
  BY DEF StateIn
<1> HIDE DEF m
<1>2. cursor = (p[k] + 2) + 8 * m
  BY DEF InVarint, m
<1>3. /\ Peek(0, 8) = Take(Read, cursor, 8, "LSB0") /\ Readable(Read) /\ cursor \in Nat
      /\ "LSB0" \in Orders /\ \A i \in Int : Shift("LSB0", i) = i
  <2>1. /\ Peek(0, 8) = Take(Read, cursor + 0, 8, "LSB0") /\ Readable(Read) /\ cursor \in Nat
    BY PeekRead
  <2>2. cursor + 0 = cursor
    BY <2>1
  <2> QED
    BY <2>1, <2>2 DEF Orders, Shift
<1>4. ASSUME k = Len(Runs) PROVE Peek(0, 8) = 0
  <2>1. p[k] \in Nat /\ \A i \in Nat : Get(Read, p[k] + i) = 0
    BY <1>4, PlanEnd
  <2>2. ASSUME NEW i \in 0..7 PROVE Get(Read, cursor + i) = Bit(0, Shift("LSB0", i))
    <3>0. \A a, b, c \in Nat : ((a + 2) + 8 * b) + c = a + (2 + 8 * b + c) /\ 2 + 8 * b + c \in Nat
      OBVIOUS
    <3>1. cursor + i = p[k] + (2 + 8 * m + i) /\ 2 + 8 * m + i \in Nat
      <4>1. p[k] \in Nat /\ m \in Nat /\ i \in Nat
        BY <1>1, <2>1
      <4> QED
        BY <1>2, <3>0, <4>1
    <3>2. Bit(0, i) = 0
      <4>1. \A w \in Weights : (0 \div w) % 2 = 0
        BY DEF Weights
      <4> QED
        BY <4>1, PowerIn DEF Bit
    <3> QED
      BY <1>3, <2>1, <3>1, <3>2
  <2>3. 0 \in Byte
    BY DEF Byte
  <2> QED
    BY <1>3, <2>2, <2>3, TakeByte
<1>5. ASSUME k # Len(Runs)
      PROVE  /\ Peek(0, 8) = PutUvarint[Runs[k + 1]][m + 1]
             /\ m + 1 \in 1..Len(PutUvarint[Runs[k + 1]])
  <2> DEFINE run == Runs[k + 1]
             bs == PutUvarint[run]
  <2>1. run \in Nat /\ p[k] \in Nat /\ BlockAt(Read, p[k], run)
    BY <1>5, RunFacts
  <2>2. ~(run < 16) /\ m < Len(bs)
    BY <1>5 DEF InVarint, m
  <2> HIDE DEF run
  <2>3. LongAt(Read, p[k], run)
    BY <2>1, <2>2 DEF BlockAt
  <2>4. bs \in Seq(Byte) /\ Len(bs) \in Nat
    BY <2>1, PutUvarintIn, VarintNat
  <2>5. \A j \in 1..Len(bs), i \in 0..7 : Get(Read, (p[k] + 2) + 8 * (j - 1) + i) = Bit(bs[j], i)
    BY <2>3 DEF LongAt
  <2> HIDE DEF bs
  <2>6. m + 1 \in 1..Len(bs) /\ (m + 1) - 1 = m
    BY <1>1, <2>2, <2>4
  <2>7. bs[m + 1] \in Byte
    BY <2>4, <2>6
  <2>8. ASSUME NEW i \in 0..7 PROVE Get(Read, cursor + i) = Bit(bs[m + 1], Shift("LSB0", i))
    <3>1. Get(Read, (p[k] + 2) + 8 * ((m + 1) - 1) + i) = Bit(bs[m + 1], i)
      BY <2>5, <2>6
    <3> QED
      BY <1>2, <1>3, <2>6, <3>1
  <2>9. Take(Read, cursor, 8, "LSB0") = bs[m + 1]
    BY <1>3, <2>7, <2>8, TakeByte
  <2> QED
    BY <1>3, <2>6, <2>9 DEF bs, run
<1> QED
  BY <1>4, <1>5 DEF m

\* A byte that is not the last one of its varint, which Encode did not make too
\* long (rleplus.go:122-134).
LEMMA ByteRound ==
  ASSUME StateIn, ints \in Inputs, AtVarint, varintByte
  PROVE  AtVarint' /\ phase' = "varint"
<1>1. PICK p, e, k : Plan(p, e) /\ Progress(e, k) /\ InVarint(p, k)
  BY DEF AtVarint
<1> DEFINE b == Peek(0, 8)
           m == Len(varint)
           run == Runs[k + 1]
           bs == PutUvarint[run]
<1>2. /\ b >= 128 /\ cursor' = cursor + 8 /\ varint' = Append(varint, b) /\ phase = "varint"
      /\ phase' = IF Len(varint) + 1 > MaxVarint THEN "error" ELSE phase
      /\ UNCHANGED <<ints, buf, curIdx, curBit, out>>
  BY Zenon DEF varintByte
<1>3. m \in Nat /\ varint \in Seq(Nat) /\ cursor \in Nat
  BY DEF StateIn
<1>4. k # Len(Runs) /\ b = bs[m + 1] /\ m + 1 \in 1..Len(bs)
  <2>1. /\ k = Len(Runs) => Peek(0, 8) = 0
        /\ k # Len(Runs) => /\ Peek(0, 8) = PutUvarint[Runs[k + 1]][Len(varint) + 1]
                            /\ Len(varint) + 1 \in 1..Len(PutUvarint[Runs[k + 1]])
    BY <1>1, VarintPeek
  <2>2. b # 0
    BY <1>2
  <2> QED
    BY <2>1, <2>2
<1>5. run \in Nat /\ run < Word /\ k \in Nat
  BY <1>1, <1>4, RunFacts
<1>6. /\ ~(run < 16) /\ \A j \in 1..m : varint[j] = bs[j]
      /\ cursor = (p[k] + 2) + 8 * m
  BY <1>1, <1>4 DEF InVarint
<1>7. Plan(p, e)' /\ Progress(e, k)' /\ Runs' = Runs
  BY <1>1, <1>2 DEF Plan, Progress, Read, Runs, First, Increasing, ToSet
<1> HIDE DEF b
<1>8. bs \in Seq(Nat) /\ Len(bs) \in Nat /\ IsVarint(bs) /\ Len(bs) <= MaxVarint /\ MaxVarint \in Nat
  <2>1. bs \in Seq(Nat) /\ Len(bs) \in Nat /\ IsVarint(bs) /\ Len(bs) <= MaxVarint
    BY <1>5, VarintNat, VarintWritten, VarintRead
  <2>2. MaxVarint \in Nat
    <3>1. MaxVarint = Len(PutUvarint[Word - 1]) /\ Word - 1 \in Nat
      BY RleAssumption
    <3> QED
      BY <3>1, VarintNat
  <2> QED
    BY <2>1, <2>2
<1>10. p[k] \in Nat
  BY <1>1, <1>4, RunFacts
<1> HIDE DEF run, bs
<1>9. m + 1 < Len(bs)
  <2>1. m + 1 # Len(bs)
    BY <1>2, <1>4, <1>8 DEF IsVarint
  <2> QED
    BY <1>3, <1>4, <1>8, <2>1
<1>11. /\ Len(varint') = m + 1 /\ varint'[m + 1] = bs[m + 1]
       /\ \A j \in 1..m : varint'[j] = varint[j]
  <2>1. b \in Nat
    BY <1>4, <1>8
  <2> DEFINE w == Append(varint, b)
  <2>2. Len(w) = m + 1 /\ w[m + 1] = b /\ \A j \in 1..m : w[j] = varint[j]
    BY <1>3, <2>1, AppendProperties
  <2> HIDE DEF w
  <2>3. varint' = w
    BY <1>2 DEF w
  <2> QED
    BY <1>4, <2>2, <2>3
<1> HIDE DEF m
<1>12. \A j \in 1..Len(varint') : varint'[j] = bs[j]
  <2>1. \A j \in 1..(m + 1) : j = m + 1 \/ j \in 1..m
    BY <1>3
  <2> QED
    BY <1>6, <1>11, <2>1
<1>13. phase' = "varint"
  <2>1. ~(m + 1 > MaxVarint)
    BY <1>3, <1>8, <1>9
  <2> QED
    BY <1>2, <2>1 DEF m
<1>14. cursor' = (p[k] + 2) + 8 * Len(varint')
  <2>1. \A a, l \in Nat : ((a + 2) + 8 * l) + 8 = (a + 2) + 8 * (l + 1)
    OBVIOUS
  <2> QED
    BY <1>2, <1>3, <1>6, <1>10, <1>11, <2>1
<1>15. InVarint(p, k)'
  BY <1>4, <1>6, <1>7, <1>9, <1>11, <1>12, <1>14 DEF InVarint, bs, run
<1> QED
  BY <1>7, <1>13, <1>15 DEF AtVarint

\* The last byte of a varint, which gives the run, or the zero behind the end,
\* at which every number has been emitted (rleplus.go:135-150).
LEMMA EndRound ==
  ASSUME StateIn, ints \in Inputs, AtVarint, varintEnd
  PROVE  \/ phase' = "block" /\ AtBlock'
         \/ phase' = "done" /\ ToSet(out)' = ToSet(ints)' /\ Increasing(out)'
<1>1. PICK p, e, k : Plan(p, e) /\ Progress(e, k) /\ InVarint(p, k)
  BY DEF AtVarint
<1> DEFINE b == Peek(0, 8)
           m == Len(varint)
           w == Append(varint, b)
           x == Uvarint(w)
<1>2. /\ b < 128 /\ cursor' = cursor + 8 /\ phase' = IF x = 0 THEN "done" ELSE "block"
      /\ Emit(Signed(x)) /\ UNCHANGED <<ints, buf>>
  BY Zenon DEF varintEnd
<1>3. m \in Nat /\ varint \in Seq(Nat) /\ cursor \in Nat /\ b \in Nat
  <2>1. b \in Nat
    <3>1. 8 \in 0..8 /\ 0 \in Nat
      OBVIOUS
    <3> QED
      BY <3>1, PeekIn
  <2> QED
    BY <2>1 DEF StateIn
<1>4. /\ k = Len(Runs) => b = 0
      /\ k # Len(Runs) => b = PutUvarint[Runs[k + 1]][m + 1] /\ m + 1 \in 1..Len(PutUvarint[Runs[k + 1]])
  BY <1>1, VarintPeek
<1>5. w \in Seq(Nat) /\ Len(w) = m + 1 /\ w[m + 1] = b /\ \A j \in 1..m : w[j] = varint[j]
  <2> HIDE DEF b
  <2> QED
    BY <1>3, AppendProperties
<1> HIDE DEF b, w, x
<1>6. CASE k = Len(Runs)
  <2>1. m = 0 /\ b = 0
    BY <1>1, <1>4, <1>6 DEF InVarint
  <2>2. Len(w) = 1 /\ w[1] = 0
    BY <1>5, <2>1
  <2>3. x = 0
    BY <1>5, <2>2, UvarintIn DEF x
  <2>4. curBit # 1
    <3>1. First \in Bits /\ Len(Runs) \in Nat
      <4>1. ints \in Seq(Nat)
        BY DEF StateIn
      <4>2. First \in Bits /\ Runs \in Seq(Nat)
        BY <4>1, RunLengthsIn DEF First, Runs
      <4> QED
        BY <4>2
    <3>2. Ones(First, Len(Runs))
      BY <1>1 DEF Plan, Layout
    <3>3. ~Ones(First, k + 1)
      BY <1>6, <3>1, <3>2, OnesFlip
    <3> QED
      BY <1>1, <3>3 DEF Progress
  <2>5. out' = out
    BY <1>2, <2>4 DEF Emit
  <2>6. ToSet(out) = {z \in ToSet(ints) : z < e[k]} /\ Increasing(out)
    BY <1>1 DEF Progress
  <2>7. \A z \in ToSet(ints) : z < e[k]
    BY <1>1, <1>6 DEF Plan, Layout
  <2>8. ToSet(out) = ToSet(ints)
    BY <2>6, <2>7
  <2>9. ToSet(out)' = ToSet(ints)' /\ Increasing(out)'
    BY <1>2, <2>5, <2>6, <2>8 DEF ToSet, Increasing
  <2> QED
    BY <1>2, <2>3, <2>9
<1>7. CASE k # Len(Runs)
  <2> DEFINE run == Runs[k + 1]
             bs == PutUvarint[run]
  <2>1. /\ run \in Nat /\ run < Word /\ (Ones(First, k + 1) => run < Word \div 2)
        /\ p[k] \in Nat /\ p[k + 1] = p[k] + Width(run)
    BY <1>1, <1>7, RunFacts
  <2>2. /\ ~(run < 16) /\ \A j \in 1..m : varint[j] = bs[j]
        /\ cursor = (p[k] + 2) + 8 * m
    BY <1>1, <1>7 DEF InVarint
  <2>3. b = bs[m + 1] /\ m + 1 \in 1..Len(bs)
    BY <1>4, <1>7
  <2>4. bs \in Seq(Nat) /\ Len(bs) \in Nat /\ IsVarint(bs) /\ Uvarint(bs) = run
    BY <2>1, VarintNat, VarintWritten, VarintRead
  <2>5. Width(run) = 2 + 8 * Len(bs)
    <3>1. run # 1
      BY <2>1, <2>2
    <3> QED
      BY <2>2, <3>1 DEF Width
  <2> HIDE DEF run, bs, m
  <2>6. m + 1 = Len(bs)
    <3>1. m + 1 \in 1..(Len(bs) - 1) => b >= 128
      BY <2>3, <2>4 DEF IsVarint
    <3>2. m + 1 \notin 1..(Len(bs) - 1)
      BY <1>2, <1>3, <3>1
    <3> QED
      BY <1>3, <2>3, <2>4, <3>2
  <2>7. w = bs
    <3>1. \A j \in 1..(m + 1) : j = m + 1 \/ j \in 1..m
      BY <1>3
    <3>2. \A j \in 1..(m + 1) : w[j] = bs[j]
      BY <1>5, <2>2, <2>3, <3>1
    <3> QED
      BY <1>5, <2>4, <2>6, <3>2, SeqEqual
  <2>8. x = run
    BY <2>4, <2>7 DEF x
  <2>9. Word \in Nat /\ (Signed(x) = run \/ (Signed(x) = run - Word /\ ~Ones(First, k + 1)))
    BY <2>1, <2>8, WordIn DEF Signed
  <2>10. Plan(p, e)' /\ Progress(e, k + 1)'
    <3>1. Signed(x) \in Int
      BY <2>1, <2>9
    <3> QED
      BY <1>1, <1>2, <1>7, <2>9, <3>1, EmitRun DEF run
  <2>11. cursor' = p[k + 1]
    <3>1. \A a, l \in Nat : ((a + 2) + 8 * l) + 8 = a + (2 + 8 * (l + 1))
      OBVIOUS
    <3>2. cursor' = p[k] + (2 + 8 * (m + 1))
      BY <1>2, <1>3, <2>1, <2>2, <3>1
    <3> QED
      BY <2>1, <2>5, <2>6, <3>2
  <2>12. AtBlock'
    BY <2>10, <2>11 DEF AtBlock
  <2>13. x # 0
    BY <2>1, <2>2, <2>8
  <2> QED
    BY <1>2, <2>12, <2>13
<1> QED
  BY <1>6, <1>7

\* The header: the version that Encode wrote, and the first bit
\* (rleplus.go:96-104).
LEMMA HeaderRound ==
  ASSUME StateIn, ints \in Inputs, buf = EncodeInts(ints).buf, Len(out) = 0, curIdx = 0, cursor = 0,
         decodeHeader
  PROVE  phase' = "block" /\ AtBlock'
<1>1. ints \in Seq(Nat) /\ ints \in Seq(0..(Word - 1)) /\ Len(ints) < Word \div 2 /\ out \in Seq(Nat)
  <2>1. 0..(Word - 1) \subseteq Nat /\ out \in Seq(0..(Word - 1))
    BY DEF StateIn
  <2> QED
    BY <2>1, RleAssumption, SeqIn DEF StateIn
<1>2. PICK p : Written(p, Read, First, Runs)
  BY <1>1, EncodeRead DEF Read, First, Runs
<1>3. PICK e : Layout(e, First, Runs, ToSet(ints))
  BY <1>1, RunsCover DEF First, Runs
<1>4. /\ Get(Read, 0) = 0 /\ Get(Read, 1) = 0 /\ Get(Read, 2) = First /\ p[0] = 3
  BY <1>2 DEF Written
<1>5. buf # <<>>
  BY <1>1, EncodeWritten
<1>6. Peek(0, 2) = 0 /\ Peek(2, 1) = First
  <2>1. Readable(Read) /\ Peek(0, 2) = Take(Read, cursor + 0, 2, "LSB0")
    BY PeekRead
  <2>2. Peek(2, 1) = Get(Read, cursor + 2)
    BY PeekRead
  <2>3. cursor + 0 = 0 /\ cursor + 2 = 2 /\ 0 + 1 = 1
    OBVIOUS
  <2>4. Take(Read, 0, 2, "LSB0") = 0
    BY <1>4, <2>1, <2>3, TakeTwo
  <2> QED
    BY <1>4, <2>1, <2>2, <2>3, <2>4
<1>7. phase' = "block" /\ cursor' = 3 /\ curBit' = First
  <2>1. ~(Peek(0, 2) # Version)
    BY <1>6 DEF Version
  <2> QED
    BY <1>5, <1>6, <2>1, Zenon DEF decodeHeader
<1>8. ints' = ints /\ buf' = buf /\ curIdx' = curIdx /\ out' = out
  BY DEF decodeHeader
<1>9. Plan(p, e)' /\ Runs' = Runs /\ First' = First
  <2>1. Read' = Read /\ Runs' = Runs /\ First' = First /\ ToSet(ints)' = ToSet(ints)
    BY <1>8 DEF Read, Runs, First
  <2> QED
    BY <1>2, <1>3, <2>1 DEF Plan
<1>10. e[0] = 0 /\ Runs \in Seq(Nat) /\ First \in {0, 1} /\ ToSet(ints) \subseteq Nat
  <2>1. e[0] = 0
    BY <1>3 DEF Layout, Ends
  <2>2. ToSet(ints) \subseteq Nat
    <3>1. ints \in [1..Len(ints) -> Nat]
      BY <1>1, LenProperties
    <3> QED
      BY <3>1 DEF ToSet
  <2> QED
    BY <1>1, <2>1, <2>2, RunLengthsIn DEF First, Runs, Bits
<1>11. curBit' = 1 <=> Ones(First, 0 + 1)
  BY <1>7, <1>10 DEF Ones
<1>12. curIdx' = 0 % Word
  BY <1>8, WordIn
<1>13. Increasing(out)' /\ ToSet(out)' = {}
  <2>1. 2..0 = {} /\ 1..0 = {}
    OBVIOUS
  <2>2. Increasing(out)
    BY <2>1 DEF Increasing
  <2>3. DOMAIN out = {}
    <3>1. DOMAIN out = 1..Len(out)
      BY <1>1, LenProperties
    <3> QED
      BY <2>1, <3>1
  <2>4. ToSet(out) = {}
    BY <2>3 DEF ToSet
  <2> QED
    BY <1>8, <2>2, <2>4 DEF Increasing, ToSet
<1>14. {z \in ToSet(ints)' : z < 0} = {}
  <2>1. ToSet(ints)' = ToSet(ints)
    BY <1>8
  <2>2. \A z \in Nat : ~(z < 0)
    OBVIOUS
  <2>3. \A z \in ToSet(ints) : ~(z < 0)
    BY <1>10, <2>2
  <2> QED
    BY <2>1, <2>3
<1>15. 0 \in 0..Len(Runs)
  BY <1>10
<1>16. Progress(e, 0)'
  BY <1>9, <1>10, <1>11, <1>12, <1>13, <1>14, <1>15 DEF Progress
<1> QED
  BY <1>4, <1>7, <1>9, <1>16 DEF AtBlock

\* Nothing is read before Encode.
LEMMA RoundInit == Init => RoundInv
<1> SUFFICES ASSUME Init, ~raw PROVE RoundInv
  BY DEF RoundInv
<1>1. ints \in Inputs /\ phase = "encode" /\ cursor = 0 /\ curIdx = 0 /\ Len(out) = 0
  <2>1. ints \in Inputs /\ phase = "encode" /\ cursor = 0 /\ curIdx = 0 /\ out = <<>>
    BY DEF Init
  <2> QED
    BY <2>1
<1> QED
  BY <1>1 DEF RoundInv

\* A step that changes nothing keeps the invariant.
LEMMA RoundStutter ==
  ASSUME RoundInv, UNCHANGED vars
  PROVE  RoundInv'
<1>1. /\ raw' = raw /\ ints' = ints /\ buf' = buf /\ phase' = phase /\ cursor' = cursor
      /\ curIdx' = curIdx /\ curBit' = curBit /\ varint' = varint /\ out' = out
  BY DEF vars
<1>2. AtBlock' <=> AtBlock
  BY <1>1 DEF AtBlock, Plan, Progress, Read, Runs, First, ToSet, Increasing
<1>3. AtVarint' <=> AtVarint
  BY <1>1 DEF AtVarint, InVarint, Plan, Progress, Read, Runs, First, ToSet, Increasing
<1>4. ToSet(out)' = ToSet(out) /\ ToSet(ints)' = ToSet(ints) /\ (Increasing(out)' <=> Increasing(out))
  BY <1>1 DEF Increasing
<1> QED
  BY <1>1, <1>2, <1>3, <1>4 DEF RoundInv

\* Every step of Encode and of Decode keeps the invariant.
LEMMA RoundNext == RleInv /\ RoundInv /\ [Next]_vars => RoundInv'
<1> SUFFICES ASSUME RleInv, RoundInv, [Next]_vars PROVE RoundInv'
  OBVIOUS
<1>0. StateIn
  BY DEF RleInv
<1>1. CASE UNCHANGED vars
  BY <1>1, RoundStutter
<1>2. CASE Next
  <2>0. raw' = raw /\ ints' = ints
    BY <1>2 DEF Next, Encode, decodeHeader, single, short, long, varintByte, varintEnd
  <2>1. CASE raw
    BY <2>0, <2>1 DEF RoundInv
  <2>2. CASE ~raw
    <3>0. ints \in Inputs
      BY <2>2 DEF RoundInv
    <3>1. CASE Encode
      <4>1. /\ phase = "encode" /\ phase' = "header" /\ buf' = EncodeInts(ints).buf
            /\ cursor' = cursor /\ curIdx' = curIdx /\ out' = out
        BY <3>1, Zenon DEF Encode
      <4>2. Len(out) = 0 /\ curIdx = 0 /\ cursor = 0
        BY <2>2, <4>1 DEF RoundInv
      <4> QED
        BY <2>0, <3>0, <4>1, <4>2 DEF RoundInv
    <3>2. CASE decodeHeader
      <4>1. phase = "header"
        BY <3>2 DEF decodeHeader
      <4>2. buf = EncodeInts(ints).buf /\ Len(out) = 0 /\ curIdx = 0 /\ cursor = 0
        BY <2>2, <4>1 DEF RoundInv
      <4>3. phase' = "block" /\ AtBlock'
        BY <1>0, <3>0, <3>2, <4>2, HeaderRound
      <4> QED
        BY <2>0, <3>0, <4>3 DEF RoundInv
    <3>3. CASE single \/ short
      <4>1. phase = "block" /\ phase' = "block"
        BY <3>3 DEF single, short
      <4>2. AtBlock
        BY <2>2, <4>1 DEF RoundInv
      <4>3. AtBlock'
        BY <1>0, <3>3, <4>2, SingleRound, ShortRound
      <4> QED
        BY <2>0, <3>0, <4>1, <4>3 DEF RoundInv
    <3>4. CASE long
      <4>1. phase = "block" /\ phase' = "varint"
        BY <3>4 DEF long
      <4>2. AtBlock
        BY <2>2, <4>1 DEF RoundInv
      <4>3. AtVarint'
        BY <1>0, <3>4, <4>2, LongRound
      <4> QED
        BY <2>0, <3>0, <4>1, <4>3 DEF RoundInv
    <3>5. CASE varintByte
      <4>1. phase = "varint"
        BY <3>5 DEF varintByte
      <4>2. AtVarint
        BY <2>2, <4>1 DEF RoundInv
      <4>3. AtVarint' /\ phase' = "varint"
        BY <1>0, <3>0, <3>5, <4>2, ByteRound
      <4> QED
        BY <2>0, <3>0, <4>3 DEF RoundInv
    <3>6. CASE varintEnd
      <4>1. phase = "varint"
        BY <3>6 DEF varintEnd
      <4>2. AtVarint
        BY <2>2, <4>1 DEF RoundInv
      <4>3. \/ phase' = "block" /\ AtBlock'
            \/ phase' = "done" /\ ToSet(out)' = ToSet(ints)' /\ Increasing(out)'
        BY <1>0, <3>0, <3>6, <4>2, EndRound
      <4> QED
        BY <2>0, <3>0, <4>3 DEF RoundInv
    <3> QED
      BY <1>2, <3>1, <3>2, <3>3, <3>4, <3>5, <3>6 DEF Next
  <2> QED
    BY <2>1, <2>2
<1> QED
  BY <1>1, <1>2

-----------------------------------------------------------------------------
(* Theorem.                                                                *)

\* For every slice of integers, Decode returns what Encode wrote: the same set
\* of numbers, in increasing order and once each (rleplus.go: Encode, Decode).
THEOREM RleRoundTrip == Spec => []RoundTrip
<1>1. Init => RoundInv
  BY RoundInit
<1>2. RleInv /\ RoundInv /\ [Next]_vars => RoundInv'
  BY RoundNext
<1>3. RoundInv => RoundTrip
  BY DEF RoundInv, RoundTrip
<1> QED
  BY <1>1, <1>2, <1>3, RleInductive, PTL DEF Spec
=============================================================================
