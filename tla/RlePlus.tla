-------------------------------- MODULE RlePlus --------------------------------
(***************************************************************************)
(* The RLE+ codec for sets of sector numbers (extern/rleplus): Encode with *)
(* RunLengths, and Decode, over the bit vector of rleplus/internal. Encode *)
(* is one step; Decode is a step for each block, and for each byte of a    *)
(* varint, of its loop. uint64 and int are words of Word values: Decode    *)
(* converts a run length to a signed word and adds it modulo Word.         *)
(***************************************************************************)
EXTENDS Integers, Sequences, FiniteSets, SequencesExt

CONSTANTS
  Word,       \* number of values of uint64 and of int (2^64 in the code)
  MaxVarint,  \* bytes of the longest varint of a word (10 in the code)
  Inputs,     \* slices of integers to encode
  Buffers     \* byte slices to decode that need not come from Encode

Version == 0

VARIABLES
  raw,      \* buf is one of Buffers and does not come from Encode
  ints,     \* the argument of Encode
  buf,      \* the encoding
  len,      \* its length in bits, as Encode returns it
  phase,    \* "encode", "header", "block", "varint", "done", "wrong version" or "error"
  cursor,   \* Decode: the position of the iterator
  curIdx, curBit, varint, out,
  overflow  \* history: a run did not fit a signed word, or curIdx wrapped

vars == <<raw, ints, buf, len, phase, cursor, curIdx, curBit, varint, out, overflow>>

Init ==
  /\ \/ raw = FALSE /\ ints \in Inputs /\ buf = <<>> /\ phase = "encode"
     \/ raw = TRUE /\ ints = <<>> /\ buf \in Buffers /\ phase = "header"
  /\ len = 0 /\ cursor = 0 /\ curIdx = 0 /\ curBit = 0 /\ varint = <<>>
  /\ out = <<>> /\ overflow = FALSE

-----------------------------------------------------------------------------
(* rleplus/internal: BitVector.                                            *)

Orders == {"LSB0", "MSB0"}

\* Where the i-th bit of a byte is, counted from the low-order end.
Shift(order, i) == IF order = "LSB0" THEN i ELSE 7 - i
Bit(b, k) == (b \div 2^k) % 2

NewVector(packing) == [buf |-> <<>>, len |-> 0, packing |-> packing]
NewBitVector(b, packing) == [buf |-> b, len |-> 8 * Len(b), packing |-> packing]

\* Mutant: the bits of a byte are filled from the wrong end.
PushM(v, x) ==
  LET b == IF v.len % 8 = 0 THEN Append(v.buf, 0) ELSE v.buf
      last == v.len \div 8 + 1
  IN  [v EXCEPT !.buf = [b EXCEPT ![last] = @ + x * 2^(7 - Shift(v.packing, v.len % 8))],
                !.len = @ + 1]

Push(v, x) ==
  LET b == IF v.len % 8 = 0 THEN Append(v.buf, 0) ELSE v.buf
      last == v.len \div 8 + 1
  IN  [v EXCEPT !.buf = [b EXCEPT ![last] = @ + x * 2^Shift(v.packing, v.len % 8)],
                !.len = @ + 1]

\* Zero, with an error that Take ignores, when idx is out of range.
Get(v, idx) == IF idx >= v.len THEN 0
               ELSE Bit(v.buf[idx \div 8 + 1], Shift(v.packing, idx % 8))

\* Mutant: the order is that of the packing.
ExtendM(v, val, count, order) ==
  FoldLeft(LAMBDA u, i : Push(u, Bit(val, Shift(v.packing, i - 1))), v, [i \in 1..count |-> i])

Extend(v, val, count, order) ==
  FoldLeft(LAMBDA u, i : Push(u, Bit(val, Shift(order, i - 1))), v, [i \in 1..count |-> i])

\* Extend with each of a slice of bytes, as Encode does with a varint.
ExtendAll(v, bs, order) == FoldLeft(LAMBDA u, b : Extend(u, b, 8, order), v, bs)

Take(v, index, count, order) ==
  FoldLeft(LAMBDA s, i : s + Get(v, index + i - 1) * 2^Shift(order, i - 1), 0,
           [i \in 1..count |-> i])

-----------------------------------------------------------------------------
(* Encode.                                                                 *)

\* sort.Slice with <: each number goes behind the ones that are not larger.
Insert(t, x) == InsertAt(t, Cardinality({i \in 1..Len(t) : t[i] <= x}) + 1, x)
Sort(s) == FoldLeft(Insert, <<>>, s)

\* One step of the loop of RunLengths, where r has prev and the runs so far:
\* a neighbour lengthens the last run, a gap adds a run of zeroes and a new run,
\* a repeated number is ignored.
NextRun(r, cur) ==
  LET n == Len(r.runs) delta == cur - r.prev IN
  [prev |-> cur,
   runs |-> IF delta = 1 THEN [r.runs EXCEPT ![n] = @ + 1]
            ELSE IF delta > 1 THEN r.runs \o <<delta - 1, 1>> ELSE r.runs]

\* The loop.
NextRuns(r, s) == FoldLeft(NextRun, r, s)

\* The first bit and the lengths of the runs.
RunLengths(s) ==
  IF s = <<>> THEN [firstBit |-> 0, runs |-> <<>>]
  ELSE LET sorted == Sort(s)
           first == sorted[1]
           start == IF first = 0 THEN <<1>> ELSE <<first, 1>>
       IN  [firstBit |-> IF first = 0 THEN 1 ELSE 0,
            runs |-> NextRuns([prev |-> first, runs |-> start], Tail(sorted)).runs]

\* binary.PutUvarint.
PutUvarint[x \in Nat] ==
  IF x < 128 THEN <<x>> ELSE <<128 + (x % 128)>> \o PutUvarint[x \div 128]

\* The length of a slice is an int.
ASSUME RleAssumption ==
  /\ Word \in Nat \ {0}
  /\ MaxVarint = Len(PutUvarint[Word - 1])
  /\ \A s \in Inputs : s \in Seq(0..(Word - 1)) /\ Len(s) < Word \div 2
  /\ \A b \in Buffers : b \in Seq(0..255)

\* Mutant: a run of 16 is written into the four bits of a short block.
PushRunM(v, run) ==
  CASE run = 1  -> Push(v, 1)
    [] run > 1 /\ run <= 16 -> Extend(Push(Push(v, 0), 1), run % 16, 4, "LSB0")
    [] OTHER -> ExtendAll(Push(Push(v, 0), 0), PutUvarint[run], "LSB0")

\* A block: single, short, or long.
PushRun(v, run) ==
  CASE run = 1  -> Push(v, 1)
    [] run # 1 /\ run < 16 -> Extend(Push(Push(v, 0), 1), run, 4, "LSB0")
    [] OTHER -> ExtendAll(Push(Push(v, 0), 0), PutUvarint[run], "LSB0")

PushRuns(v, runs) == FoldLeft(PushRun, v, runs)

EncodeInts(s) ==
  LET r == RunLengths(s)
      header == Push(Extend(NewVector("LSB0"), Version, 2, "LSB0"), r.firstBit)
  IN  PushRuns(header, r.runs)

Encode ==
  /\ phase = "encode"
  /\ LET v == EncodeInts(ints) IN buf' = v.buf /\ len' = v.len
  /\ phase' = "header"
  /\ UNCHANGED <<raw, ints, cursor, curIdx, curBit, varint, out, overflow>>

-----------------------------------------------------------------------------
(* Decode.                                                                 *)

\* The n bits at an offset from the cursor of the iterator.
Peek(off, n) == Take(NewBitVector(buf, "LSB0"), cursor + off, n, "LSB0")

\* The empty slice decodes to nothing; otherwise version and first bit.
decodeHeader ==
  /\ phase = "header"
  /\ IF buf = <<>> THEN phase' = "done" /\ UNCHANGED <<cursor, curBit>>
     ELSE IF Peek(0, 2) # Version
     THEN phase' = "wrong version" /\ cursor' = 2 /\ UNCHANGED curBit
     ELSE phase' = "block" /\ cursor' = 3 /\ curBit' = Peek(2, 1)
  /\ UNCHANGED <<raw, ints, buf, len, curIdx, varint, out, overflow>>

\* int(x): two's complement.
Signed(x) == IF x < Word \div 2 THEN x ELSE x - Word

\* Mutant: the index advances by one too little.
EmitM(runLength) ==
  /\ out' = IF curBit = 1 THEN out \o [j \in 1..runLength |-> (curIdx + j - 1) % Word]
            ELSE out
  /\ curIdx' = (curIdx + runLength - 1) % Word
  /\ curBit' = 1 - curBit
  /\ overflow' = (overflow \/ runLength < 0 \/ curIdx + runLength >= Word)

\* The end of an iteration: emit the run if it is one of ones, and flip.
Emit(runLength) ==
  /\ out' = IF curBit = 1 THEN out \o [j \in 1..runLength |-> (curIdx + j - 1) % Word]
            ELSE out
  /\ curIdx' = (curIdx + runLength) % Word
  /\ curBit' = 1 - curBit
  /\ overflow' = (overflow \/ runLength < 0 \/ curIdx + runLength >= Word)

single ==
  /\ phase = "block" /\ Peek(0, 1) = 1
  /\ cursor' = cursor + 1 /\ Emit(1)
  /\ UNCHANGED <<raw, ints, buf, len, phase, varint>>

short ==
  /\ phase = "block" /\ Peek(0, 1) = 0 /\ Peek(1, 1) = 1
  /\ cursor' = cursor + 6 /\ Emit(Peek(2, 4))
  /\ UNCHANGED <<raw, ints, buf, len, phase, varint>>

long ==
  /\ phase = "block" /\ Peek(0, 1) = 0 /\ Peek(1, 1) = 0
  /\ cursor' = cursor + 2 /\ phase' = "varint" /\ varint' = <<>>
  /\ UNCHANGED <<raw, ints, buf, len, curIdx, curBit, out, overflow>>

\* A byte that is not the last one of its varint; too many of them are an error.
varintByte ==
  LET b == Peek(0, 8) IN
  /\ phase = "varint" /\ b >= 128
  /\ cursor' = cursor + 8 /\ varint' = Append(varint, b)
  /\ phase' = IF Len(varint) + 1 > MaxVarint THEN "error" ELSE phase
  /\ UNCHANGED <<raw, ints, buf, len, curIdx, curBit, out, overflow>>

\* binary.Uvarint: seven bits of each byte, the lowest first; zero when the
\* value does not fit a word.
Sevens(bs) == FoldLeft(LAMBDA n, b : 128 * n + (b % 128), 0, bs)
Uvarint(bs) ==
  LET n == Sevens(Reverse(bs)) IN IF Len(bs) > MaxVarint \/ n >= Word THEN 0 ELSE n

\* Mutant: a run of length zero does not end the loop.
varintEndM ==
  LET b == Peek(0, 8) x == Uvarint(Append(varint, b)) IN
  /\ phase = "varint" /\ b < 128
  /\ cursor' = cursor + 8 /\ phase' = "block" /\ Emit(Signed(x))
  /\ UNCHANGED <<raw, ints, buf, len, varint>>

\* The last byte: zero ends the loop.
varintEnd ==
  LET b == Peek(0, 8) x == Uvarint(Append(varint, b)) IN
  /\ phase = "varint" /\ b < 128
  /\ cursor' = cursor + 8 /\ phase' = IF x = 0 THEN "done" ELSE "block"
  /\ Emit(Signed(x))
  /\ UNCHANGED <<raw, ints, buf, len, varint>>

-----------------------------------------------------------------------------
Next == \/ Encode \/ decodeHeader \/ single \/ short \/ long \/ varintByte \/ varintEnd

Spec == Init /\ [][Next]_vars

-----------------------------------------------------------------------------
(* Properties.                                                             *)

Increasing(s) == \A j \in 2..Len(s) : s[j - 1] < s[j]

\* What Encode wrote, Decode reads: the numbers in increasing order, without
\* repetition, whatever the order and the repetitions of the argument, at the
\* limits of the three kinds of block and of the word.
RoundTrip ==
  ~raw => /\ phase \notin {"wrong version", "error"}
          /\ phase = "done" => ToSet(out) = ToSet(ints) /\ Increasing(out)

\* Decode does not know the length of an encoding: it relies on reading zeroes
\* behind the end, and stops at most 18 bits behind it (the last byte of a
\* varint and one empty long block), for every buffer.
BoundedRead == cursor <= 8 * Len(buf) + 18

\* For every buffer, the decoded numbers increase, unless a run does not fit a
\* signed word or the sum of the runs does not fit a word.
IncreasingUnlessOverflow == ~overflow => Increasing(out)

\* The length Encode returns is the number of bits it wrote, and the rest of
\* the last byte is zero, which Decode takes for the beginning of the end.
LengthExact ==
  ~raw /\ phase = "header" =>
    /\ Len(buf) = (len + 7) \div 8
    /\ \A k \in len..(8 * Len(buf) - 1) : Get(NewBitVector(buf, "LSB0"), k) = 0

\* Bytes that Extend added one after the other are what Take returns at their
\* places, in both bit orders and with both packings (bitvector.go: Extend, Take;
\* other widths than eight are those of the blocks, which RoundTrip is about).
TakeInvertsExtend ==
  phase = "header" =>
    \A packing, order \in Orders :
      LET v == ExtendAll(NewVector(packing), buf, order)
      IN  \A k \in 1..Len(buf) : Take(v, 8 * (k - 1), 8, order) = buf[k]
=============================================================================
