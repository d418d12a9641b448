--------------------------- MODULE SnappyRoundTrip --------------------------
(***************************************************************************)
(* What dpu_compress emits decompresses to its input: for every input, its *)
(* place, every hash function, and every block size whose offsets fit in   *)
(* the entries of the table.                                               *)
(***************************************************************************)
EXTENDS SnappyProofs

Fits == call.block_size <= UINT16

(* Where the decompressor is in the input.                                 *)
Position == input.curr - matched

Decoded ==
  /\ input.curr <= Len(call.data)
  /\ decoded \in Seq(Byte)
  /\ Len(decoded) = Position - block.base
  /\ \A i \in 1 .. Len(decoded) : decoded[i] = InputByte(block.base + (i - 1))

(* What is left of a match repeats what lies offset bytes back, and is not *)
(* too short for a tag.                                                    *)
Pending ==
  matched > 0 =>
    /\ matched >= 4
    /\ offset \in 1 .. Position - block.base
    /\ \A j \in 0 .. matched - 1 : InputByte(Position + j) = InputByte((Position + j) - offset)

(* The candidate of a match that begins holds the same word.               *)
SameWord == Copying => MramWord(curr_input) = MramWord(candidate)

RoundInv == Decoded /\ Pending /\ SameWord

-----------------------------------------------------------------------------
(* Periods.                                                                *)

LEMMA ShiftedRemainder ==
  ASSUME NEW x \in Nat, NEW y \in Nat \ {0}, x >= y
  PROVE  (x - y) % y = x % y
<1> DEFINE a == x % y
           b == (x - y) % y
           q == x \div y
           p == (x - y) \div y
           k == (q - p) - 1
<1>1. a \in 0 .. y - 1 /\ q \in Nat /\ x = y * q + a
  BY Division
<1>2. b \in 0 .. y - 1 /\ p \in Nat /\ x - y = y * p + b
  <2>1. x - y \in Nat
    OBVIOUS
  <2> QED BY <2>1, Division
<1> HIDE DEF a, b, q, p
<1>3. k \in Int /\ b - a = y * k
  <2>1. y * k = y * q - y * p - y
    BY <1>1, <1>2
  <2>2. y * q \in Int /\ y * p \in Int
    BY <1>1, <1>2
  <2> HIDE DEF k
  <2>3. b - a = y * q - y * p - y
    BY <1>1, <1>2, <2>2
  <2> QED BY <1>1, <1>2, <2>1, <2>3 DEF k
<1> HIDE DEF k
<1>4. k = 0
  <2>1. k >= 1 => y * k >= y
    BY <1>3
  <2>2. k <= -1 => y * k <= -y
    BY <1>3
  <2> QED BY <1>1, <1>2, <1>3, <2>1, <2>2
<1>5. a = b
  BY <1>1, <1>2, <1>3, <1>4
<1> QED
  BY <1>5 DEF a, b

(* What repeats itself back bytes apart is a repetition of back bytes.     *)
LEMMA Periodic ==
  ASSUME NEW p \in Nat, NEW back \in Nat \ {0}, back <= p, NEW m \in Nat,
         \A j \in 0 .. m - 1 : InputByte(p + j) = InputByte((p + j) - back)
  PROVE  \A j \in 0 .. m - 1 : InputByte(p + j) = InputByte((p - back) + (j % back))
<1> DEFINE Wrong(j) == InputByte(p + j) # InputByte((p - back) + (j % back))
           T == {j \in Nat : j < m /\ Wrong(j)}
<1>1. SUFFICES ASSUME T # {} PROVE FALSE
  <2>1. \A j \in 0 .. m - 1 : ~Wrong(j)
    <3> HIDE DEF Wrong
    <3> QED BY <1>1
  <2> QED BY <2>1
<1>2. PICK j \in T : \A i \in T : j <= i
  <2>1. T \subseteq Nat
    OBVIOUS
  <2> HIDE DEF T
  <2> QED BY <1>1, <2>1, LeastNumber
<1>3. j \in Nat /\ j < m /\ Wrong(j)
  OBVIOUS
<1>4. InputByte(p + j) = InputByte((p + j) - back)
  BY <1>3
<1>5. CASE j < back
  <2>1. j % back = j
    BY <1>3, <1>5, Remainder
  <2>2. (p + j) - back = (p - back) + j
    BY <1>3
  <2> QED BY <1>3, <1>4, <2>1, <2>2
<1>6. CASE ~(j < back)
  <2> DEFINE i == j - back
  <2>1. i \in Nat /\ i < j /\ i < m
    BY <1>3, <1>6
  <2>2. i \notin T
    <3> HIDE DEF T, i
    <3> QED BY <1>2, <1>3, <2>1
  <2>3. ~Wrong(i)
    <3> HIDE DEF Wrong, i
    <3> QED BY <2>1, <2>2
  <2>4. i % back = j % back
    <3>1. j \in Nat /\ back \in Nat \ {0} /\ j >= back
      BY <1>3, <1>6
    <3> HIDE DEF T
    <3> QED BY <3>1, ShiftedRemainder
  <2>5. (p + j) - back = p + i
    BY <1>3
  <2> HIDE DEF i
  <2> QED BY <1>3, <1>4, <2>3, <2>4, <2>5
<1> QED
  BY <1>5, <1>6

-----------------------------------------------------------------------------
(* Where the reader stands.                                                *)

LEMMA InBlock ==
  ASSUME SInv, Active
  PROVE  /\ (input.curr + literal) + left <= block.end
         /\ block.end <= Len(call.data)
         /\ block.end - block.base <= call.block_size
<1>1. Numbers
  BY Numeric
<1>2. /\ block.end <= Len(call.data)
      /\ block.end - block.base <= call.block_size
  BY <1>1 DEF SInv, BlockInv, Numbers
<1>3. input_limit = block.end - 15
  BY DEF input_limit, input_margin_bytes
<1>4. CASE pc \in {"begin", "scan", "copy"}
  <2>1. literal = 0 /\ left = 0
    BY <1>4 DEF SInv, EmitInv
  <2>2. input.curr <= block.end
    BY <1>1, <1>3, <1>4 DEF SInv, ReaderInStep, PositionInv, MatchBehind, Beginning, Numbers
  <2> QED BY <1>1, <1>2, <2>1, <2>2 DEF Numbers
<1>5. CASE pc = "emit"
  <2>1. input.curr + literal + left = IF after = "return" THEN block.end ELSE curr_input
    BY <1>5 DEF SInv, ReaderInStep
  <2>2. after # "return" => curr_input <= block.end
    BY <1>1, <1>3, <1>5 DEF SInv, SnappyTypeOK, PositionInv, MatchBehind, Beginning, Numbers
  <2> QED BY <1>1, <1>2, <2>1, <2>2 DEF Numbers
<1> QED
  BY <1>4, <1>5 DEF Active

LEMMA Cached ==
  ASSUME call \in Calls, NEW in \in Reader,
         in.mram_addr + in.ptr = call.buffer + in.curr,
         NEW d \in Nat, in.ptr + d < 2 * P
  PROVE  CachedByte(in, in.ptr + d) = InputByte(in.curr + d)
<1> DEFINE i == in.ptr + d
           x == in.mram_addr + i - call.buffer
<1>1. /\ in.ptr \in Nat /\ in.mram_addr \in Nat /\ in.curr \in Nat
      /\ call.buffer \in Nat /\ P \in Nat
  BY PageSize, CallTypes DEF Reader
<1>2. x = in.curr + d /\ x >= 0
  BY <1>1
<1>3. CachedByte(in, i) = IF i < 2 * P /\ x >= 0 THEN InputByte(x) ELSE Filler
  BY DEF CachedByte, P
<1> HIDE DEF x
<1> QED
  BY <1>2, <1>3

LEMMA ByteType ==
  ASSUME call \in Calls, NEW i \in Nat
  PROVE  InputByte(i) \in Byte
<1>1. MramWord(i) \in [1 .. 4 -> Byte]
  BY WordType
<1>2. MramWord(i)[1] = InputByte(i + 1 - 1)
  BY DEF MramWord
<1>3. MramWord(i)[1] \in Byte /\ i + 1 - 1 = i
  BY <1>1
<1> QED
  BY <1>2, <1>3

(* Equal words are equal bytes.                                            *)
LEMMA WordBytes ==
  ASSUME NEW s \in Nat, NEW t \in Nat, NEW c \in 1 .. 4, MramWord(s)[c] = MramWord(t)[c]
  PROVE  InputByte(s + (c - 1)) = InputByte(t + (c - 1))
<1>1. MramWord(s)[c] = InputByte(s + c - 1) /\ MramWord(t)[c] = InputByte(t + c - 1)
  BY DEF MramWord
<1>2. s + c - 1 = s + (c - 1) /\ t + c - 1 = t + (c - 1)
  OBVIOUS
<1> QED
  BY <1>1, <1>2

-----------------------------------------------------------------------------
(* The steps.                                                              *)

(* Most actions change nothing that the decompressor sees.                 *)
LEMMA Frame ==
  ASSUME RoundInv, UNCHANGED <<call, input, block, decoded, matched, offset>>, SameWord'
  PROVE  RoundInv'
<1>1. Decoded' /\ Pending'
  BY DEF RoundInv, Decoded, Pending, Position, InputByte
<1> QED
  BY <1>1 DEF RoundInv

LEMMA SameWordKept ==
  ASSUME SameWord, Copying' => Copying, UNCHANGED <<call, curr_input, candidate>>
  PROVE  SameWord'
  BY DEF SameWord, MramWord, InputByte

LEMMA StartBlockRound ==
  ASSUME SInv, RoundInv, StartBlock
  PROVE  RoundInv'
<1>1. Numbers
  BY Numeric
<1>2. /\ pc = "blocks" /\ decoded' = <<>> /\ block'.base = input.curr
      /\ pc' \in {"begin", "blocks"}
      /\ UNCHANGED <<call, input, matched, offset>>
  BY DEF StartBlock, emitVars
<1>3. matched = 0
  BY <1>2 DEF SInv, EmitInv
<1>4. Decoded'
  <2>1. input'.curr <= Len(call'.data)
    BY <1>2 DEF RoundInv, Decoded
  <2>2. decoded' \in Seq(Byte) /\ Len(decoded') = 0
    BY <1>2, EmptySeq
  <2>3. Position' - block'.base = 0
    BY <1>1, <1>2, <1>3 DEF Position, Numbers
  <2>4. \A i \in 1 .. Len(decoded') : decoded'[i] = InputByte(block.base + (i - 1))'
    BY <2>2
  <2> QED BY <2>1, <2>2, <2>3, <2>4 DEF Decoded
<1>5. Pending' /\ SameWord'
  BY <1>2, <1>3 DEF Pending, SameWord, Copying
<1> QED
  BY <1>4, <1>5 DEF RoundInv

LEMMA ScanRound ==
  ASSUME SInv, RoundInv, Scan
  PROVE  RoundInv'
<1>1. Numbers
  BY Numeric
<1> DEFINE hval == hash(read_uint32(input, next_input))
           found == block.base + table[hval]
<1>2. /\ pc = "scan" /\ curr_input' = next_input
      /\ UNCHANGED <<call, input, block, decoded>>
  BY DEF Scan
<1>3. matched = 0
  BY <1>2 DEF SInv, EmitInv
<1>4. \/ pc' = "emit" /\ after' = "return" /\ matched' = 0
      \/ /\ pc' = "emit" /\ after' = "copy" /\ matched' = 0 /\ candidate' = found
         /\ read_uint32(input, next_input) = read_uint32(input, found)
      \/ pc' = "scan" /\ matched' = matched
  BY <1>2 DEF Scan, Emit, emitVars
<1>5. found \in Nat
  <2>1. hval \in Slots
    BY <1>1, HashOfRead DEF Numbers
  <2>2. table[hval] \in Nat
    <3>1. table \in [Slots -> 0 .. UINT16 - 1]
      BY DEF SInv, SnappyTypeOK, Slots
    <3> HIDE DEF hval
    <3> QED BY <2>1, <3>1, SnappyAssumption
  <2> HIDE DEF hval
  <2> QED BY <1>1, <2>2 DEF Numbers
<1> HIDE DEF found
<1>6. SameWord'
  <2>1. CASE pc' = "emit" /\ after' = "copy"
    <3>1. candidate' = found /\ read_uint32(input, next_input) = read_uint32(input, found)
      BY <1>4, <2>1
    <3>2. MramWord(next_input) = MramWord(found)
      BY <1>1, <1>5, <3>1, HashOfRead DEF Numbers
    <3> QED BY <1>2, <3>1, <3>2 DEF SameWord, MramWord, InputByte
  <2>2. CASE ~(pc' = "emit" /\ after' = "copy")
    BY <1>4, <2>2 DEF SameWord, Copying
  <2> QED BY <2>1, <2>2
<1>7. matched' = 0
  BY <1>3, <1>4
<1>8. Decoded' /\ Pending'
  BY <1>2, <1>3, <1>7 DEF RoundInv, Decoded, Pending, Position, InputByte
<1> QED
  BY <1>6, <1>8 DEF RoundInv

(* A match repeats what lies at the candidate.                             *)
LEMMA MatchRepeats ==
  ASSUME SInv, RoundInv, pc = "copy", NEW more \in Nat,
         more \in find_match_length(candidate + 4, curr_input + 4, block.end)
  PROVE  \A j \in 0 .. 3 + more : InputByte(curr_input + j) = InputByte(candidate + j)
<1>1. Numbers
  BY Numeric
<1> DEFINE s1 == candidate + 4
           s2 == curr_input + 4
           limit == block.end
<1>2. /\ s1 \in Nat /\ s2 \in Nat /\ limit \in Nat /\ s2 <= limit
      /\ more \in find_match_length(s1, s2, limit)
  BY <1>1 DEF Numbers, SInv, MatchBehind
<1>3. MramWord(curr_input) = MramWord(candidate)
  BY DEF RoundInv, SameWord, Copying
<1>4. PICK fours \in Nat, rest \in Nat :
           /\ more = 4 * fours + rest
           /\ rest <= 3
           /\ more <= limit - s2
           /\ \A j \in 0 .. fours - 1 :
                read_uint32(input, s2 + 4 * j) = read_uint32(input, s1 + 4 * j)
           /\ \A c \in 1 .. rest :
                read_uint32(input, s2 + 4 * fours)[c] = read_uint32(input, s1 + 4 * fours)[c]
  <2> HIDE DEF s1, s2, limit
  <2>1. Extent(s1, s2, limit, more)
    BY <1>2, MatchLength
  <2> QED BY <2>1 DEF Extent
<1>5. ASSUME NEW f \in Nat, NEW c \in 1 .. 4, f < fours \/ (f = fours /\ c <= rest)
      PROVE  InputByte(s2 + (4 * f + (c - 1))) = InputByte(s1 + (4 * f + (c - 1)))
  <2> DEFINE t2 == s2 + 4 * f
             t1 == s1 + 4 * f
  <2>1. t1 \in Nat /\ t2 \in Nat
    BY <1>2
  <2>2. read_uint32(input, t2)[c] = read_uint32(input, t1)[c]
    <3>1. CASE f < fours
      <4>1. f \in 0 .. fours - 1
        BY <3>1
      <4>2. read_uint32(input, t2) = read_uint32(input, t1)
        BY <1>4, <4>1
      <4> HIDE DEF t1, t2
      <4> QED BY <4>2
    <3>2. CASE f = fours /\ c <= rest
      <4>1. c \in 1 .. rest
        BY <3>2
      <4> QED BY <1>4, <3>2, <4>1
    <3> QED BY <1>5, <3>1, <3>2
  <2> HIDE DEF t1, t2
  <2>3. MramWord(t2)[c] = MramWord(t1)[c]
    BY <2>1, <2>2, HashOfRead
  <2>4. InputByte(t2 + (c - 1)) = InputByte(t1 + (c - 1))
    BY <2>1, <2>3, WordBytes
  <2>5. t2 + (c - 1) = s2 + (4 * f + (c - 1)) /\ t1 + (c - 1) = s1 + (4 * f + (c - 1))
    <3> HIDE DEF s1, s2
    <3> QED BY <1>2 DEF t1, t2
  <2> QED BY <2>4, <2>5
<1>6. SUFFICES ASSUME NEW j \in 0 .. 3 + more
               PROVE  InputByte(curr_input + j) = InputByte(candidate + j)
  OBVIOUS
<1>7. CASE j < 4
  <2>1. j + 1 \in 1 .. 4 /\ (j + 1) - 1 = j
    BY <1>7
  <2>2. MramWord(curr_input)[j + 1] = MramWord(candidate)[j + 1]
    BY <1>3
  <2>3. curr_input \in Nat /\ candidate \in Nat
    BY <1>1 DEF Numbers
  <2>4. InputByte(curr_input + ((j + 1) - 1)) = InputByte(candidate + ((j + 1) - 1))
    BY <2>1, <2>2, <2>3, WordBytes
  <2> QED BY <2>1, <2>4
<1>8. CASE ~(j < 4)
  <2> DEFINE i == j - 4
             f == i \div 4
             b == i % 4
             c == b + 1
  <2>1. i \in Nat /\ i < more /\ j = i + 4
    BY <1>8
  <2>2. f \in Nat /\ b \in 0 .. 3 /\ i = 4 * f + b
    <3> HIDE DEF i
    <3> QED BY <2>1
  <2> HIDE DEF i, f, b
  <2>3. c \in 1 .. 4 /\ c - 1 = b
    BY <2>2
  <2>4. f < fours \/ (f = fours /\ c <= rest)
    BY <1>4, <2>1, <2>2
  <2> HIDE DEF c
  <2>5. InputByte(s2 + (4 * f + (c - 1))) = InputByte(s1 + (4 * f + (c - 1)))
    BY <1>5, <2>2, <2>3, <2>4
  <2>6. s2 + (4 * f + (c - 1)) = curr_input + j /\ s1 + (4 * f + (c - 1)) = candidate + j
    BY <1>1, <2>1, <2>2, <2>3 DEF Numbers
  <2> QED BY <2>5, <2>6
<1> QED
  BY <1>7, <1>8

LEMMA CopyRound ==
  ASSUME SInv, SInv', RoundInv, Copy
  PROVE  RoundInv'
<1>1. Numbers
  BY Numeric
<1>2. PICK more \in Nat :
           /\ more \in find_match_length(candidate + 4, curr_input + 4, block.end)
           /\ curr_input + 4 + more <= block.end
           /\ CopyTo(4 + more)
  BY CopyLength
<1> DEFINE here == curr_input + (4 + more)
<1>3. /\ pc = "copy" /\ pc' = "emit" /\ curr_input' = here
      /\ input' = advance_seqread(input, 4 + more)
      /\ matched' = 4 + more /\ offset' = curr_input - candidate
      /\ after' = "copy" => MramWord(here) = read_uint32(input', candidate')
      /\ UNCHANGED <<call, block, decoded>>
  BY <1>2 DEF Copy, CopyTo
<1>4. /\ input.curr = curr_input /\ matched = 0
      /\ candidate \in block.base .. curr_input - 1
      /\ block.end <= Len(call.data)
  BY <1>3, InBlock DEF SInv, ReaderInStep, EmitInv, MatchBehind, Active
<1>5. input'.curr = here /\ here \in Nat
  <2>1. input \in Reader /\ input.mram_addr % P = 0 /\ 4 + more \in Nat
    BY Numeric DEF SInv, ReaderInStep, P
  <2>2. input'.curr = input.curr + (4 + more)
    BY <1>3, <2>1, AdvanceMoves
  <2> QED BY <1>1, <1>4, <2>2 DEF Numbers
<1>6. /\ Position = curr_input /\ Position' = curr_input
      /\ here <= Len(call.data)
  BY SMTT(60), <1>1, <1>2, <1>3, <1>4, <1>5 DEF Position, Numbers
<1> HIDE DEF here
<1>7. Decoded'
  BY <1>3, <1>5, <1>6 DEF RoundInv, Decoded, InputByte
<1>8. Pending'
  <2>1. matched' >= 4 /\ offset' \in 1 .. Position' - block'.base
    BY <1>1, <1>3, <1>4, <1>6 DEF Numbers
  <2>2. ASSUME NEW j \in 0 .. matched' - 1
        PROVE  InputByte(curr_input + j) = InputByte((curr_input + j) - (curr_input - candidate))
    <3>1. j \in 0 .. 3 + more
      BY <1>3
    <3>2. InputByte(curr_input + j) = InputByte(candidate + j)
      BY <1>2, <1>3, <3>1, MatchRepeats
    <3>3. (curr_input + j) - (curr_input - candidate) = candidate + j
      BY <1>1, <3>1 DEF Numbers
    <3> QED BY <3>2, <3>3
  <2>3. \A j \in 0 .. matched' - 1 :
          InputByte(Position + j)' = InputByte((Position + j) - offset)'
    BY <1>3, <1>6, <2>2 DEF InputByte
  <2> QED BY <2>1, <2>3 DEF Pending
<1>9. SameWord'
  <2>1. CASE after' = "copy"
    <3>1. candidate' \in Nat /\ call' \in Calls /\ call \in Calls
      BY <1>3 DEF SInv, SnappyTypeOK
    <3>2. input' \in Reader /\ input'.mram_addr + input'.ptr = call.buffer + input'.curr
      BY <1>3 DEF SInv, SnappyTypeOK, ReaderInStep, Reader, P
    <3>3. read_uint32(input', candidate') = MramWord(candidate')
      BY <3>1, <3>2, ReadIsInput
    <3>4. MramWord(here) = MramWord(candidate')
      BY <1>3, <2>1, <3>3
    <3> QED BY <1>3, <3>4 DEF SameWord, MramWord, InputByte
  <2>2. CASE after' # "copy"
    BY <1>3, <2>2 DEF SameWord, Copying
  <2> QED BY <2>1, <2>2
<1> QED
  BY <1>7, <1>8, <1>9 DEF RoundInv

(* A copy that is not too short keeps its length and its distance.         *)
LEMMA CopyTagExact ==
  ASSUME NEW back \in Nat, back < UINT16, NEW len \in 4 .. 64
  PROVE  CopyTag(back, len).offset = back /\ CopyTag(back, len).len = len
<1>1. back % UINT16 = back
  BY SnappyAssumption, Remainder
<1>2. 1 + ((len - 1) % 64) = len
  OBVIOUS
<1>3. len < 12 => 4 + ((len - 4) % 8) = len
  OBVIOUS
<1> DEFINE y == 1 + ((len - 1) % 64)
           z == 4 + ((len - 4) % 8)
           m == back % UINT16
<1>4. y = len /\ (len < 12 => z = len) /\ m = back
  BY <1>1, <1>2, <1>3
<1>5. CopyTag(back, len) = IF len < 12 /\ back < COPY_1_OFFSETS
                           THEN [offset |-> back, len |-> z, bytes |-> 2]
                           ELSE [offset |-> m, len |-> y, bytes |-> 3]
  BY DEF CopyTag
<1> HIDE DEF y, z, m
<1> QED
  BY <1>4, <1>5

(* Nothing too short is left when a chunk has been taken.                  *)
LEMMA ChunkLeaves ==
  ASSUME NEW len \in Nat, len >= 4
  PROVE  /\ Chunk(len) \in 4 .. 64 /\ Chunk(len) <= len
         /\ len - Chunk(len) = 0 \/ len - Chunk(len) >= 4
  BY DEF Chunk

LEMMA EmitCopyRound ==
  ASSUME SInv, Fits, RoundInv, EmitCopy
  PROVE  RoundInv'
<1>1. Numbers
  BY Numeric
<1> DEFINE c == Chunk(matched)
           tag == CopyTag(offset, c)
           p == Position
           L == Len(decoded)
           t == [i \in 1 .. c |-> InputByte(p + (i - 1))]
<1>2. /\ pc = "emit" /\ matched > 0 /\ matched' = matched - c
      /\ decoded' = Decompress(decoded, tag)
      /\ UNCHANGED <<call, pc, input, block, offset, after, curr_input, candidate>>
  BY DEF EmitCopy, blockVars, scanVars
<1>3. /\ matched >= 4 /\ offset \in 1 .. p - block.base
      /\ \A j \in 0 .. matched - 1 : InputByte(p + j) = InputByte((p + j) - offset)
  BY <1>2 DEF RoundInv, Pending
<1>4. /\ c \in 4 .. 64 /\ c <= matched
      /\ matched' = 0 \/ matched' >= 4
  BY <1>1, <1>2, <1>3, ChunkLeaves DEF Numbers
<1> HIDE DEF c
<1>5. /\ decoded \in Seq(Byte) /\ L = p - block.base
      /\ \A i \in 1 .. L : decoded[i] = InputByte(block.base + (i - 1))
      /\ input.curr <= Len(call.data)
  BY DEF RoundInv, Decoded
<1>6. p \in Nat /\ L \in Nat /\ p = input.curr - matched /\ p = block.base + L
  <2>1. L \in Nat
    BY <1>5, LenProperties
  <2>2. p = input.curr - matched
    BY DEF Position
  <2> HIDE DEF p, L
  <2> QED BY SMTT(60), <1>1, <1>5, <2>1, <2>2 DEF Numbers
<1>7. tag.offset = offset /\ tag.len = c
  <2>1. input.curr <= block.end /\ block.end - block.base <= UINT16
    <3>1. (input.curr + literal) + left <= block.end /\ block.end - block.base <= call.block_size
      BY <1>2, InBlock DEF Active
    <3>2. UINT16 \in Nat /\ call.block_size <= UINT16
      BY SnappyAssumption DEF Fits
    <3>3. input.curr <= block.end
      BY <1>1, <3>1 DEF Numbers
    <3>4. block.end - block.base <= UINT16
      BY <1>1, <3>1, <3>2 DEF Numbers
    <3> QED BY <3>3, <3>4
  <2>2. offset < UINT16
    <3>1. UINT16 \in Nat
      BY SnappyAssumption
    <3>2. offset + block.base <= p
      BY <1>1, <1>3, <1>6 DEF Numbers
    <3>3. p <= input.curr - 4
      BY <1>1, <1>3, <1>6 DEF Numbers
    <3> HIDE DEF p, L
    <3> QED BY SMTT(60), <1>1, <1>6, <2>1, <3>1, <3>2, <3>3 DEF Numbers
  <2>3. offset \in Nat
    BY <1>1 DEF Numbers
  <2> QED BY <1>4, <2>2, <2>3, CopyTagExact
<1> HIDE DEF tag
<1>8. decoded' = decoded \o t
  <2>1. offset \in 1 .. L
    BY <1>1, <1>3, <1>5 DEF Numbers
  <2>2. ASSUME NEW i \in 1 .. c
        PROVE  decoded[L - offset + 1 + ((i - 1) % offset)] = InputByte(p + (i - 1))
    <3> DEFINE m == (i - 1) % offset
               k == L - offset + 1 + m
    <3> HIDE DEF p, L
    <3>1. i - 1 \in 0 .. matched - 1 /\ i - 1 \in Nat
      BY <1>1, <1>4, <2>2 DEF Numbers
    <3>2. m \in 0 .. offset - 1
      <4>1. offset \in Nat \ {0}
        BY <2>1
      <4> QED BY <3>1, <4>1, Remainder
    <3>3. InputByte(p + (i - 1)) = InputByte((p - offset) + m)
      <4>1. offset \in Nat \ {0} /\ offset <= p /\ matched \in Nat
        BY SMTT(60), <1>1, <1>6, <2>1 DEF Numbers
      <4>2. \A j \in 0 .. matched - 1 : InputByte(p + j) = InputByte((p - offset) + (j % offset))
        BY <1>3, <1>6, <4>1, Periodic
      <4> QED BY <3>1, <4>2
    <3> HIDE DEF m
    <3>4. k \in 1 .. L
      BY <1>6, <2>1, <3>2
    <3>5. block.base + (k - 1) = (p - offset) + m
      BY <1>1, <1>6, <2>1, <3>2 DEF Numbers
    <3> HIDE DEF k
    <3>6. decoded[k] = InputByte((p - offset) + m)
      BY <1>5, <3>4, <3>5
    <3> QED BY <3>3, <3>6 DEF k, m
  <2>3. Decompress(decoded, tag)
          = decoded \o [i \in 1 .. c |->
              IF offset \in 1 .. L THEN decoded[L - offset + 1 + ((i - 1) % offset)] ELSE Filler]
    BY <1>7 DEF Decompress
  <2>4. [i \in 1 .. c |->
           IF offset \in 1 .. L THEN decoded[L - offset + 1 + ((i - 1) % offset)] ELSE Filler] = t
    <3> HIDE DEF p, L
    <3> QED BY <2>1, <2>2
  <2> QED BY <1>2, <2>3, <2>4
<1>9. t \in Seq(Byte) /\ Len(t) = c /\ \A i \in 1 .. c : t[i] = InputByte(p + (i - 1))
  <2>1. call \in Calls /\ c \in Nat
    BY <1>4 DEF SInv, SnappyTypeOK
  <2>2. \A i \in 1 .. c : InputByte(p + (i - 1)) \in Byte
    <3> HIDE DEF p
    <3>1. \A i \in 1 .. c : p + (i - 1) \in Nat
      BY <1>6, <2>1
    <3> QED BY <2>1, <3>1, ByteType
  <2>3. t \in [1 .. c -> Byte]
    <3> HIDE DEF p
    <3> QED BY <2>2
  <2> HIDE DEF p
  <2>4. \A i \in 1 .. c : t[i] = InputByte(p + (i - 1))
    OBVIOUS
  <2> HIDE DEF t
  <2>5. t \in Seq(Byte)
    BY <2>1, <2>3, SeqDef
  <2>6. Len(t) = c
    BY <2>1, <2>3, <2>5, LenProperties
  <2> QED BY <2>4, <2>5, <2>6
<1> HIDE DEF t
<1>10. /\ decoded' \in Seq(Byte) /\ Len(decoded') = L + c
       /\ \A i \in 1 .. L + c : decoded'[i] = IF i <= L THEN decoded[i] ELSE t[i - L]
  BY ZenonT(60), <1>5, <1>8, <1>9, ConcatProperties
<1>11. Position' = p + c
  <2>1. Position' = input.curr - (matched - c)
    BY <1>2 DEF Position
  <2> HIDE DEF p
  <2> QED BY <1>1, <1>4, <1>6, <2>1 DEF Numbers
<1> HIDE DEF p, L
<1>12. Decoded'
  <2>1. Len(decoded') = Position' - block'.base
    <3>1. Len(decoded') = L + c /\ Position' = p + c /\ block'.base = block.base
      BY <1>2, <1>10, <1>11
    <3>2. L + c = (p + c) - block.base
      BY <1>1, <1>4, <1>6 DEF Numbers
    <3> QED BY <3>1, <3>2
  <2>2. ASSUME NEW i \in 1 .. L + c
        PROVE  decoded'[i] = InputByte(block.base + (i - 1))
    <3>1. CASE i <= L
      <4>1. i \in 1 .. L
        BY <1>4, <1>6, <3>1
      <4> QED BY <1>5, <1>10, <2>2, <3>1, <4>1
    <3>2. CASE ~(i <= L)
      <4>1. i - L \in 1 .. c /\ p + ((i - L) - 1) = block.base + (i - 1)
        BY <1>1, <1>4, <1>6, <3>2 DEF Numbers
      <4>2. t[i - L] = InputByte(block.base + (i - 1))
        BY <1>9, <4>1
      <4> QED BY <1>10, <2>2, <3>2, <4>2
    <3> QED BY <3>1, <3>2
  <2>3. \A i \in 1 .. Len(decoded') : decoded'[i] = InputByte(block.base + (i - 1))'
    BY <1>2, <1>10, <2>2 DEF InputByte
  <2> QED BY <1>2, <1>5, <1>10, <2>1, <2>3 DEF Decoded
<1>13. Pending'
  <2>1. CASE matched' > 0
    <3>1. matched' >= 4
      BY <1>4, <2>1
    <3>2. offset' \in 1 .. Position' - block'.base
      <4>1. offset' = offset /\ Position' = p + c /\ block'.base = block.base
        BY <1>2, <1>11
      <4>2. offset \in 1 .. p - block.base /\ c \in Nat
        BY <1>3, <1>4
      <4>3. L + c = (p + c) - block.base /\ L = p - block.base
        BY <1>1, <1>4, <1>6 DEF Numbers
      <4>4. offset \in 1 .. L + c
        <5>1. offset \in 1 .. L
          BY <4>2, <4>3
        <5>2. L \in Nat /\ c \in Nat
          BY <1>6, <4>2
        <5> QED BY <5>1, <5>2
      <4>5. offset \in 1 .. (p + c) - block.base
        BY <4>3, <4>4
      <4> QED BY <4>1, <4>5
    <3>3. ASSUME NEW j \in 0 .. matched' - 1
          PROVE  InputByte((p + c) + j) = InputByte(((p + c) + j) - offset)
      <4>1. j + c \in 0 .. matched - 1 /\ p + (j + c) = (p + c) + j
        <5>1. j \in 0 .. (matched - c) - 1
          BY <1>2
        <5>2. c \in Nat /\ c <= matched /\ matched \in Nat /\ p \in Nat
          BY <1>1, <1>4, <1>6 DEF Numbers
        <5> QED BY <5>1, <5>2
      <4> QED BY <1>3, <4>1
    <3>4. \A j \in 0 .. matched' - 1 :
            InputByte(Position + j)' = InputByte((Position + j) - offset)'
      BY <1>2, <1>11, <3>3 DEF InputByte
    <3> QED BY <3>1, <3>2, <3>4 DEF Pending
  <2>2. CASE ~(matched' > 0)
    BY <2>2 DEF Pending
  <2> QED BY <2>1, <2>2
<1>14. SameWord'
  BY <1>2, SameWordKept DEF RoundInv, Copying
<1> QED
  BY <1>12, <1>13, <1>14 DEF RoundInv

LEMMA CopyOutputBufferRound ==
  ASSUME SInv, RoundInv, CopyOutputBuffer
  PROVE  RoundInv'
<1>1. Numbers
  BY Numeric
<1> DEFINE n == Room(MakeRoom(output), left)
           copied == [k \in 1 .. n |-> CachedByte(input, input.ptr + k - 1)]
           L == Len(decoded)
<1>2. /\ pc = "emit" /\ matched = 0
      /\ input' = advance_seqread(input, n)
      /\ decoded' = decoded \o copied
      /\ UNCHANGED <<call, pc, block, curr_input, candidate, matched, after>>
  BY DEF CopyOutputBuffer, blockVars, scanVars
<1>3. n \in 0 .. left /\ n \in Nat /\ n <= P
  <2>1. n \in 0 .. left
    BY <1>1, <1>2, RoomFor DEF Numbers
  <2>2. n <= P
    <3>1. /\ Shape(MakeRoom(output))
          /\ MakeRoom(output).curr - MakeRoom(output).append_window \in 0 .. P - 1
      BY <1>2, RoomMade DEF SInv, SnappyTypeOK, P
    <3> DEFINE room == OUT_BUFFER_LENGTH - (MakeRoom(output).curr - MakeRoom(output).append_window)
    <3>2. room \in Nat /\ room <= P
      BY <3>1, PageSize DEF P, Shape
    <3>3. n = IF room < left THEN room ELSE left
      BY DEF Room
    <3> HIDE DEF room, n
    <3> QED BY <1>1, <3>2, <3>3 DEF Numbers
  <2> HIDE DEF n
  <2> QED BY <1>1, <2>1, <2>2 DEF Numbers
<1> HIDE DEF n
<1>4. call \in Calls /\ input \in Reader /\ input.mram_addr + input.ptr = call.buffer + input.curr
  BY Numeric DEF SInv, SnappyTypeOK, ReaderInStep
<1>5. /\ input.ptr \in Nat /\ input.ptr < P /\ input.curr \in Nat /\ P \in Nat
  BY <1>4, PageSize DEF Reader
<1>6. ASSUME NEW k \in 1 .. n
      PROVE  copied[k] = InputByte(input.curr + (k - 1)) /\ copied[k] \in Byte
  <2> DEFINE d == k - 1
  <2>1. d \in Nat /\ input.ptr + d < 2 * P /\ input.curr + d \in Nat
    BY <1>3, <1>5
  <2>2. input.ptr + k - 1 = input.ptr + d
    BY <1>5
  <2>3. copied[k] = CachedByte(input, input.ptr + k - 1)
    OBVIOUS
  <2> HIDE DEF d
  <2>4. CachedByte(input, input.ptr + d) = InputByte(input.curr + d)
    BY <1>4, <2>1, Cached
  <2>5. InputByte(input.curr + d) \in Byte
    BY <1>4, <2>1, ByteType
  <2> HIDE DEF copied
  <2>6. copied[k] = InputByte(input.curr + d)
    BY <2>2, <2>3, <2>4
  <2> QED BY <2>5, <2>6 DEF d
<1>7. copied \in Seq(Byte) /\ Len(copied) = n
  <2>1. copied \in [1 .. n -> Byte]
    <3>1. copied = [k \in 1 .. n |-> copied[k]]
      OBVIOUS
    <3> HIDE DEF copied
    <3> QED BY <1>6, <3>1
  <2> HIDE DEF copied
  <2>2. copied \in Seq(Byte)
    BY <1>3, <2>1, SeqDef
  <2> QED BY <1>3, <2>1, <2>2, LenProperties
<1> HIDE DEF copied
<1>8. input'.curr = input.curr + n
  <2>1. input.mram_addr % P = 0
    BY DEF SInv, ReaderInStep, P
  <2> QED BY <1>2, <1>3, <1>4, <2>1, AdvanceMoves
<1>9. /\ decoded \in Seq(Byte) /\ L \in Nat /\ L = input.curr - block.base
      /\ \A i \in 1 .. L : decoded[i] = InputByte(block.base + (i - 1))
  <2>1. Position = input.curr
    BY <1>1, <1>2 DEF Position, Numbers
  <2>2. decoded \in Seq(Byte)
    BY DEF RoundInv, Decoded
  <2>3. L \in Nat
    BY <2>2, LenProperties
  <2> QED BY <2>1, <2>2, <2>3 DEF RoundInv, Decoded
<1>10. /\ decoded' \in Seq(Byte) /\ Len(decoded') = L + n
       /\ \A i \in 1 .. L + n : decoded'[i] = IF i <= L THEN decoded[i] ELSE copied[i - L]
  BY <1>2, <1>7, <1>9, ConcatProperties
<1> HIDE DEF L
<1>11. input'.curr <= Len(call'.data)
  <2>1. (input.curr + literal) + left <= block.end /\ block.end <= Len(call.data)
    BY <1>2, InBlock DEF Active
  <2>2. input.curr + n <= Len(call.data)
    BY <1>1, <1>3, <2>1 DEF Numbers
  <2> QED BY <1>2, <1>8, <2>2
<1>12. Decoded'
  <2>1. Len(decoded') = Position' - block'.base
    <3>1. Position' = input'.curr - 0 /\ block'.base = block.base
      BY <1>2 DEF Position
    <3>2. L + n = (input.curr + n) - block.base
      BY <1>1, <1>3, <1>9 DEF Numbers
    <3>3. (input.curr + n) - 0 = input.curr + n
      BY <1>3, <1>5
    <3> QED BY <1>8, <1>10, <3>1, <3>2, <3>3
  <2>2. ASSUME NEW i \in 1 .. L + n
        PROVE  decoded'[i] = InputByte(block.base + (i - 1))
    <3>1. CASE i <= L
      <4>1. i \in 1 .. L
        BY <1>3, <1>9, <3>1
      <4> QED BY <1>9, <1>10, <2>2, <3>1, <4>1
    <3>2. CASE ~(i <= L)
      <4>1. i - L \in 1 .. n /\ input.curr + ((i - L) - 1) = block.base + (i - 1)
        <5>1. /\ input.curr = block.base + L /\ block.base \in Nat
              /\ L \in Nat /\ n \in Nat /\ i > L
          BY SMTT(60), <1>1, <1>3, <1>9, <3>2 DEF Numbers
        <5> QED BY <5>1
      <4>2. copied[i - L] = InputByte(block.base + (i - 1))
        BY <1>6, <4>1
      <4> QED BY <1>10, <2>2, <3>2, <4>2
    <3> QED BY <3>1, <3>2
  <2>3. \A i \in 1 .. Len(decoded') : decoded'[i] = InputByte(block.base + (i - 1))'
    BY <1>2, <1>10, <2>2 DEF InputByte
  <2> QED BY <1>10, <1>11, <2>1, <2>3 DEF Decoded
<1>13. Pending' /\ SameWord'
  <2>1. Pending'
    BY <1>2 DEF Pending
  <2>2. SameWord'
    BY <1>2, SameWordKept DEF RoundInv, Copying
  <2> QED BY <2>1, <2>2
<1> QED
  BY <1>12, <1>13 DEF RoundInv

(* The actions that the decompressor does not see.                         *)
LEMMA OtherRound ==
  ASSUME SInv, RoundInv,
         \/ Begin \/ Finish \/ EmitLiteral \/ WriteOutputBuffer \/ Emitted \/ Return
         \/ UNCHANGED vars
  PROVE  RoundInv'
<1>1. CASE Begin
  <2>1. /\ UNCHANGED <<call, input, block, decoded, matched, offset>> /\ pc' = "scan"
    BY <1>1 DEF Begin, emitVars
  <2> QED BY <2>1, Frame DEF SameWord, Copying
<1>2. CASE Finish
  <2>1. /\ UNCHANGED <<call, input, block, decoded, matched, offset>> /\ pc' = "done"
    BY <1>2 DEF Finish, blockVars, emitVars
  <2> QED BY <2>1, Frame DEF SameWord, Copying
<1>3. CASE Return
  <2>1. /\ UNCHANGED <<call, input, block, decoded, matched, offset>> /\ pc' = "blocks"
    BY <1>3 DEF Return, blockVars, emitVars
  <2> QED BY <2>1, Frame DEF SameWord, Copying
<1>4. CASE EmitLiteral \/ WriteOutputBuffer \/ UNCHANGED vars
  <2>1. /\ UNCHANGED <<call, input, block, decoded, matched, offset>>
        /\ UNCHANGED <<pc, after, curr_input, candidate>>
    BY <1>4 DEF EmitLiteral, WriteOutputBuffer, vars, blockVars, scanVars, emitVars
  <2>2. SameWord'
    BY <2>1, SameWordKept DEF RoundInv, Copying
  <2> QED BY <2>1, <2>2, Frame
<1>5. CASE Emitted
  <2>1. /\ UNCHANGED <<call, input, block, decoded, matched, offset>>
        /\ UNCHANGED <<after, curr_input, candidate>> /\ pc = "emit" /\ pc' = after
    BY <1>5 DEF Emitted, AllEmitted, blockVars, scanVars, emitVars
  <2>2. Copying' => Copying
    BY <2>1 DEF Copying
  <2>3. SameWord'
    BY <2>1, <2>2, SameWordKept DEF RoundInv
  <2> QED BY <2>1, <2>3, Frame
<1> QED
  BY <1>1, <1>2, <1>3, <1>4, <1>5

-----------------------------------------------------------------------------
(* The theorem.                                                            *)

LEMMA InitRound ==
  ASSUME Init
  PROVE  RoundInv
<1>1. SInv
  BY InitInv
<1>2. Numbers
  BY <1>1, Numeric
<1>3. pc = "blocks" /\ decoded = <<>> /\ matched = 0 /\ block.base = 0
  BY DEF Init
<1>4. input.curr = 0
  <2>1. call.buffer \in Nat
    BY <1>1, CallTypes DEF SInv, SnappyTypeOK
  <2> DEFINE r == [curr |-> 0, ptr |-> 0, mram_addr |-> MRAM_SIZE]
  <2>2. r \in Reader /\ r.curr = 0 /\ r.mram_addr = MRAM_SIZE
    BY SnappyAssumption DEF Reader, P
  <2>3. r.mram_addr % P = 0
    BY <2>2, PageSize
  <2>4. input = seqread_seek(r, call.buffer)
    BY DEF Init
  <2> HIDE DEF r
  <2> QED BY <2>1, <2>2, <2>3, <2>4, SeekReaches
<1>5. Decoded
  <2>1. decoded \in Seq(Byte) /\ Len(decoded) = 0
    BY <1>3, EmptySeq
  <2>2. Position - block.base = 0 /\ input.curr <= Len(call.data)
    BY <1>2, <1>3, <1>4 DEF Position, Numbers
  <2> QED BY <2>1, <2>2 DEF Decoded
<1>6. Pending /\ SameWord
  BY <1>3 DEF Pending, SameWord, Copying
<1> QED
  BY <1>5, <1>6 DEF RoundInv

LEMMA StepRound ==
  ASSUME SInv, SInv', Fits, RoundInv, [Next]_vars
  PROVE  RoundInv'
<1>1. CASE StartBlock
  BY <1>1, StartBlockRound
<1>2. CASE Scan
  BY <1>2, ScanRound
<1>3. CASE Copy
  BY <1>3, CopyRound
<1>4. CASE EmitCopy
  BY <1>4, EmitCopyRound
<1>5. CASE CopyOutputBuffer
  BY <1>5, CopyOutputBufferRound
<1>6. CASE \/ Begin \/ Finish \/ EmitLiteral \/ WriteOutputBuffer \/ Emitted \/ Return
           \/ UNCHANGED vars
  BY <1>6, OtherRound
<1> QED
  BY <1>1, <1>2, <1>3, <1>4, <1>5, <1>6 DEF Next

LEMMA CallKept ==
  ASSUME [Next]_vars
  PROVE  call' = call
<1>1. ASSUME Next PROVE call' = call
  BY <1>1 DEF Next, StartBlock, Finish, Begin, Scan, Copy, EmitCopy, EmitLiteral,
              WriteOutputBuffer, CopyOutputBuffer, Emitted, Return
<1> QED
  BY <1>1 DEF vars

LEMMA RoundIsTrip ==
  ASSUME SInv, Fits => RoundInv
  PROVE  RoundTrip
<1>1. SUFFICES ASSUME Fits PROVE decoded = SubSeq(call.data, block.base + 1, input.curr - matched)
  BY DEF RoundTrip, Fits
<1>2. Numbers
  BY Numeric
<1> DEFINE n == Position
           s == SubSeq(call.data, block.base + 1, n)
           L == Len(decoded)
<1>3. /\ decoded \in Seq(Byte) /\ L \in Nat /\ L = n - block.base
      /\ \A i \in 1 .. L : decoded[i] = InputByte(block.base + (i - 1))
      /\ n \in Int /\ n <= Len(call.data)
  <2>1. RoundInv
    BY <1>1
  <2>2. decoded \in Seq(Byte) /\ input.curr <= Len(call.data)
    BY <2>1 DEF RoundInv, Decoded
  <2>3. L \in Nat
    BY <2>2, LenProperties
  <2>4. n \in Int /\ n <= Len(call.data)
    BY <1>2, <2>2 DEF Position, Numbers
  <2> QED BY <2>1, <2>2, <2>3, <2>4 DEF RoundInv, Decoded
<1>4. call.data \in Seq(Byte) /\ Len(call.data) \in Nat
  BY CallTypes DEF SInv, SnappyTypeOK
<1> HIDE DEF n
<1>5. \A i \in block.base + 1 .. n : call.data[i] \in Byte
  <2>1. \A i \in block.base + 1 .. n : i \in 1 .. Len(call.data)
    BY <1>2, <1>3, <1>4 DEF Numbers
  <2> QED BY <1>4, <2>1, ElementOfSeq
<1>6. /\ s \in Seq(Byte) /\ Len(s) = L
      /\ \A i \in 1 .. L : s[i] = call.data[block.base + 1 + i - 1]
  <2> DEFINE m == block.base + 1
  <2>1. m \in Int /\ n \in Int
    BY <1>2, <1>3 DEF Numbers
  <2>2. /\ s \in Seq(Byte) /\ Len(s) = IF m <= n THEN n - m + 1 ELSE 0
        /\ \A i \in 1 .. n - m + 1 : s[i] = call.data[m + i - 1]
    BY <1>5, <2>1, SubSeqProperties
  <2>3. n - m + 1 = L /\ (~(m <= n) => L = 0)
    BY <1>2, <1>3 DEF Numbers
  <2> HIDE DEF s, m, L
  <2>4. Len(s) = L
    BY <2>2, <2>3
  <2> QED BY <2>2, <2>3, <2>4 DEF m
<1> HIDE DEF s
<1>7. \A i \in 1 .. L : decoded[i] = s[i]
  <2> TAKE i \in 1 .. L
  <2>1. decoded[i] = InputByte(block.base + (i - 1))
    BY <1>3
  <2> HIDE DEF L
  <2>2. /\ block.base + (i - 1) < Len(call.data)
        /\ block.base + (i - 1) + 1 = block.base + 1 + i - 1
    <3>1. /\ L \in Nat /\ n = block.base + L /\ n <= Len(call.data)
          /\ block.base \in Nat /\ Len(call.data) \in Nat
      BY <1>2, <1>3, <1>4 DEF Numbers
    <3> QED BY <3>1
  <2> QED BY <1>6, <2>1, <2>2 DEF InputByte
<1>8. decoded = s
  BY <1>3, <1>6, <1>7, SeqEqual
<1> QED
  BY <1>8 DEF s, n, Position

(* What has been emitted of a block decompresses to the input up to the    *)
(* reader: the comment on hash, "any hash function will produce a valid    *)
(* compressed bitstream".                                                  *)
THEOREM AnyHashRoundTrips == Spec => []RoundTrip
<1> DEFINE Inv == SInv /\ (Fits => RoundInv)
<1>1. Init => Inv
  BY InitInv, InitRound
<1>2. Inv /\ [Next]_vars => Inv'
  <2>1. SUFFICES ASSUME Inv, [Next]_vars PROVE Inv'
    OBVIOUS
  <2>2. SInv'
    BY <2>1, StepInv
  <2>3. Fits' => Fits
    BY <2>1, CallKept DEF Fits
  <2> QED BY <2>1, <2>2, <2>3, StepRound
<1>3. Inv => RoundTrip
  BY RoundIsTrip
<1> HIDE DEF Inv
<1> QED
  BY <1>1, <1>2, <1>3, PTL DEF Spec
=============================================================================
