---------------------------- MODULE SnappyProofs ----------------------------
(***************************************************************************)
(* Theorems about Snappy, for every size of the pages and of the table,    *)
(* every hash function, and every input, its place and its block size.     *)
(***************************************************************************)
EXTENDS Snappy, TLAPS, SequenceTheorems, WellFoundedInduction

P == OUT_BUFFER_LENGTH
Slots == 0 .. NumTableEntries - 1
Reader == [curr : Nat, ptr : 0 .. P - 1, mram_addr : Nat]

-----------------------------------------------------------------------------
(* Arithmetic.                                                             *)

(* Euclidean division.                                                     *)
LEMMA Division ==
  ASSUME NEW x \in Nat, NEW y \in Nat \ {0}
  PROVE  /\ x \div y \in Nat
         /\ x % y \in 0 .. y - 1
         /\ x = y * (x \div y) + (x % y)
  OBVIOUS

(* Remainders are no larger than what they are taken of.                   *)
LEMMA Remainder ==
  ASSUME NEW x \in Nat, NEW y \in Nat \ {0}
  PROVE  /\ x % y \in 0 .. y - 1
         /\ x % y <= x
         /\ x < y => x % y = x
<1> DEFINE q == x \div y
           r == x % y
<1>1. q \in Nat /\ r \in 0 .. y - 1 /\ x = y * q + r
  BY Division
<1>2. y * q \in Nat
  <2> HIDE DEF q
  <2> QED BY <1>1
<1>3. ASSUME x < y PROVE q = 0
  <2> HIDE DEF q, r
  <2>1. SUFFICES ASSUME q >= 1 PROVE FALSE
    BY <1>1
  <2>2. y * q >= y
    BY <2>1, <1>1
  <2> QED BY <2>2, <1>1, <1>2, <1>3
<1>4. r <= x
  <2> HIDE DEF q, r
  <2> QED BY <1>1, <1>2
<1>5. ASSUME x < y PROVE r = x
  <2>1. q = 0
    BY <1>3, <1>5
  <2> HIDE DEF q, r
  <2> QED BY <2>1, <1>1
<1> QED
  BY <1>1, <1>4, <1>5

(* A number that is a multiple of another, and the next one.               *)
LEMMA Multiples ==
  ASSUME NEW x \in Nat, NEW y \in Nat \ {0}
  PROVE  /\ (x - (x % y)) \in Nat
         /\ (x - (x % y)) % y = 0
         /\ x % y = 0 => (x + y) % y = 0
<1> DEFINE q == x \div y
           r == x % y
<1>1. q \in Nat /\ r \in 0 .. y - 1 /\ x = y * q + r
  BY Division
<1>2. \A k \in Nat : y * k \in Nat /\ (y * k) % y = 0
  OBVIOUS
<1>3. x - r = y * q
  <2>1. y * q \in Nat
    BY <1>1, <1>2
  <2> HIDE DEF q, r
  <2> QED BY <1>1, <2>1
<1>4. ASSUME r = 0 PROVE x + y = y * (q + 1)
  <2> HIDE DEF q, r
  <2> QED BY <1>1, <1>4
<1> QED
  <2>1. (x - r) \in Nat /\ (x - r) % y = 0
    BY <1>1, <1>2, <1>3
  <2>2. ASSUME r = 0 PROVE (x + y) % y = 0
    <3>1. q + 1 \in Nat
      BY <1>1
    <3> HIDE DEF q, r
    <3> QED BY <1>2, <1>4, <2>2, <3>1
  <2> QED BY <2>1, <2>2

(* The least-number principle.                                             *)
LEMMA LeastNumber ==
  ASSUME NEW T, T \subseteq Nat, T # {}
  PROVE  \E x \in T : \A y \in T : x <= y
<1> DEFINE R == {ss \in Nat \X Nat : ss[1] < ss[2]}
<1>1. IsWellFoundedOn(R, Nat)
  BY NatLessThanWellFounded DEF OpToRel
<1>2. \E x \in T : \A y \in T : ~ (<<y, x>> \in R)
  <2> HIDE DEF R
  <2> QED BY <1>1, WFMin
<1>3. PICK x \in T : \A y \in T : ~ (<<y, x>> \in R)
  BY <1>2
<1>4. ASSUME NEW y \in T PROVE x <= y
  <2>1. SUFFICES ASSUME y < x PROVE <<y, x>> \in R
    <3> HIDE DEF R
    <3> QED BY <1>3, <1>4
  <2> DEFINE ss == <<y, x>>
  <2>2. ss \in Nat \X Nat /\ ss[1] = y /\ ss[2] = x
    OBVIOUS
  <2> HIDE DEF ss
  <2>3. ss \in R
    BY <2>1, <2>2
  <2> QED BY <2>3 DEF ss
<1> QED
  BY <1>4

-----------------------------------------------------------------------------
(* The sequential reader.                                                  *)

LEMMA PageSize == P \in Nat /\ P > 4 /\ MRAM_SIZE % P = 0
  BY SnappyAssumption DEF P

(* The reader is set to an address, on the page it is on or on another.    *)
LEMMA SeekReaches ==
  ASSUME NEW in \in Reader, in.mram_addr % P = 0, NEW target \in Nat
  PROVE  /\ seqread_seek(in, target) \in Reader
         /\ seqread_seek(in, target).curr = in.curr
         /\ seqread_seek(in, target).mram_addr % P = 0
         /\ seqread_seek(in, target).mram_addr + seqread_seek(in, target).ptr = target
<1>1. CASE target - in.mram_addr \in 0 .. P - 1
  <2> DEFINE d == target - in.mram_addr
             s == [in EXCEPT !.ptr = d]
  <2>1. seqread_seek(in, target) = s
    BY <1>1 DEF seqread_seek, P
  <2>2. s \in Reader /\ s.curr = in.curr /\ s.ptr = d /\ s.mram_addr = in.mram_addr
    BY <1>1 DEF Reader
  <2>3. in.mram_addr \in Nat
    BY DEF Reader
  <2> HIDE DEF s
  <2>4. s.mram_addr + s.ptr = target
    BY <2>2, <2>3
  <2> QED BY <2>1, <2>2, <2>4
<1>2. CASE target - in.mram_addr \notin 0 .. P - 1
  <2> DEFINE r == target % P
  <2>1. r \in 0 .. P - 1 /\ (target - r) \in Nat /\ (target - r) % P = 0
    <3>1. P \in Nat \ {0}
      BY PageSize
    <3> QED BY <3>1, Remainder, Multiples
  <2>2. seqread_seek(in, target) = [in EXCEPT !.ptr = r, !.mram_addr = target - r]
    BY <1>2 DEF seqread_seek, P
  <2> HIDE DEF r
  <2> DEFINE s == [in EXCEPT !.ptr = r, !.mram_addr = target - r]
  <2>3. s \in Reader /\ s.curr = in.curr /\ s.ptr = r /\ s.mram_addr = target - r
    BY <2>1 DEF Reader
  <2> HIDE DEF s
  <2>4. s.mram_addr % P = 0 /\ s.mram_addr + s.ptr = target
    BY <2>1, <2>3, PageSize
  <2> QED BY <2>2, <2>3, <2>4 DEF s
<1> QED
  BY <1>1, <1>2

(* advance_seqread moves the reader on by len bytes.                       *)
LEMMA AdvanceMoves ==
  ASSUME NEW in \in Reader, in.mram_addr % P = 0, NEW len \in Nat
  PROVE  /\ advance_seqread(in, len) \in Reader
         /\ advance_seqread(in, len).curr = in.curr + len
         /\ advance_seqread(in, len).mram_addr % P = 0
         /\ advance_seqread(in, len).mram_addr + advance_seqread(in, len).ptr
              = in.mram_addr + in.ptr + len
<1> DEFINE target == in.mram_addr + in.ptr + len
           s == seqread_seek(in, target)
<1>1. in.ptr \in Nat /\ in.ptr < P /\ in.mram_addr \in Nat /\ in.curr \in Nat
  BY PageSize DEF Reader
<1>2. in.ptr % P = in.ptr
  <2>1. P \in Nat \ {0}
    BY PageSize
  <2> QED BY <1>1, <2>1, Remainder
<1>3. target \in Nat /\ seqread_tell(in) + len = target
  <2>1. seqread_tell(in) = in.mram_addr + in.ptr
    BY <1>2 DEF seqread_tell, P
  <2>2. target \in Nat
    BY <1>1
  <2> QED BY <2>1, <2>2
<1>4. s \in Reader /\ s.curr = in.curr /\ s.mram_addr % P = 0 /\ s.mram_addr + s.ptr = target
  <2> HIDE DEF target
  <2> QED BY <1>3, SeekReaches
<1> DEFINE a == [s EXCEPT !.curr = @ + len]
<1>5. advance_seqread(in, len) = a
  <2>1. advance_seqread(in, len)
          = [seqread_seek(in, seqread_tell(in) + len) EXCEPT !.curr = @ + len]
    BY DEF advance_seqread
  <2> HIDE DEF target
  <2>2. seqread_seek(in, seqread_tell(in) + len) = s
    BY <1>3
  <2> QED BY <2>1, <2>2
<1>6. /\ a \in Reader /\ a.curr = s.curr + len
      /\ a.mram_addr = s.mram_addr /\ a.ptr = s.ptr
  <2> HIDE DEF s
  <2> QED BY <1>4, <1>1 DEF Reader
<1> QED
  <2> HIDE DEF s, a
  <2> QED BY <1>1, <1>4, <1>5, <1>6

-----------------------------------------------------------------------------
(* The length of a match.                                                  *)

(* The search stops at the first word that differs or goes past the limit, *)
(* and the match ends in that word.                                        *)
Extent(s1, s2, limit, more) ==
  \E fours \in Nat, rest \in Nat :
    /\ more = 4 * fours + rest
    /\ rest <= 3
    /\ more <= limit - s2
    /\ \A j \in 0 .. fours - 1 :
         read_uint32(input, s2 + 4 * j) = read_uint32(input, s1 + 4 * j)
    /\ \A c \in 1 .. rest :
         read_uint32(input, s2 + 4 * fours)[c] = read_uint32(input, s1 + 4 * fours)[c]

LEMMA MatchLength ==
  ASSUME NEW s1 \in Nat, NEW s2 \in Nat, NEW limit \in Nat, s2 <= limit,
         NEW more \in find_match_length(s1, s2, limit)
  PROVE  Extent(s1, s2, limit, more)
<1> DEFINE Word(k, s) == read_uint32(input, s + 4 * k)
           Same(k) == Word(k, s2) = Word(k, s1)
           InLimit(k) == s2 + 4 * k <= limit - 4
           Stop(k) == /\ \A j \in 0 .. k - 1 : InLimit(j) /\ Same(j)
                      /\ ~(InLimit(k) /\ Same(k))
           fours == CHOOSE k \in 0 .. limit : Stop(k)
           Differs(b) == Word(fours, s2)[b + 1] # Word(fours, s1)[b + 1]
           ctz == IF Same(fours) THEN 0 .. 3
                  ELSE {b \in 0 .. 3 : Differs(b) /\ \A c \in 0 .. b - 1 : ~Differs(c)}
           room == limit - (s2 + 4 * fours)
<1>1. \E k \in 0 .. limit : Stop(k)
  <2> DEFINE T == {k \in Nat : ~(InLimit(k) /\ Same(k))}
  <2>1. limit \in T
    <3>1. ~InLimit(limit)
      OBVIOUS
    <3> HIDE DEF InLimit, Same
    <3> QED BY <3>1
  <2>2. PICK k \in T : \A y \in T : k <= y
    <3>1. T \subseteq Nat /\ T # {}
      BY <2>1
    <3> HIDE DEF T
    <3> QED BY <3>1, LeastNumber
  <2>3. k \in 0 .. limit
    <3>1. k \in Nat /\ k <= limit
      BY <2>1, <2>2
    <3> QED BY <3>1
  <2>4. Stop(k)
    <3> HIDE DEF InLimit, Same
    <3> QED BY <2>2, <2>3
  <2> QED BY <2>3, <2>4
<1>2. fours \in 0 .. limit /\ Stop(fours)
  <2> HIDE DEF Stop
  <2> QED BY <1>1
<1>3. PICK b \in ctz : more = 4 * fours + (IF b < room THEN b ELSE room)
  <2>1. find_match_length(s1, s2, limit)
          = {4 * fours + (IF b < room THEN b ELSE room) : b \in ctz}
    BY DEF find_match_length
  <2> HIDE DEF ctz, fours, room
  <2> QED BY <2>1
<1> DEFINE rest == IF b < room THEN b ELSE room
<1>4. b \in 0 .. 3
  <2> HIDE DEF Same, Differs
  <2> QED BY <1>3
<1>5. room \in Nat
  <2>1. CASE fours = 0
    <3> HIDE DEF fours
    <3> QED BY <2>1
  <2>2. CASE fours > 0
    <3>1. InLimit(fours - 1)
      <4> HIDE DEF fours, InLimit, Same
      <4> QED BY <1>2, <2>2
    <3> HIDE DEF fours
    <3> QED BY <3>1, <2>2, <1>2
  <2> QED
    <3> HIDE DEF fours, room
    <3> QED BY <2>1, <2>2, <1>2
<1>6. \A j \in 0 .. fours - 1 : Word(j, s2) = Word(j, s1)
  <2> HIDE DEF fours, InLimit, Word
  <2> QED BY <1>2
<1>7. ASSUME NEW c \in 1 .. rest PROVE Word(fours, s2)[c] = Word(fours, s1)[c]
  <2>1. CASE Same(fours)
    <3> HIDE DEF Word, fours
    <3> QED BY <2>1
  <2>2. CASE ~Same(fours)
    <3>1. \A d \in 0 .. b - 1 : ~Differs(d)
      <4> HIDE DEF Same, Differs
      <4> QED BY <2>2, <1>3
    <3>2. c - 1 \in 0 .. b - 1
      <4> HIDE DEF room
      <4> QED BY <1>4, <1>5
    <3>3. ~Differs(c - 1)
      <4> HIDE DEF Differs
      <4> QED BY <3>1, <3>2
    <3>4. c - 1 + 1 = c
      <4> HIDE DEF room
      <4> QED BY <1>4, <1>5
    <3> HIDE DEF Word, fours, rest
    <3> QED BY <3>3, <3>4
  <2> QED BY <2>1, <2>2
<1>8. /\ rest \in Nat /\ rest <= 3 /\ fours \in Nat
      /\ more = 4 * fours + rest /\ more <= limit - s2
  <2>1. rest \in Nat /\ rest <= 3 /\ rest <= room
    <3> HIDE DEF room
    <3> QED BY <1>4, <1>5
  <2>2. fours \in Nat /\ more = 4 * fours + rest
    <3>1. fours \in Nat
      <4> HIDE DEF fours
      <4> QED BY <1>2
    <3> HIDE DEF room, fours
    <3> QED BY <3>1, <1>3
  <2>3. 4 * fours + room = limit - s2
    <3> HIDE DEF fours
    <3> QED BY <2>2
  <2> HIDE DEF rest, room, fours
  <2> QED BY <1>5, <2>1, <2>2, <2>3
<1> HIDE DEF rest, fours
<1> QED
  BY <1>6, <1>7, <1>8 DEF Extent

-----------------------------------------------------------------------------
(* Words of the input.                                                     *)

LEMMA CallTypes ==
  ASSUME call \in Calls
  PROVE  /\ call.data \in Seq(Byte) /\ Len(call.data) \in Nat
         /\ call.buffer \in Nat
         /\ call.block_size \in Nat \ {0}
<1>1. call.data \in Seq(Byte) /\ call.buffer \in 0 .. MRAM_SIZE - 1 /\ call.block_size \in Nat \ {0}
  BY SnappyAssumption
<1> QED
  BY <1>1, SnappyAssumption

LEMMA WordType ==
  ASSUME call \in Calls, NEW at \in Nat
  PROVE  MramWord(at) \in [1 .. 4 -> Byte]
<1>1. ASSUME NEW i \in Nat PROVE InputByte(i) \in Byte
  <2>1. CASE i < Len(call.data)
    <3>1. i + 1 \in 1 .. Len(call.data)
      BY <2>1, CallTypes
    <3>2. call.data[i + 1] \in Byte
      BY <3>1, CallTypes, ElementOfSeq
    <3> QED BY <2>1, <3>2 DEF InputByte
  <2>2. CASE ~(i < Len(call.data))
    BY <2>2, SnappyAssumption DEF InputByte
  <2> QED BY <2>1, <2>2
<1>2. \A k \in 1 .. 4 : at + k - 1 \in Nat
  OBVIOUS
<1> QED
  BY <1>1, <1>2 DEF MramWord

LEMMA HashIsSlot ==
  ASSUME call \in Calls, NEW at \in Nat
  PROVE  hash(MramWord(at)) \in Slots
<1>1. MramWord(at) \in [1 .. 4 -> Byte]
  BY WordType
<1>2. call.hash \in DOMAIN Hash
  BY SnappyAssumption
<1>3. Hash[call.hash] \in [[1 .. 4 -> Byte] -> Slots]
  BY <1>2, SnappyAssumption DEF Slots
<1> QED
  BY <1>1, <1>3 DEF hash

(* What the cache holds is what MRAM holds.                                *)
LEMMA ReadIsInput ==
  ASSUME call \in Calls, NEW in \in Reader,
         in.mram_addr + in.ptr = call.buffer + in.curr,
         NEW at \in Nat
  PROVE  read_uint32(in, at) = MramWord(at)
<1> DEFINE d == at - in.curr
<1>1. /\ in.ptr \in Nat /\ in.ptr < P /\ in.mram_addr \in Nat /\ in.curr \in Nat
      /\ call.buffer \in Nat
  BY PageSize, CallTypes DEF Reader
<1>2. ASSUME d \in 0 .. P - 5, NEW k \in 1 .. 4
      PROVE  CachedByte(in, in.ptr + d + k - 1) = InputByte(at + k - 1)
  <2> DEFINE i == in.ptr + d + k - 1
             x == in.mram_addr + i - call.buffer
  <2>0. P \in Nat /\ d \in Int /\ d >= 0 /\ d <= P - 5 /\ k \in Int /\ k >= 1 /\ k <= 4
    BY <1>1, <1>2, PageSize
  <2>1. x = at + k - 1
    BY <1>1, <2>0
  <2>2. i < 2 * P
    <3> HIDE DEF d
    <3> QED BY <1>1, <2>0
  <2>3. x >= 0
    BY <2>1
  <2>4. CachedByte(in, i) = IF i < 2 * P /\ x >= 0 THEN InputByte(x) ELSE Filler
    BY DEF CachedByte, P
  <2> HIDE DEF i, x
  <2>5. CachedByte(in, i) = InputByte(at + k - 1)
    BY <2>1, <2>2, <2>3, <2>4
  <2> QED BY <2>5 DEF i
<1> QED
  BY <1>2 DEF read_uint32, MramWord, P

-----------------------------------------------------------------------------
(* The inductive invariant.                                                *)

Shape(o) ==
  /\ o = [curr |-> o.curr, append_window |-> o.append_window,
           window |-> o.window, buffer |-> o.buffer]
  /\ o.curr \in Nat
  /\ o.append_window \in Nat /\ o.append_window % P = 0

IsSequence(s) == s \in Seq({s[i] : i \in DOMAIN s})

(* What is left to emit: the bytes of one tag at a time, in between a      *)
(* literal's.                                                              *)
EmitInv ==
  /\ IsSequence(arr)
  /\ pc # "emit" => arr = <<>> /\ matched = 0 /\ literal = 0 /\ left = 0
  /\ matched > 0 \/ literal > 0 => left = 0

Active == pc \in {"begin", "scan", "copy", "emit"}

(* A block in work is in the input and none is short.                      *)
BlockInv ==
  /\ pc = "blocks" => input.curr + length_remain <= Len(call.data)
  /\ Active =>
       /\ block.end - block.base >= input_margin_bytes
       /\ block.end - block.base <= length_remain
       /\ block.base + length_remain <= Len(call.data)
       /\ block.end - block.base <= call.block_size

Beginning == pc = "begin" \/ (pc = "emit" /\ after = "begin")
Copying   == pc = "copy" \/ (pc = "emit" /\ after = "copy")

(* Where the search stands in the block.                                   *)
PositionInv ==
  /\ Active => block.base <= next_emit
  /\ Beginning => next_emit = curr_input /\ curr_input <= input_limit
  /\ pc = "scan" => /\ next_emit < next_input
                    /\ next_input <= input_limit + 1
                    /\ skip_bytes >= 32
  /\ Copying => next_emit <= curr_input

Here == IF pc = "scan" THEN next_input - 1 ELSE curr_input

(* Every entry of the table leads to a place that the search has passed.   *)
TableBehind ==
  pc = "scan" \/ Beginning \/ Copying =>
    \A s \in Slots : block.base + table[s] <= Here

(* The window has room again when a tag has been written.                  *)
WindowInv ==
  /\ Active /\ output.curr - output.append_window > P =>
       \/ pc \in {"begin", "scan"}
       \/ pc = "emit" /\ (arr # <<>> \/ matched > 0 \/ literal > 0)
  /\ pc = "blocks" =>
       \/ output.curr - output.append_window \in 0 .. P
       \/ ToCompress < input_margin_bytes /\ input.curr < Len(call.data)

SInv ==
  /\ SnappyTypeOK /\ ReaderInStep /\ MatchBehind
  /\ Shape(output) /\ EmitInv /\ BlockInv /\ PositionInv /\ TableBehind /\ WindowInv

-----------------------------------------------------------------------------
(* The types as the steps use them.                                        *)

Numbers ==
  /\ curr_input \in Nat /\ next_input \in Nat /\ skip_bytes \in Nat
  /\ candidate \in Nat /\ next_emit \in Nat
  /\ offset \in Nat /\ matched \in Nat /\ literal \in Nat /\ left \in Nat
  /\ length_remain \in Nat /\ Len(call.data) \in Nat /\ call.block_size \in Nat \ {0}
  /\ block.base \in Nat /\ block.end \in Nat /\ block.start \in Nat
  /\ input.curr \in Nat /\ input.ptr \in Nat /\ input.mram_addr \in Nat
  /\ P \in Nat /\ P > 4

LEMMA Numeric ==
  ASSUME SInv
  PROVE  Numbers /\ input \in Reader
<1>1. /\ curr_input \in Nat /\ next_input \in Nat /\ skip_bytes \in Nat
      /\ candidate \in Nat /\ next_emit \in Nat
      /\ offset \in Nat /\ matched \in Nat /\ literal \in Nat /\ left \in Nat
  BY DEF SInv, SnappyTypeOK
<1>2. block.base \in Nat /\ block.end \in Nat /\ block.start \in Nat
  BY DEF SInv, SnappyTypeOK
<1>3. call \in Calls
  BY DEF SInv, SnappyTypeOK
<1>4. length_remain \in Nat /\ Len(call.data) \in Nat /\ call.block_size \in Nat \ {0}
  BY <1>3, CallTypes DEF SInv, SnappyTypeOK
<1>5. input \in Reader
  BY DEF SInv, SnappyTypeOK, Reader, P
<1>6. input.curr \in Nat /\ input.ptr \in Nat /\ input.mram_addr \in Nat
  BY <1>5, PageSize DEF Reader
<1> QED
  BY <1>1, <1>2, <1>4, <1>5, <1>6, PageSize DEF Numbers

(* The output keeps its shape.                                             *)
LEMMA NewBuffer ==
  ASSUME NEW o, Shape(o), NEW b
  PROVE  [o EXCEPT !.buffer = b] = [curr |-> o.curr, append_window |-> o.append_window,
                                  window |-> o.window, buffer |-> b]
  BY DEF Shape

LEMMA NewCurr ==
  ASSUME NEW o, Shape(o), NEW c
  PROVE  [o EXCEPT !.curr = c] = [curr |-> c, append_window |-> o.append_window,
                                  window |-> o.window, buffer |-> o.buffer]
  BY DEF Shape

LEMMA NewWindow ==
  ASSUME NEW o, Shape(o), NEW w
  PROVE  [o EXCEPT !.window = w] = [curr |-> o.curr, append_window |-> o.append_window,
                                  window |-> w, buffer |-> o.buffer]
  BY DEF Shape

LEMMA NewWindowAndCurr ==
  ASSUME NEW o, Shape(o), NEW w, NEW c
  PROVE  [o EXCEPT !.window = w, !.curr = c]
           = [curr |-> c, append_window |-> o.append_window, window |-> w, buffer |-> o.buffer]
<1> DEFINE p == [o EXCEPT !.window = w]
           q == [p EXCEPT !.curr = c]
<1>1. [o EXCEPT !.window = w, !.curr = c] = q
  OBVIOUS
<1>2. p = [curr |-> o.curr, append_window |-> o.append_window, window |-> w, buffer |-> o.buffer]
  BY NewWindow
<1> HIDE DEF p
<1>3. /\ p.curr = o.curr /\ p.append_window = o.append_window
      /\ p.window = w /\ p.buffer = o.buffer
  BY <1>2
<1>4. Shape(p)
  BY <1>2, <1>3 DEF Shape
<1>5. q = [curr |-> c, append_window |-> p.append_window, window |-> p.window, buffer |-> p.buffer]
  BY <1>4, NewCurr
<1> QED
  BY <1>1, <1>3, <1>5

LEMMA NewBufferAndAppend ==
  ASSUME NEW o, Shape(o), NEW b, NEW a
  PROVE  [o EXCEPT !.buffer = b, !.append_window = a]
           = [curr |-> o.curr, append_window |-> a, window |-> o.window, buffer |-> b]
<1> DEFINE p == [o EXCEPT !.buffer = b]
           q == [p EXCEPT !.append_window = a]
<1>1. [o EXCEPT !.buffer = b, !.append_window = a] = q
  OBVIOUS
<1>2. p = [curr |-> o.curr, append_window |-> o.append_window, window |-> o.window, buffer |-> b]
  BY NewBuffer
<1> HIDE DEF p
<1>3. p = [curr |-> p.curr, append_window |-> p.append_window,
           window |-> p.window, buffer |-> p.buffer]
      /\ p.curr = o.curr /\ p.window = o.window /\ p.buffer = b
  BY <1>2
<1>4. q = [curr |-> p.curr, append_window |-> a, window |-> p.window, buffer |-> p.buffer]
  BY <1>3
<1> QED
  BY <1>1, <1>3, <1>4

(* The invariant after each action.                                        *)
LEMMA BeginStep ==
  ASSUME SInv, Begin
  PROVE  SInv'
<1>1. Numbers
  BY Numeric
<1>2. SnappyTypeOK'
  BY <1>1 DEF SInv, SnappyTypeOK, Begin, emitVars, Numbers
<1>3. ReaderInStep'
  BY DEF SInv, ReaderInStep, Begin, emitVars, PositionInv, Beginning
<1>4. MatchBehind'
  BY DEF Begin, MatchBehind
<1>5. Shape(output)'
  BY DEF SInv, Begin, Shape
<1>6. EmitInv'
  BY DEF SInv, EmitInv, Begin, emitVars
<1>7. BlockInv'
  BY DEF SInv, BlockInv, Begin, Active
<1>8. PositionInv'
  BY <1>1 DEF SInv, PositionInv, Begin, Active, Beginning, Copying,
                input_limit, input_margin_bytes, Numbers
<1>9. TableBehind'
  BY <1>1 DEF SInv, TableBehind, Begin, Beginning, Copying, Here, Numbers, Slots
<1>10. WindowInv'
  BY DEF SInv, WindowInv, Begin, Active
<1> QED
  BY <1>2, <1>3, <1>4, <1>5, <1>6, <1>7, <1>8, <1>9, <1>10 DEF SInv

LEMMA FinishStep ==
  ASSUME SInv, Finish
  PROVE  SInv'
<1>1. Numbers
  BY Numeric
<1>2. /\ output'.curr = output.curr /\ output'.append_window = output.append_window
      /\ Shape(output)'
  <2> DEFINE b == mram_write(output.buffer, output.window, output.append_window, FinalLength)
  <2>1. output' = [output EXCEPT !.buffer = b] \/ output' = output
    BY DEF Finish
  <2>2. Shape(output)
    BY DEF SInv
  <2> HIDE DEF b
  <2> QED BY <2>1, <2>2, NewBuffer DEF Shape
<1>3. output.curr - output.append_window \in 0 .. P
  <2>1. pc = "blocks" /\ input.curr >= Len(call.data)
    BY DEF Finish
  <2> QED BY <1>1, <2>1 DEF SInv, WindowInv, Numbers
<1>4. SnappyTypeOK'
  <2>1. /\ pc' = "done" /\ UNCHANGED <<call, input, length_remain, block, table>>
        /\ UNCHANGED <<curr_input, next_input, skip_bytes, candidate, next_emit>>
        /\ UNCHANGED <<offset, matched, literal, left, after>>
    BY DEF Finish, blockVars, scanVars, emitVars
  <2>2. output'.curr - output'.append_window \in 0 .. P
    BY <1>2, <1>3
  <2>3. output'.append_window \in Nat /\ output'.append_window % OUT_BUFFER_LENGTH = 0
    BY <1>2 DEF Shape, P
  <2>4. output'.curr - output'.append_window \in 0 .. OUT_BUFFER_LENGTH + 4
    BY <1>1, <2>2 DEF Numbers, P
  <2> QED BY <2>1, <2>3, <2>4 DEF SInv, SnappyTypeOK
<1>5. ReaderInStep'
  BY DEF SInv, ReaderInStep, Finish
<1>6. MatchBehind' /\ BlockInv' /\ PositionInv' /\ TableBehind' /\ WindowInv'
  BY DEF Finish, MatchBehind, BlockInv, PositionInv, TableBehind, WindowInv, Active, Beginning, Copying
<1>7. EmitInv'
  BY DEF SInv, EmitInv, Finish, emitVars
<1> QED
  BY <1>2, <1>4, <1>5, <1>6, <1>7 DEF SInv

LEMMA EmittedStep ==
  ASSUME SInv, Emitted
  PROVE  SInv'
<1>1. Numbers
  BY Numeric
<1>2. /\ pc = "emit" /\ pc' = after /\ after \in {"copy", "begin"}
      /\ arr = <<>> /\ matched = 0 /\ literal = 0 /\ left = 0
      /\ output' = output /\ input' = input /\ table' = table /\ block' = block
      /\ curr_input' = curr_input /\ next_emit' = next_emit /\ candidate' = candidate
      /\ call' = call /\ length_remain' = length_remain /\ after' = after
      /\ UNCHANGED emitVars /\ UNCHANGED scanVars
  BY DEF SInv, SnappyTypeOK, Emitted, AllEmitted, blockVars, scanVars, emitVars
<1>3. SnappyTypeOK'
  BY <1>1, <1>2 DEF SInv, SnappyTypeOK, Numbers, emitVars, scanVars
<1>4. ReaderInStep'
  BY <1>1, <1>2 DEF SInv, ReaderInStep, Numbers, PositionInv, Beginning
<1>5. MatchBehind'
  BY <1>2 DEF SInv, MatchBehind
<1>6. Shape(output)'
  BY <1>2 DEF SInv, Shape
<1>7. EmitInv'
  BY <1>2 DEF SInv, EmitInv, emitVars
<1>8. BlockInv'
  BY <1>2 DEF SInv, BlockInv, Active
<1>9. PositionInv'
  BY <1>2 DEF SInv, PositionInv, Active, Beginning, Copying, input_limit
<1>10. TableBehind'
  BY <1>2 DEF SInv, TableBehind, Beginning, Copying, Here, Slots
<1>11. WindowInv'
  BY <1>2 DEF SInv, WindowInv, Active
<1> QED
  BY <1>3, <1>4, <1>5, <1>6, <1>7, <1>8, <1>9, <1>10, <1>11 DEF SInv

-----------------------------------------------------------------------------
(* Tags.                                                                   *)

LEMMA SequenceOf ==
  ASSUME NEW n \in Nat, NEW f, f = [i \in 1 .. n |-> f[i]]
  PROVE  IsSequence(f) /\ Len(f) = n /\ (n > 0 => f # <<>>)
<1> DEFINE S == {f[i] : i \in DOMAIN f}
<1>1. f \in [1 .. n -> S]
  OBVIOUS
<1> HIDE DEF S
<1>2. f \in Seq(S)
  BY <1>1, SeqDef
<1>3. Len(f) = n
  BY <1>1, <1>2, LenProperties
<1> QED
  BY <1>2, <1>3, EmptySeq DEF IsSequence, S

LEMMA ChunkSize ==
  ASSUME NEW len \in Nat \ {0}
  PROVE  Chunk(len) \in 1 .. len
  BY DEF Chunk

LEMMA CopyTagType ==
  ASSUME NEW back \in Nat, NEW len \in Nat
  PROVE  /\ CopyTag(back, len).offset \in Nat
         /\ CopyTag(back, len).len \in Nat
         /\ CopyTag(back, len).bytes \in {2, 3}
<1>1. back % UINT16 \in Nat
  <2>1. UINT16 \in Nat \ {0}
    BY SnappyAssumption
  <2> QED BY <2>1, Division
<1>2. (len - 4) % 8 \in Nat /\ (len - 1) % 64 \in Nat
  OBVIOUS
<1> DEFINE x == (len - 4) % 8
           y == (len - 1) % 64
<1>3. 4 + x \in Nat /\ 1 + y \in Nat
  <2>1. x \in Nat /\ y \in Nat
    BY <1>2
  <2> HIDE DEF x, y
  <2> QED BY <2>1
<1> QED
  BY <1>1, <1>3 DEF CopyTag

LEMMA LiteralTagType ==
  ASSUME NEW len \in Nat
  PROVE  IsSequence(LiteralTag(len)) /\ LiteralTag(len) # <<>>
<1> DEFINE n == len - 1
           more == IF n < 60 THEN 0 ELSE IF n < 256 THEN 1 ELSE IF n < 256 * 256 THEN 2 ELSE 3
           f == [i \in 1 .. 1 + more |-> <<"literal", len, i>>]
<1>1. 1 + more \in Nat /\ 1 + more > 0
  OBVIOUS
<1> DEFINE m == 1 + more
<1>2. m \in Nat /\ m > 0
  BY <1>1
<1>3. f = [i \in 1 .. m |-> <<"literal", len, i>>]
  OBVIOUS
<1>4. f = [i \in 1 .. m |-> f[i]]
  <2> HIDE DEF m, f
  <2> QED BY <1>3
<1>5. IsSequence(f) /\ f # <<>>
  <2> HIDE DEF m, f
  <2> QED BY <1>2, <1>4, SequenceOf
<1>6. LiteralTag(len) = f
  BY DEF LiteralTag
<1> QED
  BY ZenonT(60), <1>5, <1>6

LEMMA EmitCopyStep ==
  ASSUME SInv, EmitCopy
  PROVE  SInv'
<1>1. Numbers
  BY Numeric
<1> DEFINE tag == CopyTag(offset, Chunk(matched))
<1>2. /\ pc = "emit" /\ pc' = "emit" /\ arr = <<>> /\ matched > 0
      /\ matched' = matched - Chunk(matched)
      /\ arr' = [i \in 1 .. tag.bytes |-> <<"copy", tag.offset, tag.len, i>>]
      /\ UNCHANGED <<call, input, output, length_remain, block, table>>
      /\ UNCHANGED <<curr_input, next_input, skip_bytes, candidate, next_emit>>
      /\ UNCHANGED <<offset, literal, left, after>>
  BY DEF EmitCopy, blockVars, scanVars
<1>3. matched' \in Nat /\ left = 0
  <2>1. Chunk(matched) \in 1 .. matched
    BY <1>1, <1>2, ChunkSize DEF Numbers
  <2> QED BY <1>1, <1>2, <2>1 DEF Numbers, SInv, EmitInv
<1>4. IsSequence(arr)' /\ arr' # <<>>
  <2>1. tag.offset \in Nat /\ tag.len \in Nat /\ tag.bytes \in {2, 3}
    <3>1. Chunk(matched) \in Nat
      BY <1>1, <1>2, ChunkSize DEF Numbers
    <3> QED BY <3>1, <1>1, CopyTagType DEF Numbers
  <2>2. tag.bytes \in Nat /\ tag.bytes > 0
    BY <2>1
  <2> HIDE DEF tag
  <2>3. arr' = [i \in 1 .. tag.bytes |-> arr'[i]]
    BY <1>2
  <2> QED BY <2>2, <2>3, SequenceOf DEF IsSequence
<1> HIDE DEF tag
<1>5. SnappyTypeOK'
  BY <1>1, <1>2, <1>3 DEF SInv, SnappyTypeOK
<1>6. ReaderInStep' /\ MatchBehind'
  BY <1>2 DEF SInv, ReaderInStep, MatchBehind
<1>7. Shape(output)'
  BY <1>2 DEF SInv, Shape
<1>8. EmitInv'
  BY <1>2, <1>3, <1>4 DEF EmitInv
<1>9. BlockInv' /\ PositionInv'
  BY <1>2 DEF SInv, BlockInv, PositionInv, Active, Beginning, Copying, input_limit
<1>10. TableBehind'
  BY <1>2 DEF SInv, TableBehind, Beginning, Copying, Here, Slots
<1>11. WindowInv'
  BY <1>2, <1>4 DEF WindowInv
<1> QED
  BY <1>5, <1>6, <1>7, <1>8, <1>9, <1>10, <1>11 DEF SInv

LEMMA EmitLiteralStep ==
  ASSUME SInv, EmitLiteral
  PROVE  SInv'
<1>1. Numbers
  BY Numeric
<1>2. /\ pc = "emit" /\ pc' = "emit" /\ arr = <<>> /\ matched = 0 /\ literal > 0
      /\ arr' = LiteralTag(literal) /\ left' = literal /\ literal' = 0
      /\ UNCHANGED <<call, input, output, length_remain, block, table>>
      /\ UNCHANGED <<curr_input, next_input, skip_bytes, candidate, next_emit>>
      /\ UNCHANGED <<offset, matched, after>>
  BY DEF EmitLiteral, blockVars, scanVars
<1>3. left = 0 /\ left' \in Nat
  BY <1>1, <1>2 DEF SInv, EmitInv, Numbers
<1>4. IsSequence(arr)' /\ arr' # <<>>
  BY <1>1, <1>2, LiteralTagType DEF Numbers
<1>5. SnappyTypeOK'
  BY <1>1, <1>2, <1>3 DEF SInv, SnappyTypeOK
<1>6. ReaderInStep' /\ MatchBehind'
  BY <1>1, <1>2, <1>3 DEF SInv, ReaderInStep, MatchBehind, Numbers
<1>7. Shape(output)'
  BY <1>2 DEF SInv, Shape
<1>8. EmitInv'
  BY <1>2, <1>3, <1>4 DEF EmitInv
<1>9. BlockInv' /\ PositionInv'
  BY <1>2 DEF SInv, BlockInv, PositionInv, Active, Beginning, Copying, input_limit
<1>10. TableBehind'
  BY <1>2 DEF SInv, TableBehind, Beginning, Copying, Here, Slots
<1>11. WindowInv'
  BY <1>2, <1>4 DEF WindowInv
<1> QED
  BY <1>5, <1>6, <1>7, <1>8, <1>9, <1>10, <1>11 DEF SInv

LEMMA StartBlockStep ==
  ASSUME SInv, StartBlock
  PROVE  SInv'
<1>1. Numbers
  BY Numeric
<1>2. /\ pc = "blocks" /\ input.curr < Len(call.data)
      /\ block' = [base |-> input.curr, end |-> input.curr + ToCompress,
                   start |-> output.curr + 4]
      /\ table' = TableReset /\ curr_input' = input.curr /\ next_emit' = input.curr
      /\ IF ToCompress >= input_margin_bytes
         THEN pc' = "begin" /\ length_remain' = length_remain
         ELSE pc' = "blocks" /\ length_remain' = length_remain - ToCompress
      /\ UNCHANGED <<call, input, next_input, skip_bytes, candidate>>
      /\ UNCHANGED <<offset, matched, literal, arr, left, after>>
  BY DEF StartBlock, emitVars
<1>3. /\ Shape(output)' /\ output'.curr = output.curr + 4
      /\ output'.append_window = output.append_window
  <2>1. output' = [output EXCEPT !.curr = output.curr + 4]
    BY DEF StartBlock
  <2>2. Shape(output) /\ output.curr + 4 \in Nat
    BY DEF SInv, Shape
  <2> QED BY <2>1, <2>2, NewCurr DEF Shape
<1>4. /\ ToCompress \in Nat /\ ToCompress <= length_remain
      /\ ToCompress <= call.block_size
  BY <1>1 DEF ToCompress, Numbers
<1>5. ToCompress < input_margin_bytes => ToCompress' < input_margin_bytes
  BY <1>1, <1>2 DEF ToCompress, Numbers, input_margin_bytes
<1>6. SnappyTypeOK'
  <2>1. length_remain' \in 0 .. Len(call.data) /\ call \in Calls
    BY SMTT(60), <1>1, <1>2, <1>4 DEF SInv, SnappyTypeOK, Numbers
  <2>2. block' \in [base : Nat, end : Nat, start : Nat]
    <3>1. input.curr + ToCompress \in Nat /\ input.curr \in Nat
      BY <1>1, <1>4 DEF Numbers
    <3>2. output.curr + 4 \in Nat
      BY <1>3 DEF Shape
    <3> QED BY <1>2, <3>1, <3>2
  <2>3. table' \in [0 .. NumTableEntries - 1 -> 0 .. UINT16 - 1]
    BY <1>2, SnappyAssumption DEF TableReset
  <2>4. output'.curr - output'.append_window \in 0 .. OUT_BUFFER_LENGTH + 4 \/ pc' = "blocks"
    <3>1. CASE ToCompress >= input_margin_bytes
      <4>1. ~ (ToCompress < input_margin_bytes)
        BY <1>4, <3>1 DEF input_margin_bytes
      <4>2. output.curr - output.append_window \in 0 .. P
        BY <1>2, <4>1 DEF SInv, WindowInv
      <4>3. output.curr \in Nat /\ output.append_window \in Nat
        BY DEF SInv, Shape
      <4> QED BY SMTT(60), <4>2, <4>3, <1>1, <1>3 DEF P, Numbers
    <3>2. CASE ~(ToCompress >= input_margin_bytes)
      BY <3>2, <1>2
    <3> QED BY <3>1, <3>2
  <2>5. output'.append_window \in Nat /\ output'.append_window % OUT_BUFFER_LENGTH = 0
    BY <1>3 DEF Shape, P
  <2> QED BY <1>1, <1>2, <2>1, <2>2, <2>3, <2>4, <2>5 DEF SInv, SnappyTypeOK, Numbers
<1>7. ReaderInStep' /\ MatchBehind'
  BY <1>2 DEF SInv, ReaderInStep, MatchBehind
<1>8. EmitInv'
  BY <1>2 DEF SInv, EmitInv
<1>9. block'.base = input.curr /\ block'.end = input.curr + ToCompress
  BY <1>2
<1>10. BlockInv'
  BY SMTT(60), <1>1, <1>2, <1>4, <1>9 DEF SInv, BlockInv, Active, Numbers
<1>11. PositionInv'
  BY <1>1, <1>2, <1>4, <1>9
     DEF PositionInv, Active, Beginning, Copying, input_limit, input_margin_bytes, Numbers
<1>12. TableBehind'
  <2>1. \A s \in Slots : table'[s] = 0
    BY <1>2 DEF TableReset, Slots
  <2> QED BY <1>1, <1>2, <1>9, <2>1 DEF TableBehind, Here, Beginning, Copying, Numbers
<1>13. WindowInv'
  <2>1. CASE ToCompress >= input_margin_bytes
    BY <1>2, <2>1 DEF WindowInv
  <2>2. CASE ~(ToCompress >= input_margin_bytes)
    <3>1. pc' = "blocks" /\ ~Active'
      BY <1>2, <2>2 DEF Active
    <3>2. ToCompress' < input_margin_bytes
      BY <1>4, <1>5, <2>2 DEF input_margin_bytes
    <3>3. input'.curr < Len(call'.data)
      BY <1>2
    <3> QED BY <3>1, <3>2, <3>3 DEF WindowInv
  <2> QED BY <2>1, <2>2
<1> QED
  BY <1>3, <1>6, <1>7, <1>8, <1>10, <1>11, <1>12, <1>13 DEF SInv

LEMMA ReturnStep ==
  ASSUME SInv, Return
  PROVE  SInv'
<1>1. Numbers
  BY Numeric
<1>2. /\ pc = "emit" /\ after = "return" /\ pc' = "blocks"
      /\ arr = <<>> /\ matched = 0 /\ literal = 0 /\ left = 0
      /\ length_remain' = length_remain - (block.end - block.base)
      /\ UNCHANGED <<call, input, block, table>>
      /\ UNCHANGED <<curr_input, next_input, skip_bytes, candidate, next_emit>>
      /\ UNCHANGED <<offset, matched, literal, arr, left, after>>
  BY DEF Return, AllEmitted, blockVars, scanVars, emitVars
<1>3. /\ output'.curr = output.curr /\ output'.append_window = output.append_window
      /\ Shape(output)'
  <2> DEFINE start == block.start - 4
             length == [i \in 0 .. 3 |-> <<"length", output.curr - block.start, i>>]
             b == mram_write(output.buffer, length, start, 4)
  <2>1. output' = [output EXCEPT !.buffer = b]
    BY DEF Return
  <2>2. Shape(output)
    BY DEF SInv
  <2> HIDE DEF b
  <2> QED BY <2>1, <2>2, NewBuffer DEF Shape
<1>4. output.curr - output.append_window \in 0 .. P
  <2>1. output.curr - output.append_window \in 0 .. P + 4
    BY <1>2 DEF SInv, SnappyTypeOK, P
  <2>2. ~ (output.curr - output.append_window > P)
    BY <1>2 DEF SInv, WindowInv, Active
  <2>3. output.curr \in Nat /\ output.append_window \in Nat
    BY DEF SInv, Shape
  <2> QED BY <1>1, <2>1, <2>2, <2>3 DEF Numbers
<1>5. /\ block.end - block.base \in Nat
      /\ length_remain' \in 0 .. length_remain
      /\ block.base + length_remain <= Len(call.data)
      /\ input.curr = block.end
  <2>1. /\ block.end - block.base >= input_margin_bytes
        /\ block.end - block.base <= length_remain
        /\ block.base + length_remain <= Len(call.data)
    BY <1>2 DEF SInv, BlockInv, Active
  <2>2. input.curr = block.end
    BY <1>1, <1>2 DEF SInv, ReaderInStep, Numbers
  <2> QED BY <1>1, <1>2, <2>1, <2>2 DEF Numbers, input_margin_bytes
<1>6. SnappyTypeOK'
  <2>1. output'.append_window \in Nat /\ output'.append_window % OUT_BUFFER_LENGTH = 0
    BY <1>3 DEF Shape, P
  <2>2. length_remain' \in 0 .. Len(call.data)
    BY <1>1, <1>5 DEF SInv, SnappyTypeOK, Numbers
  <2> QED BY <1>2, <2>1, <2>2 DEF SInv, SnappyTypeOK
<1>7. ReaderInStep' /\ MatchBehind' /\ PositionInv' /\ TableBehind'
  BY <1>2 DEF SInv, ReaderInStep, MatchBehind, PositionInv, TableBehind, Active, Beginning, Copying
<1>8. EmitInv'
  BY <1>2 DEF SInv, EmitInv
<1>9. BlockInv'
  BY <1>1, <1>2, <1>5 DEF BlockInv, Active, Numbers
<1>10. WindowInv'
  BY <1>2, <1>3, <1>4 DEF WindowInv, Active
<1> QED
  BY <1>3, <1>6, <1>7, <1>8, <1>9, <1>10 DEF SInv

LEMMA HashOfRead ==
  ASSUME SInv, NEW at \in Nat
  PROVE  /\ read_uint32(input, at) = MramWord(at)
         /\ hash(read_uint32(input, at)) \in Slots
         /\ hash(MramWord(at)) \in Slots
<1>1. call \in Calls /\ input \in Reader /\ input.mram_addr + input.ptr = call.buffer + input.curr
  BY Numeric DEF SInv, SnappyTypeOK, ReaderInStep
<1> QED
  BY <1>1, ReadIsInput, HashIsSlot

(* A place in the block fits in the table, which then leads back no further*)
LEMMA Entry ==
  ASSUME NEW base \in Nat, NEW at \in Nat, base <= at
  PROVE  /\ (at - base) % UINT16 \in 0 .. UINT16 - 1
         /\ base + ((at - base) % UINT16) <= at
<1>1. UINT16 \in Nat \ {0} /\ at - base \in Nat
  BY SnappyAssumption
<1> DEFINE r == (at - base) % UINT16
<1>2. r \in 0 .. UINT16 - 1 /\ r <= at - base
  BY <1>1, Remainder
<1> HIDE DEF r
<1>3. base + r <= at
  BY <1>1, <1>2
<1> QED
  BY <1>2, <1>3 DEF r

LEMMA ScanStep ==
  ASSUME SInv, Scan
  PROVE  SInv'
<1>1. Numbers
  BY Numeric
<1> DEFINE next == next_input + (skip_bytes \div 32)
           hval == hash(read_uint32(input, next_input))
           found == block.base + table[hval]
           entry == (next_input - block.base) % UINT16
<1>2. /\ pc = "scan"
      /\ curr_input' = next_input /\ next_input' = next /\ skip_bytes' = skip_bytes + 1
      /\ UNCHANGED <<call, input, output, length_remain, block, next_emit>>
      /\ UNCHANGED <<arr, left>>
  BY DEF Scan, Emit, emitVars
<1>3. \/ /\ next > input_limit
         /\ pc' = "emit" /\ after' = "return" /\ literal' = block.end - next_emit
         /\ matched' = 0 /\ offset' = 0
         /\ UNCHANGED <<table, candidate>>
      \/ /\ ~(next > input_limit)
         /\ candidate' = found
         /\ table' = [table EXCEPT ![hval] = entry]
         /\ \/ /\ pc' = "emit" /\ after' = "copy" /\ literal' = next_input - next_emit
               /\ matched' = 0 /\ offset' = 0
            \/ UNCHANGED <<pc, offset, matched, literal, after>>
  BY DEF Scan, Emit, emitVars
<1>4. /\ next_emit < next_input /\ next_input <= input_limit + 1 /\ skip_bytes >= 32
      /\ block.base <= next_emit /\ input.curr = next_emit
      /\ block.base <= next_input
      /\ arr = <<>> /\ matched = 0 /\ literal = 0 /\ left = 0
      /\ \A s \in Slots : block.base + table[s] <= next_input - 1
  <2>1. /\ next_emit < next_input /\ next_input <= input_limit + 1 /\ skip_bytes >= 32
        /\ block.base <= next_emit /\ input.curr = next_emit
        /\ arr = <<>> /\ matched = 0 /\ literal = 0 /\ left = 0
    BY <1>2 DEF SInv, PositionInv, ReaderInStep, EmitInv, Active
  <2>2. \A s \in Slots : block.base + table[s] <= next_input - 1
    BY <1>2 DEF SInv, TableBehind, Here
  <2> QED BY <1>1, <2>1, <2>2 DEF Numbers
<1>5. next \in Nat /\ next > next_input
  <2>1. skip_bytes \div 32 \in Nat /\ skip_bytes \div 32 >= 1
    BY <1>1, <1>4 DEF Numbers
  <2> DEFINE q == skip_bytes \div 32
  <2>2. q \in Nat /\ q >= 1
    BY <2>1
  <2>3. next = next_input + q
    OBVIOUS
  <2> HIDE DEF q, next
  <2> QED BY <1>1, <2>2, <2>3 DEF Numbers
<1>6. hval \in Slots
  BY <1>1, HashOfRead DEF Numbers
<1>7. entry \in 0 .. UINT16 - 1 /\ block.base + entry <= next_input
  BY <1>1, <1>4, Entry DEF Numbers
<1>8. table \in [Slots -> 0 .. UINT16 - 1]
  BY DEF SInv, SnappyTypeOK, Slots
<1>9. found \in Nat /\ found >= block.base /\ found <= next_input - 1
  <2>1. table[hval] \in Nat
    BY <1>6, <1>8, SnappyAssumption
  <2> QED BY <1>1, <1>4, <1>6, <2>1 DEF Numbers
<1> HIDE DEF next, hval, found, entry
<1>10. table' \in [Slots -> 0 .. UINT16 - 1]
  BY <1>3, <1>6, <1>7, <1>8
<1>11. \A s \in Slots : block.base + table'[s] <= next_input
  <2>1. CASE table' = table
    <3> TAKE s \in Slots
    <3>1. table[s] \in Nat
      BY <1>8, SnappyAssumption
    <3> QED BY <1>1, <1>4, <2>1, <3>1 DEF Numbers
  <2>2. CASE table' = [table EXCEPT ![hval] = entry]
    <3> TAKE s \in Slots
    <3>1. CASE s = hval
      BY <1>7, <1>8, <2>2, <3>1
    <3>2. CASE s # hval
      <4>1. table'[s] = table[s] /\ table[s] \in Nat
        BY <1>8, <2>2, <3>2, SnappyAssumption
      <4> QED BY <1>1, <1>4, <4>1 DEF Numbers
    <3> QED BY <3>1, <3>2
  <2> QED BY <1>3, <2>1, <2>2
<1>12. input_limit' = input_limit /\ input_limit = block.end - 15
  BY <1>2 DEF input_limit, input_margin_bytes
<1>13. SnappyTypeOK'
  <2>1. /\ candidate' \in Nat /\ literal' \in Nat /\ matched' \in Nat /\ offset' \in Nat
        /\ after' \in {"copy", "begin", "return"} /\ pc' \in {"scan", "emit"}
    <3>1. block.end - next_emit \in Nat /\ next_input - next_emit \in Nat
      BY <1>1, <1>4, <1>12 DEF Numbers
    <3>2. after \in {"copy", "begin", "return"}
      BY DEF SInv, SnappyTypeOK
    <3>3. literal \in Nat /\ matched \in Nat /\ offset \in Nat /\ candidate \in Nat
      BY <1>1 DEF Numbers
    <3>4. candidate' \in Nat
      BY <1>3, <1>9, <3>3
    <3>5. literal' \in Nat /\ matched' \in Nat /\ offset' \in Nat
      BY <1>3, <3>1, <3>3
    <3>6. after' \in {"copy", "begin", "return"} /\ pc' \in {"scan", "emit"}
      BY <1>2, <1>3, <3>2
    <3> QED BY <3>4, <3>5, <3>6
  <2> QED BY SMTT(60), <1>1, <1>2, <1>5, <1>10, <2>1 DEF SInv, SnappyTypeOK, Numbers, Slots
<1>14. ReaderInStep'
  <2>1. \/ pc' = "scan"
        \/ pc' = "emit" /\ after' = "return" /\ literal' = block.end - next_emit
        \/ pc' = "emit" /\ after' = "copy" /\ literal' = next_input - next_emit
    BY <1>2, <1>3
  <2>2. /\ input'.mram_addr % OUT_BUFFER_LENGTH = 0
        /\ input'.mram_addr + input'.ptr = call'.buffer + input'.curr
    BY <1>2 DEF SInv, ReaderInStep
  <2>3. pc' = "emit" => input'.curr + literal' + left'
                          = IF after' = "return" THEN block'.end ELSE curr_input'
    BY <1>1, <1>2, <1>4, <2>1 DEF Numbers
  <2>4. pc' \in {"begin", "scan"} => input'.curr = next_emit'
    BY <1>2, <1>4
  <2> QED BY <2>1, <2>2, <2>3, <2>4 DEF ReaderInStep
<1>15. MatchBehind'
  BY SMTT(60), <1>1, <1>2, <1>3, <1>4, <1>5, <1>9, <1>12 DEF MatchBehind, Numbers
<1>16. Shape(output)'
  BY <1>2 DEF SInv, Shape
<1>17. EmitInv'
  BY <1>2, <1>3, <1>4 DEF SInv, EmitInv
<1>18. BlockInv'
  BY <1>2, <1>3 DEF SInv, BlockInv, Active
<1>19. PositionInv'
  BY SMTT(60), <1>1, <1>2, <1>3, <1>4, <1>5, <1>12 DEF PositionInv, Active, Beginning, Copying, Numbers
<1>20. TableBehind'
  <2>1. pc' \in {"scan", "emit"} /\ (Copying' => curr_input' = next_input) /\ ~Beginning'
    BY <1>2, <1>3 DEF Copying, Beginning
  <2>2. Here' >= next_input
    BY <1>1, <1>2, <1>3, <1>5 DEF Here, Numbers
  <2>3. Here' \in Nat
    BY <1>1, <1>2, <1>3, <1>5 DEF Here, Numbers
  <2>4. \A s \in Slots : table'[s] \in Nat
    BY <1>10, SnappyAssumption
  <2>5. \A s \in Slots : block.base + table'[s] <= Here'
    BY <1>1, <1>11, <2>2, <2>3, <2>4 DEF Numbers
  <2>6. \A s \in Slots : block'.base + table'[s] <= Here'
    <3>1. block' = block
      BY <1>2
    <3> QED BY <2>5, <3>1
  <2> QED BY <2>6 DEF TableBehind, Slots
<1>21. WindowInv'
  <2>1. pc' = "scan" \/ (pc' = "emit" /\ literal' > 0)
    BY <1>1, <1>2, <1>3, <1>4, <1>12 DEF Numbers
  <2> QED BY <2>1 DEF WindowInv
<1> QED
  BY <1>13, <1>14, <1>15, <1>16, <1>17, <1>18, <1>19, <1>20, <1>21 DEF SInv

(* What Copy does, by where it goes on.                                    *)
CopyTo(length) ==
  LET here == curr_input + length
      known == [table EXCEPT ![hash(MramWord(here - 1))] = (here - block.base - 1) % UINT16]
      curr_hash == hash(MramWord(here))
  IN  /\ curr_input' = here /\ next_emit' = here
      /\ input' = advance_seqread(input, length)
      /\ pc' = "emit" /\ matched' = length /\ offset' = curr_input - candidate
      /\ \/ /\ here >= input_limit
            /\ after' = "return" /\ literal' = block.end - here
            /\ UNCHANGED <<table, candidate>>
         \/ /\ ~(here >= input_limit)
            /\ after' \in {"copy", "begin"} /\ literal' = 0
            /\ table' = [known EXCEPT ![curr_hash] = (here - block.base) % UINT16]
            /\ candidate' = block.base + known[curr_hash]
            /\ after' = "copy" => MramWord(here) = read_uint32(input', candidate')
      /\ UNCHANGED <<call, output, length_remain, block, next_input, skip_bytes, arr, left>>

LEMMA CopyLength ==
  ASSUME SInv, Copy
  PROVE  \E more \in Nat :
           /\ more \in find_match_length(candidate + 4, curr_input + 4, block.end)
           /\ curr_input + 4 + more <= block.end
           /\ CopyTo(4 + more)
<1>1. Numbers
  BY Numeric
<1>2. PICK more \in find_match_length(candidate + 4, curr_input + 4, block.end) : CopyTo(4 + more)
  BY DEF Copy, CopyTo, Emit
<1>3. pc = "copy" /\ curr_input + 4 <= block.end
  BY DEF Copy, SInv, MatchBehind
<1>4. candidate + 4 \in Nat /\ curr_input + 4 \in Nat /\ block.end \in Nat
  BY <1>1 DEF Numbers
<1>5. more \in Nat /\ more <= block.end - (curr_input + 4)
  <2> DEFINE s1 == candidate + 4
             s2 == curr_input + 4
             limit == block.end
  <2>1. /\ s1 \in Nat /\ s2 \in Nat /\ limit \in Nat /\ s2 <= limit
        /\ more \in find_match_length(s1, s2, limit)
    BY <1>3, <1>4
  <2> HIDE DEF s1, s2, limit
  <2>2. Extent(s1, s2, limit, more)
    BY <2>1, MatchLength
  <2>3. more \in Nat /\ more <= limit - s2
    BY <2>2 DEF Extent
  <2> QED BY <2>3 DEF s2, limit
<1>6. curr_input + 4 + more <= block.end
  BY <1>1, <1>5 DEF Numbers
<1> QED
  BY <1>2, <1>5, <1>6

LEMMA CopyStep ==
  ASSUME SInv, Copy
  PROVE  SInv'
<1>1. Numbers
  BY Numeric
<1>2. PICK more \in Nat : curr_input + 4 + more <= block.end /\ CopyTo(4 + more)
  BY CopyLength
<1> DEFINE here == curr_input + (4 + more)
           known == [table EXCEPT ![hash(MramWord(here - 1))] = (here - block.base - 1) % UINT16]
           curr_hash == hash(MramWord(here))
           prev_hash == hash(MramWord(here - 1))
           entry == (here - block.base) % UINT16
           prev_entry == ((here - 1) - block.base) % UINT16
           found == block.base + known[curr_hash]
<1>3. pc = "copy" /\ pc' = "emit" /\ curr_input' = here /\ next_emit' = here
  BY <1>2 DEF Copy, CopyTo
<1>4. /\ matched' = 4 + more /\ offset' = curr_input - candidate
      /\ UNCHANGED <<call, output, length_remain, block, next_input, skip_bytes, arr, left>>
      /\ input' = advance_seqread(input, 4 + more)
  BY <1>2 DEF CopyTo
<1>5. \/ /\ here >= input_limit
         /\ after' = "return" /\ literal' = block.end - here
         /\ UNCHANGED <<table, candidate>>
      \/ /\ ~(here >= input_limit)
         /\ after' \in {"copy", "begin"} /\ literal' = 0
         /\ table' = [known EXCEPT ![curr_hash] = entry]
         /\ candidate' = found
  BY <1>2 DEF CopyTo
<1>6. /\ here \in Nat /\ here <= block.end /\ here >= curr_input + 4 /\ here - 1 \in Nat
      /\ block.base <= curr_input
      /\ candidate >= block.base /\ candidate < curr_input
      /\ input.curr = curr_input
      /\ arr = <<>> /\ left = 0
      /\ \A s \in Slots : block.base + table[s] <= curr_input
  <2>1. /\ block.base <= next_emit /\ next_emit <= curr_input
        /\ candidate \in block.base .. curr_input - 1
        /\ input.curr = curr_input
        /\ arr = <<>> /\ left = 0
    BY <1>3 DEF SInv, PositionInv, ReaderInStep, EmitInv, MatchBehind, Active, Copying
  <2>2. \A s \in Slots : block.base + table[s] <= curr_input
    BY <1>3 DEF SInv, TableBehind, Here, Copying
  <2>3. /\ here \in Nat /\ here <= block.end /\ here >= curr_input + 4 /\ here - 1 \in Nat
    BY <1>1, <1>2 DEF Numbers
  <2> HIDE DEF here
  <2> QED BY <1>1, <2>1, <2>2, <2>3 DEF Numbers
<1>7. curr_hash \in Slots /\ prev_hash \in Slots
  <2> HIDE DEF here
  <2> QED BY <1>6, HashOfRead
<1>8. /\ entry \in 0 .. UINT16 - 1 /\ block.base + entry <= here
      /\ prev_entry \in 0 .. UINT16 - 1 /\ block.base + prev_entry <= here - 1
  <2> HIDE DEF here
  <2>1. block.base <= here /\ block.base <= here - 1
    BY <1>1, <1>6 DEF Numbers
  <2> QED BY <1>1, <1>6, <2>1, Entry DEF Numbers
<1>9. table \in [Slots -> 0 .. UINT16 - 1]
  BY DEF SInv, SnappyTypeOK, Slots
<1>10. known = [table EXCEPT ![prev_hash] = prev_entry]
  <2>1. here - block.base - 1 = (here - 1) - block.base
    <3> HIDE DEF here
    <3> QED BY <1>1, <1>6 DEF Numbers
  <2> HIDE DEF here
  <2> QED BY <2>1
<1> HIDE DEF known, curr_hash, prev_hash, entry, prev_entry
<1>11. /\ known \in [Slots -> 0 .. UINT16 - 1]
       /\ \A s \in Slots : block.base + known[s] <= here - 1
  <2> HIDE DEF here
  <2>1. known \in [Slots -> 0 .. UINT16 - 1]
    BY <1>7, <1>8, <1>9, <1>10
  <2>2. ASSUME NEW s \in Slots PROVE block.base + known[s] <= here - 1
    <3>1. CASE s = prev_hash
      BY <1>8, <1>9, <1>10, <3>1
    <3>2. CASE s # prev_hash
      <4>1. known[s] = table[s] /\ table[s] \in Nat
        BY <1>9, <1>10, <3>2, SnappyAssumption
      <4>2. block.base + table[s] <= curr_input
        BY <1>6
      <4> QED BY <1>1, <1>6, <4>1, <4>2 DEF Numbers
    <3> QED BY <3>1, <3>2
  <2> QED BY <2>1, <2>2
<1>12. found \in Nat /\ found >= block.base /\ found <= here - 1
  <2> HIDE DEF here
  <2>1. known[curr_hash] \in Nat
    BY <1>7, <1>11, SnappyAssumption
  <2> QED BY <1>1, <1>7, <1>11, <2>1 DEF Numbers
<1> HIDE DEF found, here
<1>13. table' \in [Slots -> 0 .. UINT16 - 1]
  BY <1>5, <1>7, <1>8, <1>9, <1>11
<1>14. ASSUME NEW s \in Slots PROVE block.base + table'[s] <= here
  <2>1. CASE table' = table
    <3>1. table[s] \in Nat /\ block.base + table[s] <= curr_input
      BY <1>6, <1>9, SnappyAssumption
    <3> QED BY <1>1, <1>6, <2>1, <3>1 DEF Numbers
  <2>2. CASE table' = [known EXCEPT ![curr_hash] = entry]
    <3>1. CASE s = curr_hash
      BY <1>8, <1>11, <2>2, <3>1
    <3>2. CASE s # curr_hash
      <4>1. table'[s] = known[s] /\ known[s] \in Nat
        BY <1>11, <2>2, <3>2, SnappyAssumption
      <4>2. block.base + known[s] <= here - 1
        BY <1>11
      <4> QED BY <1>1, <1>6, <4>1, <4>2 DEF Numbers
    <3> QED BY <3>1, <3>2
  <2> QED BY <1>5, <2>1, <2>2
<1>15. input_limit' = input_limit /\ input_limit = block.end - 15
  BY <1>4 DEF input_limit, input_margin_bytes
<1>16. /\ input' \in Reader /\ input'.curr = here
       /\ input'.mram_addr % P = 0
       /\ input'.mram_addr + input'.ptr = call.buffer + here
  <2>1. /\ input \in Reader /\ input.mram_addr % P = 0
        /\ input.mram_addr + input.ptr = call.buffer + curr_input
    BY <1>6, Numeric DEF SInv, ReaderInStep, P
  <2>2. 4 + more \in Nat
    OBVIOUS
  <2>3. /\ input' \in Reader /\ input'.curr = input.curr + (4 + more)
        /\ input'.mram_addr % P = 0
        /\ input'.mram_addr + input'.ptr = input.mram_addr + input.ptr + (4 + more)
    BY <1>4, <2>1, <2>2, AdvanceMoves
  <2>4. call \in Calls
    BY DEF SInv, SnappyTypeOK
  <2>5. call.buffer \in Nat
    BY <2>4, CallTypes
  <2>6. call.buffer + curr_input + (4 + more) = call.buffer + here
    BY SMTT(60), <1>1, <2>5 DEF here, Numbers
  <2> QED BY <1>6, <2>1, <2>3, <2>6 DEF here
<1>17. SnappyTypeOK'
  <2>1. literal' \in Nat /\ candidate' \in Nat /\ matched' \in Nat /\ offset' \in Nat
    <3>1. block.end - here \in Nat /\ curr_input - candidate \in Nat /\ 4 + more \in Nat
      BY <1>1, <1>6 DEF Numbers
    <3> QED BY <1>1, <1>4, <1>5, <1>12, <3>1 DEF Numbers
  <2>2. after' \in {"copy", "begin", "return"}
    BY <1>5
  <2>3. input' \in [curr : Nat, ptr : 0 .. OUT_BUFFER_LENGTH - 1, mram_addr : Nat]
    BY <1>16 DEF Reader, P
  <2> QED BY <1>1, <1>3, <1>4, <1>6, <1>13, <2>1, <2>2, <2>3
          DEF SInv, SnappyTypeOK, Numbers, Slots
<1>18. ReaderInStep'
  <2>1. input'.curr + literal' + left' = IF after' = "return" THEN block'.end ELSE curr_input'
    BY <1>1, <1>3, <1>4, <1>5, <1>6, <1>16 DEF Numbers
  <2>2. /\ input'.mram_addr % OUT_BUFFER_LENGTH = 0
        /\ input'.mram_addr + input'.ptr = call'.buffer + input'.curr
    BY <1>4, <1>16 DEF P
  <2> QED BY <1>3, <2>1, <2>2 DEF ReaderInStep
<1>19. MatchBehind'
  BY <1>1, <1>3, <1>4, <1>5, <1>6, <1>12, <1>15 DEF MatchBehind, Numbers
<1>20. Shape(output)'
  BY <1>4 DEF SInv, Shape
<1>21. EmitInv'
  BY <1>3, <1>4, <1>6 DEF SInv, EmitInv
<1>22. BlockInv'
  BY <1>3, <1>4 DEF SInv, BlockInv, Active
<1>23. PositionInv'
  BY <1>1, <1>3, <1>4, <1>5, <1>6, <1>15 DEF PositionInv, Active, Beginning, Copying, Numbers
<1>24. TableBehind'
  <2>1. Here' = here /\ block' = block
    BY <1>3, <1>4 DEF Here
  <2> QED BY <1>14, <2>1 DEF TableBehind, Slots
<1>25. WindowInv'
  <2>1. matched' > 0
    BY <1>4
  <2> QED BY <1>3, <2>1 DEF WindowInv
<1> QED
  BY <1>17, <1>18, <1>19, <1>20, <1>21, <1>22, <1>23, <1>24, <1>25 DEF SInv

-----------------------------------------------------------------------------
(* The window.                                                             *)

LEMMA Flushed ==
  ASSUME NEW o, Shape(o), o.curr - o.append_window \in P .. P + 4
  PROVE  /\ Shape(FlushWindow(o))
         /\ FlushWindow(o).curr = o.curr
         /\ FlushWindow(o).append_window = o.append_window + P
         /\ FlushWindow(o).window = o.window
         /\ FlushWindow(o).buffer = mram_write(o.buffer, o.window, o.append_window, P)
<1> DEFINE b == mram_write(o.buffer, o.window, o.append_window, OUT_BUFFER_LENGTH)
           w == o.append_window + OUT_BUFFER_LENGTH
           f == [o EXCEPT !.buffer = b, !.append_window = w]
<1>1. FlushWindow(o) = f
  BY DEF FlushWindow
<1>2. w \in Nat /\ w % P = 0 /\ w = o.append_window + P
  <2>1. o.append_window \in Nat /\ o.append_window % P = 0
    BY DEF Shape
  <2>2. P \in Nat \ {0}
    BY PageSize
  <2>3. w = o.append_window + P /\ w \in Nat
    BY <2>1, <2>2 DEF P
  <2>4. (o.append_window + P) % P = 0
    BY <2>1, <2>2, Multiples
  <2> QED BY <2>3, <2>4
<1>3. f = [curr |-> o.curr, append_window |-> w, window |-> o.window, buffer |-> b]
  <2> HIDE DEF b, w
  <2> QED BY NewBufferAndAppend
<1> HIDE DEF b, w, f
<1>4. /\ f.curr = o.curr /\ f.append_window = w /\ f.window = o.window /\ f.buffer = b
  BY <1>3
<1>5. o.curr \in Nat
  BY DEF Shape
<1>6. Shape(f)
  BY <1>2, <1>3, <1>4, <1>5 DEF Shape
<1>7. b = mram_write(o.buffer, o.window, o.append_window, P)
  BY DEF b, P
<1> QED
  BY <1>1, <1>2, <1>4, <1>6, <1>7

LEMMA RoomMade ==
  ASSUME NEW o, Shape(o), o.curr - o.append_window \in 0 .. P + 4
  PROVE  /\ Shape(MakeRoom(o))
         /\ MakeRoom(o).curr = o.curr
         /\ MakeRoom(o).curr - MakeRoom(o).append_window \in 0 .. P - 1
<1>1. o.curr \in Nat /\ o.append_window \in Nat
  BY DEF Shape
<1>2. CASE o.curr - o.append_window >= P
  <2>1. o.curr - o.append_window \in P .. P + 4
    BY <1>1, <1>2, PageSize
  <2>2. MakeRoom(o) = FlushWindow(o)
    BY <1>2 DEF MakeRoom, P
  <2>3. o.curr - (o.append_window + P) \in 0 .. P - 1
    BY <1>1, <2>1, PageSize
  <2> QED BY <2>1, <2>2, <2>3, Flushed
<1>3. CASE ~(o.curr - o.append_window >= P)
  <2>1. MakeRoom(o) = o
    BY <1>3 DEF MakeRoom, P
  <2>2. o.curr - o.append_window \in 0 .. P - 1
    BY <1>1, <1>3, PageSize
  <2> QED BY <2>1, <2>2
<1> QED
  BY <1>2, <1>3

LEMMA Appended ==
  ASSUME NEW o, Shape(o), NEW bytes, Len(bytes) \in Nat
  PROVE  /\ Shape(AppendBytes(o, bytes))
         /\ AppendBytes(o, bytes).curr = o.curr + Len(bytes)
         /\ AppendBytes(o, bytes).append_window = o.append_window
<1> DEFINE index == o.curr - o.append_window
           b == [k \in DOMAIN o.window |->
                  IF k - index \in 0 .. Len(bytes) - 1 THEN bytes[k - index + 1] ELSE o.window[k]]
           c == o.curr + Len(bytes)
           f == [o EXCEPT !.window = b, !.curr = c]
<1>1. AppendBytes(o, bytes) = f
  BY DEF AppendBytes
<1>2. c \in Nat
  BY DEF Shape
<1>3. f = [curr |-> c, append_window |-> o.append_window, window |-> b, buffer |-> o.buffer]
  <2> HIDE DEF b, c
  <2> QED BY NewWindowAndCurr
<1> HIDE DEF b, c, f
<1>4. /\ f.curr = c /\ f.append_window = o.append_window /\ f.window = b /\ f.buffer = o.buffer
  BY <1>3
<1>5. Shape(f)
  BY <1>2, <1>3, <1>4 DEF Shape
<1> QED
  BY <1>1, <1>4, <1>5 DEF c

(* What a turn of one of the loops that write to the window has room for.  *)
LEMMA RoomFor ==
  ASSUME SInv, pc = "emit", NEW len \in Nat
  PROVE  Room(MakeRoom(output), len) \in 0 .. len
<1> DEFINE o == MakeRoom(output)
           room == OUT_BUFFER_LENGTH - (o.curr - o.append_window)
           n == Room(o, len)
<1>1. room \in Nat
  <2>1. Shape(o) /\ o.curr - o.append_window \in 0 .. P - 1
    BY RoomMade DEF SInv, SnappyTypeOK, P
  <2> HIDE DEF o
  <2> QED BY <2>1, PageSize DEF P, Shape
<1>2. n = IF room < len THEN room ELSE len
  BY DEF Room
<1> HIDE DEF room, n
<1>3. n \in 0 .. len
  BY <1>1, <1>2
<1> QED
  BY <1>3 DEF n

(* A turn of one of the loops that write to the window.                    *)
LEMMA Written ==
  ASSUME SInv, pc = "emit", NEW len \in Nat, NEW bytes,
         Len(bytes) = Room(MakeRoom(output), len),
         output' = AppendBytes(MakeRoom(output), bytes)
  PROVE  /\ Room(MakeRoom(output), len) \in 0 .. len
         /\ Shape(output)'
         /\ output'.curr - output'.append_window \in 0 .. P
<1> DEFINE o == MakeRoom(output)
           n == Room(o, len)
<1>1. Shape(output) /\ output.curr - output.append_window \in 0 .. P + 4
  BY DEF SInv, SnappyTypeOK, P
<1>2. Shape(o) /\ o.curr - o.append_window \in 0 .. P - 1
  BY <1>1, RoomMade
<1> HIDE DEF o
<1>3. o.curr \in Nat /\ o.append_window \in Nat
  BY <1>2 DEF Shape
<1>4. n \in 0 .. len /\ (o.curr + n) - o.append_window \in 0 .. P
  <2> DEFINE room == P - (o.curr - o.append_window)
  <2>1. room \in Nat /\ (o.curr + room) - o.append_window = P
    BY SMTT(60), <1>2, <1>3, PageSize
  <2>2. n = IF room < len THEN room ELSE len
    BY DEF Room, P
  <2> HIDE DEF room, n
  <2>3. n \in Nat /\ n <= room /\ n <= len
    BY <2>1, <2>2
  <2> QED BY SMTT(60), <1>2, <1>3, <2>1, <2>3, PageSize
<1>5. Len(bytes) = n /\ output' = AppendBytes(o, bytes)
  BY DEF o
<1> HIDE DEF n
<1>6. Len(bytes) \in Nat
  BY <1>4, <1>5
<1>7. /\ Shape(output')
      /\ output'.curr = o.curr + n /\ output'.append_window = o.append_window
  BY <1>2, <1>5, <1>6, Appended
<1>8. Shape(output)'
  BY <1>7 DEF Shape
<1>9. output'.curr - output'.append_window \in 0 .. P
  <2>1. (o.curr + n) - o.append_window \in 0 .. P
    BY <1>4
  <2> QED BY <1>7, <2>1, Zenon
<1> QED
  BY <1>4, <1>8, <1>9 DEF n, o

LEMMA WriteOutputBufferStep ==
  ASSUME SInv, WriteOutputBuffer
  PROVE  SInv'
<1>1. Numbers
  BY Numeric
<1> DEFINE len == Len(arr)
           n == Room(MakeRoom(output), len)
           bytes == SubSeq(arr, 1, n)
<1>2. /\ pc = "emit" /\ pc' = "emit"
      /\ output' = AppendBytes(MakeRoom(output), bytes)
      /\ arr' = SubSeq(arr, n + 1, len)
      /\ UNCHANGED <<call, input, length_remain, block, table>>
      /\ UNCHANGED <<curr_input, next_input, skip_bytes, candidate, next_emit>>
      /\ UNCHANGED <<offset, matched, literal, left, after>>
  BY DEF WriteOutputBuffer, blockVars, scanVars
<1>3. len \in Nat /\ IsSequence(arr)
  BY LenProperties DEF SInv, EmitInv, IsSequence
<1>4. n \in 0 .. len
  BY <1>2, <1>3, RoomFor
<1> HIDE DEF n
<1>5. Len(bytes) = n /\ IsSequence(arr')
  <2> DEFINE S == {arr[i] : i \in DOMAIN arr}
  <2>1. arr \in Seq(S)
    BY <1>3 DEF IsSequence
  <2> HIDE DEF S
  <2>2. \A i \in 1 .. len : arr[i] \in S
    BY <2>1, ElementOfSeq
  <2> HIDE DEF len
  <2>3. Len(bytes) = n
    <3>1. \A i \in 1 .. n : arr[i] \in S
      BY <1>3, <1>4, <2>2
    <3>2. Len(SubSeq(arr, 1, n)) = IF 1 <= n THEN n - 1 + 1 ELSE 0
      <4>1. 1 \in Int /\ n \in Int
        BY <1>3, <1>4
      <4> QED BY <3>1, <4>1, SubSeqProperties
    <3> QED BY <1>3, <1>4, <3>2
  <2>4. arr' \in Seq(S)
    <3>1. n + 1 \in Int /\ len \in Int /\ \A i \in n + 1 .. len : arr[i] \in S
      BY <1>3, <1>4, <2>2
    <3> QED BY <1>2, <3>1, SubSeqProperties DEF len
  <2>5. DOMAIN arr' = 1 .. Len(arr') /\ Len(arr') \in Nat /\ arr' \in [1 .. Len(arr') -> S]
    BY <2>4, LenProperties
  <2>6. arr' = [i \in 1 .. Len(arr') |-> arr'[i]]
    BY <2>5
  <2> QED BY <2>3, <2>5, <2>6, SequenceOf
<1>6. /\ Shape(output)'
      /\ output'.curr - output'.append_window \in 0 .. P
  BY <1>2, <1>3, <1>5, Written DEF n
<1>7. SnappyTypeOK'
  <2>1. output'.append_window \in Nat /\ output'.append_window % OUT_BUFFER_LENGTH = 0
    BY <1>6 DEF Shape, P
  <2>2. output'.curr - output'.append_window \in 0 .. OUT_BUFFER_LENGTH + 4
    BY <1>1, <1>6 DEF Numbers, P
  <2> QED BY <1>2, <2>1, <2>2 DEF SInv, SnappyTypeOK
<1>8. ReaderInStep' /\ MatchBehind'
  BY <1>2 DEF SInv, ReaderInStep, MatchBehind
<1>9. EmitInv'
  BY <1>2, <1>5 DEF SInv, EmitInv, IsSequence
<1>10. BlockInv' /\ PositionInv'
  BY <1>2 DEF SInv, BlockInv, PositionInv, Active, Beginning, Copying, input_limit
<1>11. TableBehind'
  BY <1>2 DEF SInv, TableBehind, Beginning, Copying, Here, Slots
<1>12. WindowInv'
  <2>1. ~ (output'.curr - output'.append_window > P)
    BY <1>1, <1>6 DEF Numbers
  <2> QED BY <1>2, <2>1 DEF WindowInv
<1> QED
  BY <1>6, <1>7, <1>8, <1>9, <1>10, <1>11, <1>12 DEF SInv

LEMMA CopyOutputBufferStep ==
  ASSUME SInv, CopyOutputBuffer
  PROVE  SInv'
<1>1. Numbers
  BY Numeric
<1> DEFINE n == Room(MakeRoom(output), left)
           bytes == [k \in 1 .. n |-> <<"byte", CachedByte(input, input.ptr + k - 1)>>]
<1>2. /\ pc = "emit" /\ pc' = "emit" /\ arr = <<>> /\ matched = 0 /\ literal = 0
      /\ output' = AppendBytes(MakeRoom(output), bytes)
      /\ input' = advance_seqread(input, n)
      /\ left' = left - n
      /\ UNCHANGED <<call, length_remain, block, table>>
      /\ UNCHANGED <<curr_input, next_input, skip_bytes, candidate, next_emit>>
      /\ UNCHANGED <<offset, matched, literal, arr, after>>
  <2>1. bytes = [k \in 1 .. n |->
                  <<"byte", [i \in 1 .. n |-> CachedByte(input, input.ptr + i - 1)][k]>>]
    OBVIOUS
  <2> HIDE DEF bytes
  <2> QED BY <2>1 DEF CopyOutputBuffer, blockVars, scanVars
<1>3. n \in 0 .. left
  BY <1>1, <1>2, RoomFor DEF Numbers
<1> HIDE DEF n
<1>4. Len(bytes) = n
  <2>1. bytes = [k \in 1 .. n |-> bytes[k]]
    OBVIOUS
  <2>2. n \in Nat
    BY <1>1, <1>3 DEF Numbers
  <2> HIDE DEF bytes
  <2> QED BY <2>1, <2>2, SequenceOf
<1> HIDE DEF bytes
<1>5. /\ Shape(output)'
      /\ output'.curr - output'.append_window \in 0 .. P
  BY <1>1, <1>2, <1>4, Written DEF n, Numbers
<1>6. n \in Nat /\ left' \in Nat
  BY <1>1, <1>2, <1>3 DEF Numbers
<1>7. /\ input' \in Reader /\ input'.curr = input.curr + n
      /\ input'.mram_addr % P = 0
      /\ input'.mram_addr + input'.ptr = input.mram_addr + input.ptr + n
  <2>1. input \in Reader /\ input.mram_addr % P = 0
    BY Numeric DEF SInv, ReaderInStep, P
  <2> QED BY <1>2, <1>6, <2>1, AdvanceMoves
<1>8. SnappyTypeOK'
  <2>1. output'.append_window \in Nat /\ output'.append_window % OUT_BUFFER_LENGTH = 0
    BY <1>5 DEF Shape, P
  <2>2. output'.curr - output'.append_window \in 0 .. OUT_BUFFER_LENGTH + 4
    BY <1>1, <1>5 DEF Numbers, P
  <2>3. input' \in [curr : Nat, ptr : 0 .. OUT_BUFFER_LENGTH - 1, mram_addr : Nat]
    BY <1>7 DEF Reader, P
  <2> QED BY <1>2, <1>6, <2>1, <2>2, <2>3 DEF SInv, SnappyTypeOK
<1>9. ReaderInStep'
  <2>1. /\ input.mram_addr + input.ptr = call.buffer + input.curr
        /\ input.curr + literal + left = IF after = "return" THEN block.end ELSE curr_input
    BY <1>2 DEF SInv, ReaderInStep
  <2>2. call.buffer \in Nat
    BY CallTypes DEF SInv, SnappyTypeOK
  <2>3. input'.mram_addr + input'.ptr = call'.buffer + input'.curr
    BY <1>1, <1>2, <1>6, <1>7, <2>1, <2>2 DEF Numbers
  <2>4. input'.curr + literal' + left' = IF after' = "return" THEN block'.end ELSE curr_input'
    BY <1>1, <1>2, <1>6, <1>7, <2>1 DEF Numbers
  <2>5. input'.mram_addr % OUT_BUFFER_LENGTH = 0
    BY <1>7 DEF P
  <2> QED BY <1>2, <2>3, <2>4, <2>5 DEF ReaderInStep
<1>10. MatchBehind'
  BY <1>2 DEF SInv, MatchBehind
<1>11. EmitInv'
  BY <1>2 DEF SInv, EmitInv
<1>12. BlockInv' /\ PositionInv'
  BY <1>2 DEF SInv, BlockInv, PositionInv, Active, Beginning, Copying, input_limit
<1>13. TableBehind'
  BY <1>2 DEF SInv, TableBehind, Beginning, Copying, Here, Slots
<1>14. WindowInv'
  <2>1. ~ (output'.curr - output'.append_window > P)
    BY <1>1, <1>5 DEF Numbers
  <2> QED BY <1>2, <2>1 DEF WindowInv
<1> QED
  BY <1>5, <1>8, <1>9, <1>10, <1>11, <1>12, <1>13, <1>14 DEF SInv

-----------------------------------------------------------------------------
(* The theorems.                                                           *)

LEMMA InitInv ==
  ASSUME Init
  PROVE  SInv
<1> DEFINE r == [curr |-> 0, ptr |-> 0, mram_addr |-> MRAM_SIZE]
<1>1. /\ call \in Calls /\ pc = "blocks"
      /\ input = seqread_seek(r, call.buffer)
      /\ length_remain = Len(call.data)
      /\ block = [base |-> 0, end |-> 0, start |-> 4]
      /\ table = [s \in 0 .. NumTableEntries - 1 |-> 0]
      /\ curr_input = 0 /\ next_input = 0 /\ skip_bytes = 0 /\ candidate = 0 /\ next_emit = 0
      /\ offset = 0 /\ matched = 0 /\ literal = 0 /\ arr = <<>> /\ left = 0
      /\ after = "return"
  BY DEF Init
<1>2. /\ call.buffer \in Nat /\ Len(call.data) \in Nat
  BY <1>1, CallTypes
<1>3. /\ input \in Reader /\ input.curr = 0
      /\ input.mram_addr % P = 0 /\ input.mram_addr + input.ptr = call.buffer
  <2>1. r \in Reader /\ r.curr = 0 /\ r.mram_addr = MRAM_SIZE
    BY SnappyAssumption DEF Reader, P
  <2>2. r.mram_addr % P = 0
    BY <2>1, PageSize
  <2> HIDE DEF r
  <2> QED BY <1>1, <1>2, <2>1, <2>2, SeekReaches
<1>4. Shape(output) /\ output.curr = 0 /\ output.append_window = 0
  <2> DEFINE w == [k \in 0 .. OUT_BUFFER_LENGTH - 1 |-> <<"old">>]
  <2>1. output = [curr |-> 0, append_window |-> 0, window |-> w, buffer |-> <<>>]
    BY DEF Init
  <2> HIDE DEF w
  <2>2. 0 % P = 0
    BY PageSize
  <2> QED BY <2>1, <2>2 DEF Shape
<1>5. SnappyTypeOK
  <2>1. input \in [curr : Nat, ptr : 0 .. OUT_BUFFER_LENGTH - 1, mram_addr : Nat]
    BY <1>3 DEF Reader, P
  <2>2. output.append_window \in Nat /\ output.append_window % OUT_BUFFER_LENGTH = 0
    BY <1>4 DEF Shape, P
  <2>3. table \in [0 .. NumTableEntries - 1 -> 0 .. UINT16 - 1]
    BY <1>1, SnappyAssumption
  <2> QED BY <1>1, <1>2, <2>1, <2>2, <2>3 DEF SnappyTypeOK
<1>6. ReaderInStep
  <2>1. call.buffer = call.buffer + input.curr
    BY <1>2, <1>3
  <2> QED BY <1>1, <1>3, <2>1 DEF ReaderInStep, P
<1>7. IsSequence(arr)
  <2>1. \A S : <<>> \in Seq(S)
    BY EmptySeq
  <2> QED BY <1>1, <2>1 DEF IsSequence
<1>8. MatchBehind /\ EmitInv /\ PositionInv /\ TableBehind
  BY <1>1, <1>7 DEF MatchBehind, EmitInv, PositionInv, TableBehind, Active, Beginning, Copying
<1>9. BlockInv
  BY <1>1, <1>2, <1>3 DEF BlockInv, Active
<1>10. WindowInv
  <2>1. output.curr - output.append_window \in 0 .. P
    BY <1>4, PageSize
  <2> QED BY <1>1, <2>1 DEF WindowInv, Active
<1> QED
  BY <1>4, <1>5, <1>6, <1>8, <1>9, <1>10 DEF SInv

LEMMA StutterInv ==
  ASSUME SInv, UNCHANGED vars
  PROVE  SInv'
<1>1. /\ UNCHANGED <<call, pc, input, output, length_remain, block, table>>
      /\ UNCHANGED <<curr_input, next_input, skip_bytes, candidate, next_emit>>
      /\ UNCHANGED <<offset, matched, literal, arr, left, after>>
  BY DEF vars, blockVars, scanVars, emitVars
<1>2. SnappyTypeOK' /\ ReaderInStep' /\ MatchBehind'
  BY <1>1 DEF SInv, SnappyTypeOK, ReaderInStep, MatchBehind
<1>3. Shape(output)' /\ EmitInv' /\ BlockInv'
  BY <1>1 DEF SInv, Shape, EmitInv, IsSequence, BlockInv, Active
<1>4. PositionInv' /\ TableBehind'
  BY <1>1 DEF SInv, PositionInv, TableBehind, Active, Beginning, Copying, Here, Slots, input_limit
<1>5. WindowInv'
  BY <1>1 DEF SInv, WindowInv, Active, ToCompress
<1> QED
  BY <1>2, <1>3, <1>4, <1>5 DEF SInv

LEMMA StepInv ==
  ASSUME SInv, [Next]_vars
  PROVE  SInv'
<1>1. CASE StartBlock
  BY <1>1, StartBlockStep
<1>2. CASE Finish
  BY <1>2, FinishStep
<1>3. CASE Begin
  BY <1>3, BeginStep
<1>4. CASE Scan
  BY <1>4, ScanStep
<1>5. CASE Copy
  BY <1>5, CopyStep
<1>6. CASE EmitCopy
  BY <1>6, EmitCopyStep
<1>7. CASE EmitLiteral
  BY <1>7, EmitLiteralStep
<1>8. CASE WriteOutputBuffer
  BY <1>8, WriteOutputBufferStep
<1>9. CASE CopyOutputBuffer
  BY <1>9, CopyOutputBufferStep
<1>10. CASE Emitted
  BY <1>10, EmittedStep
<1>11. CASE Return
  BY <1>11, ReturnStep
<1>12. CASE UNCHANGED vars
  BY <1>12, StutterInv
<1> QED
  BY <1>1, <1>2, <1>3, <1>4, <1>5, <1>6, <1>7, <1>8, <1>9, <1>10, <1>11, <1>12 DEF Next

(* The invariant holds in every behaviour.                                 *)
THEOREM SnappyInvariant == Spec => []SInv
<1>1. Init => SInv
  BY InitInv
<1>2. SInv /\ [Next]_vars => SInv'
  BY StepInv
<1> QED
  BY <1>1, <1>2, PTL DEF Spec

(* The variables keep their types: no entry of the table and no index into *)
(* the window leaves its range, whatever the input and the hash function.  *)
THEOREM SnappyTypeCorrect == Spec => []SnappyTypeOK
<1>1. SInv => SnappyTypeOK
  BY DEF SInv
<1> QED
  BY <1>1, SnappyInvariant, PTL

(* The sequential reader is always where the next literal begins.          *)
THEOREM ReaderAlwaysInStep == Spec => []ReaderInStep
<1>1. SInv => ReaderInStep
  BY DEF SInv
<1> QED
  BY <1>1, SnappyInvariant, PTL

(* compress_block never takes a match that lies ahead or outside the block.*)
THEOREM MatchesBehind == Spec => []MatchBehind
<1>1. SInv => MatchBehind
  BY DEF SInv
<1> QED
  BY <1>1, SnappyInvariant, PTL
-----------------------------------------------------------------------------
(* What is stored.                                                         *)

Reserved == <<"reserved">>

(* The bytes of the output s, but for the reserved ones, are before the    *)
(* window in MRAM and from there on in the window, which has room for them.*)
StoredIn(o, s) ==
  /\ IsSequence(s) /\ Len(s) = o.curr
  /\ DOMAIN o.window = 0 .. P - 1
  /\ \A k \in 0 .. o.curr - 1 :
       s[k + 1] # Reserved =>
         IF k < o.append_window
         THEN k \in DOMAIN o.buffer /\ s[k + 1] = o.buffer[k]
         ELSE k - o.append_window < P /\ s[k + 1] = o.window[k - o.append_window]

StoredInv == IF pc = "done" THEN OutputStored ELSE StoredIn(output, stream)

(* mram_write: these bytes are new, the others stay.                       *)
LEMMA MramWritten ==
  ASSUME NEW buffer, NEW from, NEW at \in Nat, NEW length \in Nat, NEW k \in Int,
         NEW d, d = k - at, d \in 0 .. length - 1
  PROVE  /\ k \in DOMAIN mram_write(buffer, from, at, length)
         /\ mram_write(buffer, from, at, length)[k] = from[d]
<1>1. k \in at .. at + length - 1
  OBVIOUS
<1> QED
  BY <1>1 DEF mram_write

LEMMA MramKept ==
  ASSUME NEW buffer, NEW from, NEW at \in Nat, NEW length \in Nat, NEW k \in DOMAIN buffer,
         k - at \notin 0 .. length - 1
  PROVE  /\ k \in DOMAIN mram_write(buffer, from, at, length)
         /\ mram_write(buffer, from, at, length)[k] = buffer[k]
  BY DEF mram_write

(* The bytes that are put into the window.                                 *)
LEMMA AppendedWindow ==
  ASSUME NEW o, Shape(o), NEW bytes
  PROVE  /\ AppendBytes(o, bytes).buffer = o.buffer
         /\ AppendBytes(o, bytes).window =
              [k \in DOMAIN o.window |->
                 IF k - (o.curr - o.append_window) \in 0 .. Len(bytes) - 1
                 THEN bytes[k - (o.curr - o.append_window) + 1] ELSE o.window[k]]
<1> DEFINE w == [k \in DOMAIN o.window |->
                  IF k - (o.curr - o.append_window) \in 0 .. Len(bytes) - 1
                  THEN bytes[k - (o.curr - o.append_window) + 1] ELSE o.window[k]]
           c == o.curr + Len(bytes)
           f == [o EXCEPT !.window = w, !.curr = c]
<1>1. AppendBytes(o, bytes) = f
  BY DEF AppendBytes
<1>2. f = [curr |-> c, append_window |-> o.append_window, window |-> w, buffer |-> o.buffer]
  <2> HIDE DEF w, c
  <2> QED BY NewWindowAndCurr
<1> HIDE DEF w, c, f
<1>3. f.buffer = o.buffer /\ f.window = w
  BY <1>2
<1> QED
  BY <1>1, <1>3 DEF w

(* Two sequences, one after the other.                                     *)
LEMMA Concatenated ==
  ASSUME NEW s, IsSequence(s), NEW t, IsSequence(t)
  PROVE  /\ IsSequence(s \o t)
         /\ Len(s) \in Nat /\ Len(t) \in Nat /\ Len(s \o t) = Len(s) + Len(t)
         /\ \A i \in 1 .. Len(s) : (s \o t)[i] = s[i]
         /\ \A i \in 1 .. Len(t) : \A j : j = Len(s) + i => (s \o t)[j] = t[i]
<1> DEFINE S == {s[i] : i \in DOMAIN s} \cup {t[i] : i \in DOMAIN t}
           c == s \o t
<1>1. s \in Seq(S) /\ t \in Seq(S)
  <2>1. s \in [1 .. Len(s) -> S] /\ Len(s) \in Nat
    <3>1. s \in Seq({s[i] : i \in DOMAIN s})
      BY DEF IsSequence
    <3>2. Len(s) \in Nat /\ s \in [1 .. Len(s) -> {s[i] : i \in DOMAIN s}]
      BY <3>1, LenProperties
    <3> QED BY <3>2
  <2>2. t \in [1 .. Len(t) -> S] /\ Len(t) \in Nat
    <3>1. t \in Seq({t[i] : i \in DOMAIN t})
      BY DEF IsSequence
    <3>2. Len(t) \in Nat /\ t \in [1 .. Len(t) -> {t[i] : i \in DOMAIN t}]
      BY <3>1, LenProperties
    <3> QED BY <3>2
  <2> HIDE DEF S
  <2> QED BY <2>1, <2>2, SeqDef
<1> HIDE DEF S
<1>2. /\ c \in Seq(S) /\ Len(c) = Len(s) + Len(t)
      /\ Len(s) \in Nat /\ Len(t) \in Nat
      /\ \A i \in 1 .. Len(s) + Len(t) : c[i] = IF i <= Len(s) THEN s[i] ELSE t[i - Len(s)]
  BY <1>1, ConcatProperties, LenProperties
<1>3. /\ \A i \in 1 .. Len(s) : c[i] = s[i]
      /\ \A i \in 1 .. Len(t) : \A j : j = Len(s) + i => c[j] = t[i]
  <2> HIDE DEF c
  <2>1. ASSUME NEW i \in 1 .. Len(s) PROVE c[i] = s[i]
    BY <1>2
  <2>2. ASSUME NEW i \in 1 .. Len(t) PROVE c[Len(s) + i] = t[i]
    <3>1. /\ Len(s) + i \in 1 .. Len(s) + Len(t) /\ ~(Len(s) + i <= Len(s))
          /\ (Len(s) + i) - Len(s) = i
      BY <1>2
    <3> QED BY <1>2, <3>1
  <2> QED BY <2>1, <2>2
<1>4. IsSequence(c)
  <2>1. c \in [1 .. Len(c) -> S] /\ Len(c) \in Nat
    BY <1>2, LenProperties
  <2> HIDE DEF c
  <2>2. c = [i \in 1 .. Len(c) |-> c[i]]
    BY <2>1
  <2> QED BY <2>1, <2>2, SequenceOf
<1> QED
  BY <1>2, <1>3, <1>4

LEMMA SecondPart ==
  ASSUME NEW s, IsSequence(s), NEW t, IsSequence(t), NEW i \in 1 .. Len(t),
         NEW j, j = Len(s) + i
  PROVE  (s \o t)[j] = t[i]
  BY Concatenated

(* The window goes to MRAM, and nothing is lost.                           *)
LEMMA FlushStores ==
  ASSUME NEW o, Shape(o), o.curr - o.append_window \in P .. P + 4,
         NEW s, StoredIn(o, s)
  PROVE  StoredIn(FlushWindow(o), s)
<1> DEFINE f == FlushWindow(o)
           b == mram_write(o.buffer, o.window, o.append_window, P)
<1>1. /\ f.curr = o.curr /\ f.append_window = o.append_window + P
      /\ f.window = o.window /\ f.buffer = b
  BY Flushed
<1>2. o.curr \in Nat /\ o.append_window \in Nat /\ P \in Nat
  BY PageSize DEF Shape
<1> HIDE DEF f, b
<1>3. ASSUME NEW k \in 0 .. o.curr - 1, s[k + 1] # Reserved
      PROVE  k < o.append_window + P /\ k \in DOMAIN b /\ s[k + 1] = b[k]
  <2>1. IF k < o.append_window
        THEN k \in DOMAIN o.buffer /\ s[k + 1] = o.buffer[k]
        ELSE k - o.append_window < P /\ s[k + 1] = o.window[k - o.append_window]
    BY <1>3 DEF StoredIn
  <2>2. k \in Int
    BY <1>2
  <2>3. CASE k < o.append_window
    <3>1. k - o.append_window \notin 0 .. P - 1 /\ k < o.append_window + P
      BY <1>2, <2>3
    <3>2. k \in DOMAIN o.buffer /\ s[k + 1] = o.buffer[k]
      BY <2>1, <2>3
    <3>3. k \in DOMAIN b /\ b[k] = o.buffer[k]
      BY <1>2, <3>1, <3>2, MramKept DEF b
    <3> QED BY <3>1, <3>2, <3>3
  <2>4. CASE ~(k < o.append_window)
    <3> DEFINE d == k - o.append_window
    <3>1. d \in 0 .. P - 1 /\ k < o.append_window + P /\ d = k - o.append_window
      BY <1>2, <2>1, <2>4
    <3>2. s[k + 1] = o.window[d]
      BY <2>1, <2>4
    <3> HIDE DEF d
    <3>3. k \in DOMAIN b /\ b[k] = o.window[d]
      BY <1>2, <2>2, <3>1, MramWritten DEF b
    <3> QED BY <3>1, <3>2, <3>3
  <2> QED BY <2>3, <2>4
<1> QED
  BY <1>1, <1>3 DEF StoredIn, f

LEMMA RoomStores ==
  ASSUME NEW o, Shape(o), o.curr - o.append_window \in 0 .. P + 4,
         NEW s, StoredIn(o, s)
  PROVE  StoredIn(MakeRoom(o), s)
<1>1. CASE o.curr - o.append_window >= P
  <2>1. o.curr - o.append_window \in P .. P + 4
    BY <1>1, PageSize DEF Shape
  <2> QED BY <1>1, <2>1, FlushStores DEF MakeRoom, P
<1>2. CASE ~(o.curr - o.append_window >= P)
  BY <1>2 DEF MakeRoom, P
<1> QED
  BY <1>1, <1>2

(* A place in the output is before what is appended, or in it and in the   *)
(* window.                                                                 *)
LEMMA PlaceBefore ==
  ASSUME NEW curr \in Nat, NEW n \in Nat, NEW k \in 0 .. curr + n - 1, k < curr
  PROVE  k \in 0 .. curr - 1 /\ k + 1 \in 1 .. curr
  OBVIOUS

LEMMA PlaceAppended ==
  ASSUME NEW curr \in Nat, NEW n \in Nat, NEW k \in 0 .. curr + n - 1, ~(k < curr),
         NEW start \in Nat, NEW p \in Nat, start <= curr, curr + n <= start + p
  PROVE  /\ k - start \in 0 .. p - 1 /\ ~(k < start)
         /\ k - curr + 1 \in 1 .. n /\ k + 1 = curr + (k - curr + 1)
         /\ (k - start) - (curr - start) = (k - curr + 1) - 1
  OBVIOUS

(* Bytes that the window has room for are added to the output.             *)
LEMMA AppendStores ==
  ASSUME NEW o, Shape(o), NEW s, StoredIn(o, s), NEW bytes, IsSequence(bytes),
         o.append_window <= o.curr, o.curr + Len(bytes) <= o.append_window + P
  PROVE  StoredIn(AppendBytes(o, bytes), s \o bytes)
<1>0. /\ IsSequence(s \o bytes) /\ Len(bytes) \in Nat /\ Len(s \o bytes) = o.curr + Len(bytes)
      /\ \A i \in 1 .. o.curr : (s \o bytes)[i] = s[i]
      /\ \A i \in 1 .. Len(bytes) : \A j : j = o.curr + i => (s \o bytes)[j] = bytes[i]
  <2>1. IsSequence(s) /\ Len(s) = o.curr
    BY DEF StoredIn
  <2>2. /\ IsSequence(s \o bytes) /\ Len(bytes) \in Nat /\ Len(s \o bytes) = Len(s) + Len(bytes)
        /\ \A i \in 1 .. Len(s) : (s \o bytes)[i] = s[i]
    BY <2>1, Concatenated
  <2>3. ASSUME NEW i \in 1 .. Len(bytes), NEW j, j = o.curr + i
        PROVE  (s \o bytes)[j] = bytes[i]
    <3>1. j = Len(s) + i
      BY <2>1, <2>3
    <3> QED BY <2>1, <3>1, SecondPart
  <2> QED BY <2>1, <2>2, <2>3
<1> DEFINE f == AppendBytes(o, bytes)
           t == s \o bytes
           index == o.curr - o.append_window
           w == [k \in DOMAIN o.window |->
                  IF k - index \in 0 .. Len(bytes) - 1 THEN bytes[k - index + 1] ELSE o.window[k]]
           n == Len(bytes)
<1>1. /\ IsSequence(t) /\ n \in Nat /\ Len(t) = o.curr + n
      /\ \A i \in 1 .. o.curr : t[i] = s[i]
      /\ \A i \in 1 .. n : \A j : j = o.curr + i => t[j] = bytes[i]
  BY <1>0, Zenon
<1>2. /\ f.curr = o.curr + n /\ f.append_window = o.append_window
      /\ f.buffer = o.buffer /\ f.window = w
  <2>1. f.buffer = o.buffer /\ f.window = w
    BY AppendedWindow
  <2>2. f.curr = o.curr + n /\ f.append_window = o.append_window
    <3>1. n \in Nat
      BY <1>1
    <3> QED BY <3>1, Appended
  <2> QED BY <2>1, <2>2
<1>3. /\ o.curr \in Nat /\ o.append_window \in Nat /\ P \in Nat /\ n \in Nat
      /\ index \in Nat /\ index = o.curr - o.append_window
  BY <1>1, PageSize DEF Shape
<1>4. DOMAIN w = 0 .. P - 1 /\ DOMAIN o.window = 0 .. P - 1
  BY DEF StoredIn
<1>5. o.append_window <= o.curr /\ o.curr + n <= o.append_window + P
  OBVIOUS
<1> HIDE DEF f, t, n
<1>6. ASSUME NEW k \in 0 .. o.curr + n - 1, t[k + 1] # Reserved
      PROVE  IF k < o.append_window
             THEN k \in DOMAIN o.buffer /\ t[k + 1] = o.buffer[k]
             ELSE k - o.append_window < P /\ t[k + 1] = w[k - o.append_window]
  <2>1. CASE k < o.curr
    <3>1. k \in 0 .. o.curr - 1 /\ k + 1 \in 1 .. o.curr
      BY <1>3, <2>1, PlaceBefore
    <3>2. t[k + 1] = s[k + 1]
      BY <1>1, <3>1
    <3>3. IF k < o.append_window
          THEN k \in DOMAIN o.buffer /\ s[k + 1] = o.buffer[k]
          ELSE k - o.append_window < P /\ s[k + 1] = o.window[k - o.append_window]
      BY <1>6, <3>1, <3>2 DEF StoredIn
    <3>4. CASE k < o.append_window
      BY <3>2, <3>3, <3>4
    <3>5. CASE ~(k < o.append_window)
      <4> DEFINE d == k - o.append_window
      <4>1. d \in 0 .. P - 1 /\ d - index \notin 0 .. n - 1
        <5>1. k - o.append_window < P /\ ~(k < o.append_window)
          BY <3>3, <3>5
        <5>2. index \in Nat /\ index = o.curr - o.append_window
          BY <1>3
        <5> HIDE DEF index, w
        <5>3. d \in 0 .. P - 1
          BY <1>3, <2>1, <5>1
        <5>4. d - index < 0
          BY <1>3, <2>1, <5>1, <5>2
        <5> HIDE DEF d
        <5> QED BY <1>3, <5>3, <5>4
      <4> HIDE DEF d, index
      <4>2. w[d] = o.window[d]
        BY <1>4, <4>1 DEF n
      <4> QED BY <3>2, <3>3, <3>5, <4>2 DEF d
    <3> QED BY <3>4, <3>5
  <2>2. CASE ~(k < o.curr)
    <3> DEFINE d == k - o.append_window
               i == k - o.curr + 1
    <3>1. /\ d \in 0 .. P - 1 /\ d - index \in 0 .. n - 1 /\ d - index + 1 = i
          /\ i \in 1 .. n /\ k + 1 = o.curr + i /\ ~(k < o.append_window)
      <4>1. index \in Nat /\ index = o.curr - o.append_window
        BY <1>3
      <4> HIDE DEF index, w, n
      <4>2. /\ d \in 0 .. P - 1 /\ ~(k < o.append_window)
            /\ i \in 1 .. n /\ k + 1 = o.curr + i
            /\ d - (o.curr - o.append_window) = i - 1
        <5> DEFINE curr == o.curr
                   start == o.append_window
        <5>1. /\ curr \in Nat /\ start \in Nat /\ n \in Nat /\ P \in Nat
              /\ start <= curr /\ curr + n <= start + P
              /\ ~(k < curr) /\ k \in 0 .. curr + n - 1
          BY <1>3, <1>5, <2>2
        <5> HIDE DEF curr, start
        <5>2. /\ k - start \in 0 .. P - 1 /\ ~(k < start)
              /\ k - curr + 1 \in 1 .. n /\ k + 1 = curr + (k - curr + 1)
              /\ (k - start) - (curr - start) = (k - curr + 1) - 1
          BY <5>1, PlaceAppended
        <5> QED BY <5>2, Zenon DEF curr, start
      <4>3. d - index = i - 1
        BY <4>1, <4>2
      <4>4. d \in Int /\ index \in Int /\ n \in Nat
        BY <1>3, <4>1, <4>2
      <4> HIDE DEF d, i
      <4>5. d - index \in 0 .. n - 1 /\ d - index + 1 = i
        BY <4>2, <4>3, <4>4
      <4> QED BY <4>2, <4>5
    <3> HIDE DEF d, i, index
    <3>2. t[k + 1] = bytes[i]
      BY <1>1, <3>1
    <3>3. w[d] = bytes[i]
      BY <1>4, <3>1 DEF n
    <3>4. d < P
      BY <1>3, <3>1
    <3> QED BY <3>1, <3>2, <3>3, <3>4 DEF d
  <2> QED BY <2>1, <2>2
<1> HIDE DEF w
<1>7. StoredIn(f, t)
  BY <1>1, <1>2, <1>4, <1>6 DEF StoredIn
<1> QED
  BY <1>7 DEF f, t

(* The steps.                                                              *)
LEMMA StartBlockStores ==
  ASSUME SInv, StartBlock, StoredInv
  PROVE  StoredInv'
<1> DEFINE four == [i \in 1 .. 4 |-> Reserved]
<1>1. /\ pc = "blocks" /\ pc' # "done" /\ stream' = stream \o four
      /\ output' = [output EXCEPT !.curr = output.curr + 4]
  BY DEF StartBlock, Reserved
<1>2. StoredIn(output, stream) /\ Shape(output)
  BY <1>1 DEF StoredInv, SInv
<1>3. /\ output'.curr = output.curr + 4 /\ output'.append_window = output.append_window
      /\ output'.window = output.window /\ output'.buffer = output.buffer
  BY <1>1, <1>2, NewCurr
<1>4. IsSequence(four) /\ Len(four) = 4 /\ \A i \in 1 .. 4 : four[i] = Reserved
  <2>1. \A i \in 1 .. 4 : four[i] = Reserved
    OBVIOUS
  <2>2. four = [i \in 1 .. 4 |-> four[i]]
    OBVIOUS
  <2> HIDE DEF four
  <2> QED BY <2>1, <2>2, SequenceOf
<1> HIDE DEF four
<1>5. /\ IsSequence(stream) /\ Len(stream) = output.curr /\ output.curr \in Nat
      /\ DOMAIN output.window = 0 .. P - 1
  BY <1>2 DEF StoredIn, Shape
<1>6. /\ IsSequence(stream') /\ Len(stream') = output'.curr
      /\ \A i \in 1 .. output.curr : stream'[i] = stream[i]
  <2>1. /\ IsSequence(stream \o four) /\ Len(stream \o four) = Len(stream) + Len(four)
        /\ \A i \in 1 .. Len(stream) : (stream \o four)[i] = stream[i]
    <3>1. IsSequence(stream) /\ IsSequence(four)
      BY <1>4, <1>5
    <3> QED BY <3>1, Concatenated
  <2>2. IsSequence(stream')
    BY <1>1, <2>1
  <2> QED BY <1>1, <1>3, <1>4, <1>5, <2>1, <2>2
<1>7. ASSUME NEW k \in 0 .. output.curr + 3, ~(k < output.curr)
      PROVE  stream'[k + 1] = Reserved
  <2> DEFINE i == k + 1 - output.curr
             j == k + 1
  <2>1. i \in 1 .. 4 /\ j = output.curr + i
    BY <1>5, <1>7
  <2> HIDE DEF i, j
  <2>2. stream'[j] = four[i]
    <3>1. i \in 1 .. Len(four) /\ j = Len(stream) + i
      BY <1>4, <1>5, <2>1
    <3>2. IsSequence(stream) /\ IsSequence(four)
      BY <1>4, <1>5
    <3>3. (stream \o four)[j] = four[i]
      BY <3>1, <3>2, SecondPart
    <3> QED BY <1>1, <3>3
  <2> QED BY <1>4, <2>1, <2>2 DEF j
<1>8. ASSUME NEW k \in 0 .. output.curr + 3, stream'[k + 1] # Reserved
      PROVE  IF k < output.append_window
             THEN k \in DOMAIN output.buffer /\ stream'[k + 1] = output.buffer[k]
             ELSE /\ k - output.append_window < P
                  /\ stream'[k + 1] = output.window[k - output.append_window]
  <2>1. k \in 0 .. output.curr - 1 /\ k + 1 \in 1 .. output.curr
    BY <1>5, <1>7, <1>8
  <2>2. stream'[k + 1] = stream[k + 1]
    BY <1>6, <2>1
  <2> QED BY <1>2, <1>8, <2>1, <2>2 DEF StoredIn
<1>9. output'.curr - 1 = output.curr + 3
  BY <1>3, <1>5
<1>10. StoredIn(output', stream')
  BY <1>3, <1>5, <1>6, <1>8, <1>9 DEF StoredIn
<1> QED
  BY <1>1, <1>10 DEF StoredInv, StoredIn

(* What both loops that write to the window do.                            *)
LEMMA WriteStores ==
  ASSUME SInv, pc = "emit", StoredInv, NEW len \in Nat, NEW bytes, IsSequence(bytes),
         Len(bytes) = Room(MakeRoom(output), len),
         output' = AppendBytes(MakeRoom(output), bytes),
         stream' = stream \o bytes,
         pc' = "emit"
  PROVE  StoredInv'
<1> DEFINE o == MakeRoom(output)
<1>1. Shape(output) /\ output.curr - output.append_window \in 0 .. P + 4
  BY DEF SInv, SnappyTypeOK, P
<1>2. Shape(o) /\ o.curr - o.append_window \in 0 .. P - 1
  BY <1>1, RoomMade
<1>3. StoredIn(o, stream)
  BY <1>1, RoomStores DEF StoredInv
<1>4. Len(bytes) \in Nat
  BY RoomFor
<1> HIDE DEF o
<1>5. o.append_window <= o.curr /\ o.curr + Len(bytes) <= o.append_window + P
  <2> DEFINE room == P - (o.curr - o.append_window)
             n == Len(bytes)
  <2>1. o.curr \in Nat /\ o.append_window \in Nat /\ P \in Nat
    BY <1>2, PageSize DEF Shape
  <2>2. n = IF room < len THEN room ELSE len
    BY DEF o, Room, P
  <2>3. room \in Nat /\ n \in Nat
    BY <1>2, <1>4, <2>1
  <2>4. n <= room
    <3> HIDE DEF room, n
    <3> QED BY <2>2, <2>3
  <2> HIDE DEF n
  <2> QED BY <1>2, <2>1, <2>3, <2>4 DEF n
<1>6. StoredIn(output', stream')
  <2>1. StoredIn(AppendBytes(o, bytes), stream \o bytes)
    BY <1>2, <1>3, <1>5, AppendStores
  <2> QED BY <2>1 DEF o
<1> QED
  BY <1>6 DEF StoredInv, StoredIn

LEMMA WriteOutputBufferStores ==
  ASSUME SInv, WriteOutputBuffer, StoredInv
  PROVE  StoredInv'
<1> DEFINE len == Len(arr)
           n == Room(MakeRoom(output), len)
           bytes == SubSeq(arr, 1, n)
<1>1. /\ pc = "emit" /\ pc' = "emit"
      /\ output' = AppendBytes(MakeRoom(output), bytes)
      /\ stream' = stream \o bytes
  BY DEF WriteOutputBuffer
<1>2. len \in Nat /\ IsSequence(arr)
  BY LenProperties DEF SInv, EmitInv, IsSequence
<1>3. n \in 0 .. len
  BY <1>1, <1>2, RoomFor
<1> HIDE DEF n
<1>4. Len(bytes) = n /\ IsSequence(bytes)
  <2> DEFINE S == {arr[i] : i \in DOMAIN arr}
  <2>1. arr \in Seq(S)
    BY <1>2 DEF IsSequence
  <2> HIDE DEF S
  <2>2. \A i \in 1 .. len : arr[i] \in S
    BY <2>1, ElementOfSeq
  <2> HIDE DEF len
  <2>3. \A i \in 1 .. n : arr[i] \in S
    BY <1>2, <1>3, <2>2
  <2>4. 1 \in Int /\ n \in Int
    BY <1>2, <1>3
  <2>5. Len(bytes) = (IF 1 <= n THEN n - 1 + 1 ELSE 0) /\ bytes \in Seq(S)
    BY <2>3, <2>4, SubSeqProperties
  <2>6. Len(bytes) = n
    BY <1>2, <1>3, <2>5
  <2>7. DOMAIN bytes = 1 .. Len(bytes) /\ Len(bytes) \in Nat /\ bytes \in [1 .. Len(bytes) -> S]
    BY <2>5, LenProperties
  <2> HIDE DEF bytes
  <2>8. bytes = [i \in 1 .. Len(bytes) |-> bytes[i]]
    BY <2>7
  <2> QED BY <2>6, <2>7, <2>8, SequenceOf
<1> HIDE DEF bytes
<1> QED
  BY <1>1, <1>2, <1>4, WriteStores DEF n

LEMMA CopyOutputBufferStores ==
  ASSUME SInv, CopyOutputBuffer, StoredInv
  PROVE  StoredInv'
<1> DEFINE n == Room(MakeRoom(output), left)
           bytes == [k \in 1 .. n |-> <<"byte", CachedByte(input, input.ptr + k - 1)>>]
<1>1. /\ pc = "emit" /\ pc' = "emit"
      /\ output' = AppendBytes(MakeRoom(output), bytes)
      /\ stream' = stream \o bytes
  <2>1. bytes = [k \in 1 .. n |->
                  <<"byte", [i \in 1 .. n |-> CachedByte(input, input.ptr + i - 1)][k]>>]
    OBVIOUS
  <2> HIDE DEF bytes
  <2> QED BY <2>1 DEF CopyOutputBuffer
<1>2. left \in Nat
  BY Numeric DEF Numbers
<1>3. n \in Nat
  BY <1>1, <1>2, RoomFor
<1>4. bytes = [k \in 1 .. n |-> bytes[k]]
  OBVIOUS
<1> HIDE DEF bytes, n
<1>5. Len(bytes) = n /\ IsSequence(bytes)
  BY <1>3, <1>4, SequenceOf
<1> QED
  BY <1>1, <1>2, <1>5, WriteStores DEF n

LEMMA ReturnStores ==
  ASSUME SInv, Return, StoredInv
  PROVE  StoredInv'
<1> DEFINE start == block.start - 4
           length == [i \in 0 .. 3 |-> <<"length", output.curr - block.start, i>>]
           b == mram_write(output.buffer, length, start, 4)
<1>1. /\ pc = "emit" /\ pc' = "blocks"
      /\ output' = [output EXCEPT !.buffer = b]
      /\ stream' = [k \in 1 .. Len(stream) |->
                      IF k - 1 - start \in 0 .. 3 /\ k - 1 < output.append_window
                      THEN length[k - 1 - start] ELSE stream[k]]
  BY DEF Return, AllEmitted
<1>2. StoredIn(output, stream) /\ Shape(output)
  BY <1>1 DEF StoredInv, SInv
<1> HIDE DEF length
<1>3. /\ output'.curr = output.curr /\ output'.append_window = output.append_window
      /\ output'.window = output.window /\ output'.buffer = b
  <2> HIDE DEF b
  <2> QED BY <1>1, <1>2, NewBuffer
<1>4. /\ Len(stream) = output.curr /\ output.curr \in Nat /\ output.append_window \in Nat
      /\ DOMAIN output.window = 0 .. P - 1
  BY <1>2 DEF StoredIn, Shape
<1>5. IsSequence(stream') /\ Len(stream') = output.curr
  <2> DEFINE new(k) == IF k - 1 - start \in 0 .. 3 /\ k - 1 < output.append_window
                       THEN length[k - 1 - start] ELSE stream[k]
  <2>1. stream' = [k \in 1 .. output.curr |-> new(k)]
    BY <1>1, <1>4
  <2> HIDE DEF new
  <2>2. stream' = [k \in 1 .. output.curr |-> stream'[k]]
    BY <2>1
  <2> QED BY <1>4, <2>2, SequenceOf
<1>6. ASSUME NEW k \in 0 .. output.curr - 1, stream'[k + 1] # Reserved
      PROVE  IF k < output.append_window
             THEN k \in DOMAIN b /\ stream'[k + 1] = b[k]
             ELSE /\ k - output.append_window < P
                  /\ stream'[k + 1] = output.window[k - output.append_window]
  <2> DEFINE d == k - start
  <2>1. /\ k + 1 \in 1 .. Len(stream) /\ (k + 1) - 1 = k /\ k \in Int
        /\ start \in Int /\ d = k - start
    <3>1. block.start \in Nat
      BY Numeric DEF Numbers
    <3> QED BY <1>4, <3>1
  <2>2. stream'[k + 1] = IF d \in 0 .. 3 /\ k < output.append_window
                         THEN length[d] ELSE stream[k + 1]
    BY <1>1, <2>1
  <2> HIDE DEF d, start
  <2>3. CASE d \in 0 .. 3 /\ k < output.append_window
    <3>1. d \in 0 .. 4 - 1
      BY <2>3
    <3>2. k \in DOMAIN b /\ b[k] = length[d]
      <4>1. k \in start .. start + 4 - 1
        BY <2>1, <3>1
      <4> QED BY <2>1, <3>1, <4>1 DEF mram_write
    <3> QED BY <2>2, <2>3, <3>2
  <2>4. CASE k < output.append_window /\ d \notin 0 .. 3
    <3>1. k \in DOMAIN output.buffer /\ stream'[k + 1] = output.buffer[k]
      BY <1>2, <1>6, <2>2, <2>4 DEF StoredIn
    <3>2. k - start \notin 0 .. 4 - 1
      BY <2>1, <2>4
    <3>3. k \in DOMAIN b /\ b[k] = output.buffer[k]
      BY <3>1, <3>2 DEF mram_write
    <3> QED BY <2>4, <3>1, <3>3
  <2>5. CASE ~(k < output.append_window)
    BY <1>2, <1>6, <2>2, <2>5 DEF StoredIn
  <2> QED BY <2>3, <2>4, <2>5
<1> HIDE DEF b
<1>7. StoredIn(output', stream')
  BY <1>3, <1>4, <1>5, <1>6 DEF StoredIn
<1> QED
  BY <1>1, <1>7 DEF StoredInv, StoredIn

(* At the end of the output the last window holds output.curr -            *)
(* append_window bytes, which are those that FinalLength counts.           *)
LEMMA RestOfWindow ==
  ASSUME NEW n \in Nat, NEW w \in Nat, NEW p \in Nat \ {0}, w % p = 0, n - w \in 0 .. p - 1
  PROVE  n % p = n - w
<1> DEFINE q == w \div p
           r == n \div p
           m == n % p
           d == n - w
<1>1. q \in Nat /\ w = p * q
  BY Division
<1>2. r \in Nat /\ m \in 0 .. p - 1 /\ n = p * r + m
  BY Division
<1>3. d \in 0 .. p - 1 /\ n = w + d
  OBVIOUS
<1> HIDE DEF q, r, m, d
<1>4. ASSUME NEW x \in Nat, NEW y \in Nat, NEW a \in 0 .. p - 1, NEW b \in 0 .. p - 1,
             p * x + a = p * y + b, x < y
      PROVE  FALSE
  <2>1. PICK z \in Nat : y = x + 1 + z
    <3>1. y - x - 1 \in Nat /\ y = x + 1 + (y - x - 1)
      BY <1>4
    <3> QED BY <3>1
  <2>2. p * y = p * x + p + p * z /\ p * z \in Nat /\ p * x \in Nat
    BY <2>1
  <2> QED BY <1>4, <2>2
<1>5. q = r
  BY <1>1, <1>2, <1>3, <1>4
<1>6. d = m
  BY <1>1, <1>2, <1>3, <1>5
<1> QED
  BY <1>6 DEF d, m

LEMMA FinishStores ==
  ASSUME SInv, Finish, StoredInv
  PROVE  StoredInv'
<1> DEFINE b == mram_write(output.buffer, output.window, output.append_window, FinalLength)
<1>1. /\ pc = "blocks" /\ pc' = "done" /\ input.curr >= Len(call.data) /\ stream' = stream
      /\ output' = IF output.append_window < output.curr
                   THEN [output EXCEPT !.buffer = b] ELSE output
  BY DEF Finish
<1>2. StoredIn(output, stream) /\ Shape(output)
  BY <1>1 DEF StoredInv, SInv
<1>3. /\ output.curr \in Nat /\ output.append_window \in Nat
      /\ output.append_window % P = 0 /\ P \in Nat \ {0}
  BY <1>2, PageSize DEF Shape
<1>4. output.curr - output.append_window \in 0 .. P
  <2>1. input.curr \in Nat /\ Len(call.data) \in Nat
    BY Numeric DEF Numbers
  <2>2. \/ output.curr - output.append_window \in 0 .. P
        \/ input.curr < Len(call.data)
    BY <1>1, Zenon DEF SInv, WindowInv
  <2> QED BY <1>1, <2>1, <2>2
<1>5. /\ output'.curr = output.curr
      /\ output'.buffer = IF output.append_window < output.curr THEN b ELSE output.buffer
  <2> HIDE DEF b
  <2>1. [output EXCEPT !.buffer = b].curr = output.curr /\ [output EXCEPT !.buffer = b].buffer = b
    BY <1>2, NewBuffer
  <2> QED BY <1>1, <2>1
<1>6. ASSUME output.append_window < output.curr
      PROVE  FinalLength = output.curr - output.append_window
  <2> DEFINE d == output.curr - output.append_window
             m == output.curr % P
  <2>1. CASE d = P
    <3>1. output.append_window + P = output.curr
      BY <1>3, <2>1
    <3>2. m = 0
      BY <1>3, <3>1, Multiples
    <3> QED BY <2>1, <3>2 DEF FinalLength, P
  <2>2. CASE d # P
    <3>1. d \in 0 .. P - 1 /\ d # 0
      BY <1>3, <1>4, <1>6, <2>2
    <3>2. m = d
      BY <1>3, <3>1, RestOfWindow
    <3> QED BY <3>1, <3>2 DEF FinalLength, P
  <2> QED BY <2>1, <2>2
<1>7. ASSUME NEW k \in 0 .. output.curr - 1, stream[k + 1] # Reserved
      PROVE  k \in DOMAIN output'.buffer /\ stream[k + 1] = output'.buffer[k]
  <2>1. IF k < output.append_window
        THEN k \in DOMAIN output.buffer /\ stream[k + 1] = output.buffer[k]
        ELSE k - output.append_window < P /\ stream[k + 1] = output.window[k - output.append_window]
    BY <1>2, <1>7 DEF StoredIn
  <2>2. CASE ~(output.append_window < output.curr)
    <3>1. k < output.append_window
      BY <1>3, <2>2
    <3> QED BY <1>5, <2>1, <2>2, <3>1
  <2>3. CASE output.append_window < output.curr
    <3> DEFINE d == k - output.append_window
               n == FinalLength
    <3>1. n = output.curr - output.append_window /\ n \in Nat /\ output'.buffer = b
      BY <1>3, <1>5, <1>6, <2>3
    <3> HIDE DEF n
    <3>2. CASE k < output.append_window
      <4>1. k - output.append_window \notin 0 .. n - 1
        BY <1>3, <3>1, <3>2
      <4>2. k \in DOMAIN output.buffer /\ stream[k + 1] = output.buffer[k]
        BY <2>1, <3>2
      <4>3. k \in DOMAIN b /\ b[k] = output.buffer[k]
        BY <1>3, <3>1, <4>1, <4>2, MramKept DEF n
      <4> QED BY <3>1, <4>2, <4>3
    <3>3. CASE ~(k < output.append_window)
      <4>1. d \in 0 .. n - 1 /\ d = k - output.append_window /\ k \in Int
        BY <1>3, <3>1, <3>3
      <4>2. stream[k + 1] = output.window[d]
        BY <2>1, <3>3
      <4> HIDE DEF d
      <4>3. k \in DOMAIN b /\ b[k] = output.window[d]
        BY <1>3, <3>1, <4>1, MramWritten DEF n
      <4> QED BY <3>1, <4>2, <4>3
    <3> QED BY <3>2, <3>3
  <2> QED BY <2>2, <2>3
<1>8. Len(stream) = output.curr
  BY <1>2 DEF StoredIn
<1> QED
  BY <1>1, <1>5, <1>7, <1>8 DEF StoredInv, OutputStored, Reserved

(* The search, and what it hands over to be emitted, leave the output.     *)
LEMMA OtherStores ==
  ASSUME SInv, StoredInv,
         Begin \/ Scan \/ Copy \/ EmitCopy \/ EmitLiteral \/ Emitted \/ UNCHANGED vars
  PROVE  StoredInv'
<1>1. UNCHANGED <<output, stream>>
  BY DEF Begin, Scan, Copy, EmitCopy, EmitLiteral, Emitted, vars
<1>2. CASE UNCHANGED vars
  <2>1. pc' = pc
    BY <1>2 DEF vars
  <2> QED BY <1>1, <2>1 DEF StoredInv, StoredIn, OutputStored
<1>3. CASE ~(UNCHANGED vars)
  <2>1. pc # "done" /\ pc' # "done"
    BY <1>3 DEF Begin, Scan, Copy, EmitCopy, EmitLiteral, Emitted, Emit, AllEmitted,
                SInv, SnappyTypeOK
  <2> QED BY <1>1, <2>1 DEF StoredInv, StoredIn
<1> QED
  BY <1>2, <1>3

LEMMA InitStores ==
  ASSUME Init
  PROVE  StoredInv
<1> DEFINE w == [k \in 0 .. OUT_BUFFER_LENGTH - 1 |-> <<"old">>]
<1>1. pc = "blocks" /\ stream = <<>>
  BY DEF Init
<1>2. output.curr = 0 /\ DOMAIN output.window = 0 .. P - 1
  <2>1. output = [curr |-> 0, append_window |-> 0, window |-> w, buffer |-> <<>>]
    BY DEF Init
  <2>2. DOMAIN w = 0 .. P - 1
    BY DEF P
  <2> HIDE DEF w
  <2> QED BY <2>1, <2>2
<1>3. IsSequence(stream) /\ Len(stream) = 0
  <2>1. \A S : <<>> \in Seq(S)
    BY EmptySeq
  <2>2. Len(<<>>) = 0
    BY EmptySeq
  <2> QED BY <1>1, <2>1, <2>2 DEF IsSequence
<1>4. 0 .. output.curr - 1 = {}
  BY <1>2
<1> QED
  BY <1>1, <1>2, <1>3, <1>4 DEF StoredInv, StoredIn

LEMMA StepStores ==
  ASSUME SInv, StoredInv, [Next]_vars
  PROVE  StoredInv'
<1>1. CASE StartBlock
  BY <1>1, StartBlockStores
<1>2. CASE Finish
  BY <1>2, FinishStores
<1>3. CASE WriteOutputBuffer
  BY <1>3, WriteOutputBufferStores
<1>4. CASE CopyOutputBuffer
  BY <1>4, CopyOutputBufferStores
<1>5. CASE Return
  BY <1>5, ReturnStores
<1>6. CASE Begin \/ Scan \/ Copy \/ EmitCopy \/ EmitLiteral \/ Emitted \/ UNCHANGED vars
  BY <1>6, OtherStores
<1> QED
  BY <1>1, <1>2, <1>3, <1>4, <1>5, <1>6 DEF Next

(* No byte that is emitted is lost on its way through the append window to *)
(* MRAM, wherever tags, literals and the reserved lengths cross its end,   *)
(* and however long the output is.                                         *)
THEOREM OutputAlwaysStored == Spec => []OutputStored
<1>1. Init => StoredInv
  BY InitStores
<1>2. SInv /\ StoredInv /\ [Next]_vars => StoredInv'
  BY StepStores
<1>3. StoredInv => OutputStored
  <2>1. SUFFICES ASSUME pc # "done", StoredIn(output, stream) PROVE OutputStored
    BY DEF StoredInv
  <2> QED BY <2>1 DEF StoredIn, OutputStored, Reserved
<1>4. Spec => []StoredInv
  BY <1>1, <1>2, SnappyInvariant, PTL DEF Spec
<1> QED
  BY <1>3, <1>4, PTL

=============================================================================
