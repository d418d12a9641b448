------------------------------- MODULE Snappy --------------------------------
(***************************************************************************)
(* dpu_compress (module/snappy_compress.c): Snappy compression of an input *)
(* in MRAM, block by block, to an output in MRAM, with the sequential      *)
(* reader of module/seqread.c for the literals.                            *)
(*                                                                         *)
(* A tag is one element of the stream that fills as many bytes as the code *)
(* gives it.  Addresses are those of a DPU: the port to the kernel, which  *)
(* mixes offsets in WRAM and pointers, is not modelled.                    *)
(***************************************************************************)
EXTENDS Integers, Sequences

CONSTANTS
  OUT_BUFFER_LENGTH,  \* 256: the append window and SEQREAD_CACHE_SIZE
  MRAM_SIZE,          \* the address a reader that holds nothing starts from
  UINT16,             \* 2^16, the number of values of a table entry
  COPY_1_OFFSETS,     \* 2048: from here on a copy takes three bytes
  NumTableEntries,    \* num_table_entries
  Byte,               \* the bytes that occur
  Filler,             \* the byte in MRAM around the input
  Hash,               \* hash functions: the slot of each word of four bytes
  Calls,              \* what dpu_compress is called with: records of
                      \*   data: the input, as a sequence of bytes
                      \*   buffer: its address in MRAM
                      \*   block_size
                      \*   hash: in the domain of Hash
  MaxOut              \* bound: no block begins in an output longer than this

input_margin_bytes == 15

ASSUME SnappyAssumption ==
  /\ OUT_BUFFER_LENGTH \in Nat /\ OUT_BUFFER_LENGTH > 4
  /\ {MRAM_SIZE, UINT16, COPY_1_OFFSETS, NumTableEntries, MaxOut} \subseteq Nat \ {0}
  /\ MRAM_SIZE % OUT_BUFFER_LENGTH = 0
  /\ Filler \in Byte
  /\ Hash \in [DOMAIN Hash -> [[1 .. 4 -> Byte] -> 0 .. NumTableEntries - 1]]
  /\ \A c \in Calls : /\ c.data \in Seq(Byte)
                      /\ c.buffer \in 0 .. MRAM_SIZE - 1
                      /\ c.block_size \in Nat \ {0}
                      /\ c.hash \in DOMAIN Hash

VARIABLES
  call,           \* the call that runs
  pc,             \* "blocks": the loop of dpu_compress; "begin", "scan", "copy":
                  \* the loops of compress_block; "emit": the output is written
  input,          \* curr, ptr (from the start of the cache) and sr.mram_addr
  output,         \* curr, append_window, the window and the buffer in MRAM
  length_remain,
  block,          \* the locals of compress_block that keep their value
  table,
  curr_input, next_input, skip_bytes, candidate, next_emit,
  offset,         \* how far back the match lies, and ...
  matched,        \* ... the length that emit_copy has still to emit,
  literal,        \* of the literal that comes then,
  arr,            \* what write_output_buffer and
  left,           \* how much copy_output_buffer has still to write,
  after,          \* and where compress_block goes on
  decoded,        \* history: what a decompressor makes of the block so far
  stream          \* history: every byte of the output, in order

scanVars  == <<curr_input, next_input, skip_bytes, candidate, next_emit>>
blockVars == <<block, table, scanVars>>
emitVars  == <<offset, matched, literal, arr, left, after>>
vars == <<call, pc, input, output, length_remain, blockVars, emitVars, decoded, stream>>

-----------------------------------------------------------------------------
(* The input.                                                              *)

InputByte(at) ==
  IF at < Len(call.data) THEN call.data[at + 1] ELSE Filler

(* What the two pages in the cache hold at i; other bytes behind them.     *)
CachedByte(in, i) ==
  LET at == in.mram_addr + i - call.buffer
  IN  IF i < 2 * OUT_BUFFER_LENGTH /\ at >= 0 THEN InputByte(at) ELSE Filler

(* Mutant: the offset in the old page is used in the new one.              *)
SeekUnmasked(in, target) ==
  [in EXCEPT !.ptr = target - in.mram_addr,
             !.mram_addr = target - (target % OUT_BUFFER_LENGTH)]

(* __SEQREAD_SEEK reads two pages if target is not on the current one.     *)
seqread_seek(in, target) ==
  IF target - in.mram_addr \in 0 .. OUT_BUFFER_LENGTH - 1
  THEN [in EXCEPT !.ptr = target - in.mram_addr]
  ELSE [in EXCEPT !.ptr = target % OUT_BUFFER_LENGTH,
                  !.mram_addr = target - (target % OUT_BUFFER_LENGTH)]

seqread_tell(in) == in.mram_addr + (in.ptr % OUT_BUFFER_LENGTH)

(* Mutant: the pointer moves within the page it is on.                     *)
AdvanceInPage(in, len) ==
  [in EXCEPT !.ptr = (@ + len) % OUT_BUFFER_LENGTH, !.curr = @ + len]

advance_seqread(in, len) ==
  [seqread_seek(in, seqread_tell(in) + len) EXCEPT !.curr = @ + len]

(* From the cache if it is there, otherwise from MRAM.                     *)
read_uint32(in, at) ==
  LET d == at - in.curr
  IN  [k \in 1 .. 4 |-> IF d \in 0 .. OUT_BUFFER_LENGTH - 5
                        THEN CachedByte(in, in.ptr + d + k - 1)
                        ELSE InputByte(at + k - 1)]

(* One of the two words that read_two_uint32 takes from MRAM.              *)
MramWord(at) == [k \in 1 .. 4 |-> InputByte(at + k - 1)]

hash(word) == Hash[call.hash][word]

(* __builtin_ctz(0) is undefined: it may end the comparison anywhere.      *)
find_match_length(s1, s2, s2_limit) ==
  LET Word(k, s) == read_uint32(input, s + 4 * k)
      Same(k) == Word(k, s2) = Word(k, s1)
      InLimit(k) == s2 + 4 * k <= s2_limit - 4
      fours == CHOOSE k \in 0 .. s2_limit :
                 /\ \A j \in 0 .. k - 1 : InLimit(j) /\ Same(j)
                 /\ ~(InLimit(k) /\ Same(k))
      Differs(b) == Word(fours, s2)[b + 1] # Word(fours, s1)[b + 1]
      ctz == IF Same(fours) THEN 0 .. 3
             ELSE {b \in 0 .. 3 : Differs(b) /\ \A c \in 0 .. b - 1 : ~Differs(c)}
      room == s2_limit - (s2 + 4 * fours)
  IN  {4 * fours + (IF b < room THEN b ELSE room) : b \in ctz}

-----------------------------------------------------------------------------
(* The output.                                                             *)

(* The first length bytes of from go to the buffer in MRAM, at address at; *)
(* the buffer has the bytes that were ever written to it.                  *)
mram_write(buffer, from, at, length) ==
  [k \in DOMAIN buffer \cup at .. at + length - 1 |->
     IF k - at \in 0 .. length - 1 THEN from[k - at] ELSE buffer[k]]

(* Mutant: the window is written where it was before.                      *)
FlushInPlace(o) ==
  [o EXCEPT !.buffer = mram_write(@, o.window, 0, OUT_BUFFER_LENGTH),
            !.append_window = @ + OUT_BUFFER_LENGTH]

(* The whole window goes to MRAM.                                          *)
FlushWindow(o) ==
  [o EXCEPT !.buffer = mram_write(@, o.window, o.append_window, OUT_BUFFER_LENGTH),
            !.append_window = @ + OUT_BUFFER_LENGTH]

(* Mutant: the window is written a byte too late.                          *)
MakeRoomLate(o) ==
  IF o.curr - o.append_window > OUT_BUFFER_LENGTH THEN FlushWindow(o) ELSE o

MakeRoom(o) ==
  IF o.curr - o.append_window >= OUT_BUFFER_LENGTH THEN FlushWindow(o) ELSE o

(* Bytes put into the window.                                             *)
AppendBytes(o, bytes) ==
  LET index == o.curr - o.append_window
  IN  [o EXCEPT !.window = [k \in DOMAIN @ |->
         IF k - index \in 0 .. Len(bytes) - 1 THEN bytes[k - index + 1] ELSE @[k]],
                !.curr = @ + Len(bytes)]

(* How much of len bytes there is room for.                                *)
Room(o, len) ==
  LET room == OUT_BUFFER_LENGTH - (o.curr - o.append_window)
  IN  IF room < len THEN room ELSE len

(* The bytes of a literal's tag: the length less one follows when it is 60 *)
(* or more, in as many bytes as it takes.                                  *)
LiteralTag(len) ==
  LET n == len - 1
      more == IF n < 60 THEN 0 ELSE IF n < 256 THEN 1 ELSE IF n < 256 * 256 THEN 2 ELSE 3
  IN  [i \in 1 .. 1 + more |-> <<"literal", len, i>>]

(* Mutant: nothing is kept back for the last copy.                         *)
ChunkOf64(len) == IF len > 64 THEN 64 ELSE len

(* emit_copy: the length of the next copy.                                 *)
Chunk(len) == IF len >= 68 THEN 64 ELSE IF len > 64 THEN 60 ELSE len

(* emit_copy_less_than64: what is left of the distance and the length in   *)
(* the bits of a tag.                                                      *)
CopyTag(back, len) ==
  IF len < 12 /\ back < COPY_1_OFFSETS
  THEN [offset |-> back, len |-> 4 + ((len - 4) % 8), bytes |-> 2]
  ELSE [offset |-> back % UINT16, len |-> 1 + ((len - 1) % 64), bytes |-> 3]

(* A decompressor repeats what it finds offset bytes back.                 *)
Decompress(bytes, tag) ==
  bytes \o [i \in 1 .. tag.len |->
             IF tag.offset \in 1 .. Len(bytes)
             THEN bytes[Len(bytes) - tag.offset + 1 + ((i - 1) % tag.offset)] ELSE Filler]

-----------------------------------------------------------------------------
(* dpu_compress.                                                           *)

ToCompress == IF length_remain < call.block_size THEN length_remain ELSE call.block_size

(* Mutant: the table is not reset.                                         *)
TableKept == table

TableReset == [s \in 0 .. NumTableEntries - 1 |-> 0]

(* The table is reset and compress_block reserves four bytes for the       *)
(* compressed length.  It does nothing else with a block of less than      *)
(* input_margin_bytes.                                                     *)
StartBlock ==
  /\ pc = "blocks"
  /\ input.curr < Len(call.data)
  /\ output.curr + 4 <= MaxOut
  /\ output' = [output EXCEPT !.curr = @ + 4]
  /\ stream' = stream \o [i \in 1 .. 4 |-> <<"reserved">>]
  /\ block' = [base |-> input.curr, end |-> input.curr + ToCompress,
               start |-> output.curr + 4]
  /\ table' = TableReset
  /\ decoded' = <<>>
  /\ curr_input' = input.curr
  /\ next_emit' = input.curr
  /\ IF ToCompress >= input_margin_bytes
     THEN pc' = "begin" /\ UNCHANGED length_remain
     ELSE pc' = "blocks" /\ length_remain' = length_remain - ToCompress
  /\ UNCHANGED <<call, input, next_input, skip_bytes, candidate, emitVars>>

(* Mutant: the rest of the window is forgotten when the output ends with it.*)
FinalLengthPlain == output.curr % OUT_BUFFER_LENGTH

FinalLength ==
  IF output.curr % OUT_BUFFER_LENGTH = 0 THEN OUT_BUFFER_LENGTH
  ELSE output.curr % OUT_BUFFER_LENGTH

(* The last window goes to MRAM (rounded up to eight bytes).               *)
Finish ==
  /\ pc = "blocks"
  /\ input.curr >= Len(call.data)
  /\ pc' = "done"
  /\ output' = IF output.append_window < output.curr
               THEN [output EXCEPT !.buffer =
                       mram_write(@, output.window, output.append_window, FinalLength)]
               ELSE output
  /\ UNCHANGED <<call, input, length_remain, blockVars, emitVars, decoded, stream>>

-----------------------------------------------------------------------------
(* compress_block.                                                         *)

input_limit == block.end - input_margin_bytes

(* What a match and a literal need emitted.                                *)
Emit(copy, back, len, next) ==
  /\ pc' = "emit"
  /\ offset' = back
  /\ matched' = copy
  /\ literal' = len
  /\ after' = next
  /\ UNCHANGED <<arr, left>>

(* One turn of emit_copy.                                                  *)
EmitCopy ==
  LET tag == CopyTag(offset, Chunk(matched))
  IN  /\ pc = "emit"
      /\ arr = <<>>
      /\ matched > 0
      /\ matched' = matched - Chunk(matched)
      /\ arr' = [i \in 1 .. tag.bytes |-> <<"copy", tag.offset, tag.len, i>>]
      /\ decoded' = Decompress(decoded, tag)
      /\ UNCHANGED <<call, pc, input, output, length_remain, blockVars, offset, literal, left,
                     after, stream>>

EmitLiteral ==
  /\ pc = "emit"
  /\ arr = <<>>
  /\ matched = 0
  /\ literal > 0
  /\ arr' = LiteralTag(literal)
  /\ left' = literal
  /\ literal' = 0
  /\ UNCHANGED <<call, pc, input, output, length_remain, blockVars, offset, matched, after,
                 decoded, stream>>

(* One turn of write_output_buffer: to the end of the window.              *)
WriteOutputBuffer ==
  LET o == MakeRoom(output)
      to_write == Room(o, Len(arr))
      bytes == SubSeq(arr, 1, to_write)
  IN  /\ pc = "emit"
      /\ arr # <<>>
      /\ output' = AppendBytes(o, bytes)
      /\ arr' = SubSeq(arr, to_write + 1, Len(arr))
      /\ stream' = stream \o bytes
      /\ UNCHANGED <<call, pc, input, length_remain, blockVars, offset, matched, literal, left,
                     after, decoded>>

(* One turn of copy_output_buffer, from the cache.                         *)
CopyOutputBuffer ==
  LET o == MakeRoom(output)
      to_copy == Room(o, left)
      copied == [k \in 1 .. to_copy |-> CachedByte(input, input.ptr + k - 1)]
      bytes == [k \in 1 .. to_copy |-> <<"byte", copied[k]>>]
  IN  /\ pc = "emit"
      /\ arr = <<>>
      /\ matched = 0 /\ literal = 0
      /\ left > 0
      /\ output' = AppendBytes(o, bytes)
      /\ input' = advance_seqread(input, to_copy)
      /\ left' = left - to_copy
      /\ decoded' = decoded \o copied
      /\ stream' = stream \o bytes
      /\ UNCHANGED <<call, pc, length_remain, blockVars, offset, matched, literal, arr, after>>

AllEmitted ==
  /\ pc = "emit"
  /\ arr = <<>>
  /\ matched = 0 /\ literal = 0 /\ left = 0

(* compress_block goes on with the search.                                 *)
Emitted ==
  /\ AllEmitted
  /\ after # "return"
  /\ pc' = after
  /\ UNCHANGED <<call, input, output, length_remain, blockVars, emitVars, decoded, stream>>

(* compress_block returns.  write_compressed_length goes to MRAM, also when*)
(* these bytes are still in the window, which will be written over them.   *)
Return ==
  LET start == block.start - 4
      length == [i \in 0 .. 3 |-> <<"length", output.curr - block.start, i>>]
  IN  /\ AllEmitted
      /\ after = "return"
      /\ pc' = "blocks"
      /\ output' = [output EXCEPT !.buffer = mram_write(@, length, start, 4)]
      /\ stream' = [k \in 1 .. Len(stream) |->
                      IF k - 1 - start \in 0 .. 3 /\ k - 1 < output.append_window
                      THEN length[k - 1 - start] ELSE stream[k]]
      /\ length_remain' = length_remain - (block.end - block.base)
      /\ UNCHANGED <<call, input, blockVars, emitVars, decoded>>

(* The main loop begins.                                                   *)
Begin ==
  /\ pc = "begin"
  /\ pc' = "scan"
  /\ curr_input' = curr_input + 1
  /\ next_input' = curr_input + 1
  /\ skip_bytes' = 32
  /\ UNCHANGED <<call, input, output, length_remain, block, table, candidate, next_emit,
                 emitVars, decoded, stream>>

(* Step 1: one turn of the search for a word that the table knows; next to *)
(* the end of the block the remainder is emitted.                          *)
Scan ==
  LET here == next_input
      next == next_input + (skip_bytes \div 32)
      hval == hash(read_uint32(input, here))
      found == block.base + table[hval]
  IN  /\ pc = "scan"
      /\ curr_input' = here
      /\ next_input' = next
      /\ skip_bytes' = skip_bytes + 1
      /\ IF next > input_limit
         THEN /\ Emit(0, 0, block.end - next_emit, "return")
              /\ UNCHANGED <<table, candidate>>
         ELSE /\ candidate' = found
              /\ table' = [table EXCEPT ![hval] = (here - block.base) % UINT16]
              /\ IF read_uint32(input, here) = read_uint32(input, found)
                 THEN Emit(0, 0, here - next_emit, "copy")
                 ELSE UNCHANGED <<pc, emitVars>>
      /\ UNCHANGED <<call, input, output, length_remain, block, next_emit, decoded, stream>>

(* Steps 2 and 3: the match is emitted as copies; the word that follows is *)
(* looked up at once.                                                      *)
Copy ==
  /\ pc = "copy"
  /\ \E more \in find_match_length(candidate + 4, curr_input + 4, block.end) :
       LET length == 4 + more
           back == curr_input - candidate
           here == curr_input + length
           curr_hash == hash(MramWord(here))
           known == [table EXCEPT ![hash(MramWord(here - 1))] = (here - block.base - 1) % UINT16]
           found == block.base + known[curr_hash]
       IN  /\ input' = advance_seqread(input, length)
           /\ curr_input' = here
           /\ next_emit' = here
           /\ IF here >= input_limit
              THEN /\ Emit(length, back, block.end - here, "return")
                   /\ UNCHANGED <<table, candidate>>
              ELSE /\ table' = [known EXCEPT ![curr_hash] = (here - block.base) % UINT16]
                   /\ candidate' = found
                   /\ Emit(length, back, 0,
                           IF MramWord(here) = read_uint32(input', found)
                           THEN "copy" ELSE "begin")
  /\ UNCHANGED <<call, output, length_remain, block, next_input, skip_bytes,
                 decoded, stream>>

-----------------------------------------------------------------------------
(* snappy_compress_main prepares the buffers: the reader starts with an    *)
(* address at the end of MRAM, so that the first page is read.             *)
Init ==
  /\ call \in Calls
  /\ pc = "blocks"
  /\ input = seqread_seek([curr |-> 0, ptr |-> 0, mram_addr |-> MRAM_SIZE], call.buffer)
  /\ output = [curr |-> 0, append_window |-> 0,
               window |-> [k \in 0 .. OUT_BUFFER_LENGTH - 1 |-> <<"old">>],
               buffer |-> <<>>]
  /\ length_remain = Len(call.data)
  /\ block = [base |-> 0, end |-> 0, start |-> 4]
  /\ table = [s \in 0 .. NumTableEntries - 1 |-> 0]
  /\ curr_input = 0 /\ next_input = 0 /\ skip_bytes = 0 /\ candidate = 0 /\ next_emit = 0
  /\ offset = 0 /\ matched = 0 /\ literal = 0 /\ arr = <<>> /\ left = 0 /\ after = "return"
  /\ decoded = <<>>
  /\ stream = <<>>

Next ==
  \/ StartBlock \/ Finish
  \/ Begin \/ Scan \/ Copy \/ EmitCopy \/ EmitLiteral
  \/ WriteOutputBuffer \/ CopyOutputBuffer \/ Emitted \/ Return

(* The program runs until it returns.                                      *)
Spec == Init /\ [][Next]_vars /\ WF_vars(Next)

-----------------------------------------------------------------------------
(* Properties.                                                             *)

(* Types: the table holds uint16_t, the reader points into its first page, *)
(* and the output is at most one window and a length field past the start  *)
(* of the window, so that write_output_buffer writes inside it.            *)
SnappyTypeOK ==
  /\ call \in Calls
  /\ pc \in {"blocks", "begin", "scan", "emit", "copy", "done"}
  /\ input \in [curr : Nat, ptr : 0 .. OUT_BUFFER_LENGTH - 1, mram_addr : Nat]
  /\ output.append_window \in Nat /\ output.append_window % OUT_BUFFER_LENGTH = 0
  /\ output.curr - output.append_window \in 0 .. OUT_BUFFER_LENGTH + 4 \/ pc = "blocks"
  /\ length_remain \in 0 .. Len(call.data)
  /\ block \in [base : Nat, end : Nat, start : Nat]
  /\ table \in [0 .. NumTableEntries - 1 -> 0 .. UINT16 - 1]
  /\ {curr_input, next_input, skip_bytes, candidate, next_emit, offset, matched, literal, left} \subseteq Nat
  /\ after \in {"copy", "begin", "return"}

(* The sequential reader is where the literal that comes next begins: what *)
(* emit_literal copies is [next_emit, curr_input), or the rest of the      *)
(* block, although only lengths are passed and matches are skipped by      *)
(* moving the reader.  What is copied lies in the two pages of the cache.  *)
ReaderInStep ==
  /\ input.mram_addr % OUT_BUFFER_LENGTH = 0
  /\ input.mram_addr + input.ptr = call.buffer + input.curr
  /\ pc \in {"begin", "scan"} => input.curr = next_emit
  /\ pc = "copy" => input.curr = curr_input
  /\ pc = "emit" =>
       input.curr + literal + left = IF after = "return" THEN block.end ELSE curr_input

(* A match is in the block and before what it matches, whatever the hash   *)
(* function and however stale the entry of the table: the code compares    *)
(* words and never asks where the candidate lies.                          *)
MatchBehind ==
  pc = "copy" \/ (pc = "emit" /\ after = "copy") =>
    /\ candidate \in block.base .. curr_input - 1
    /\ curr_input + 4 <= block.end

(* "Any hash function will produce a valid compressed bitstream": for      *)
(* blocks whose offsets fit in 16 bits the tags and literals, decompressed,*)
(* give back the input up to the reader (less what is left of a match).    *)
RoundTrip ==
  call.block_size <= UINT16 =>
    decoded = SubSeq(call.data, block.base + 1, input.curr - matched)

(* No byte of the output is lost between the window and the buffer in      *)
(* MRAM: what lies before the window is in MRAM, the rest in the window,   *)
(* and in the end all is in MRAM.  The length of a block is written to MRAM*)
(* alone: it stays only where the window had moved on, and elsewhere the   *)
(* four bytes stay reserved.                                               *)
OutputStored ==
  /\ Len(stream) = output.curr
  /\ \A k \in 0 .. output.curr - 1 :
       stream[k + 1] # <<"reserved">> =>
         IF k < output.append_window \/ pc = "done"
         THEN k \in DOMAIN output.buffer /\ stream[k + 1] = output.buffer[k]
         ELSE stream[k + 1] = output.window[k - output.append_window]

NoShortBlock ==
  \A k \in 0 .. Len(call.data) \div call.block_size :
    k * call.block_size < Len(call.data) =>
      Len(call.data) - k * call.block_size >= input_margin_bytes

(* dpu_compress returns, unless a block is shorter than input_margin_bytes:*)
(* such a block is not consumed and the loop over the blocks never ends.   *)
Completes == NoShortBlock => <>(pc = "done")
=============================================================================
