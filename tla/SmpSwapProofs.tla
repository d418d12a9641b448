--------------------------- MODULE SmpSwapProofs ----------------------------
(***************************************************************************)
(* Theorems about SmpSwap with one CPU, for every geometry of the tables,  *)
(* every set of offsets and contents and every compressor: the handlers,   *)
(* one SDK call at a time, implement FrontSwap and leave nothing behind.   *)
(***************************************************************************)
EXTENDS SmpSwap, FrontSwapProofs

(* The handlers run one at a time.                                         *)
OneCpu == \E c : Cpus = {c}

-----------------------------------------------------------------------------
(* The mapping replaces variables of the handlers and none of the tables,  *)
(* so an operator on the tables means in Atomic what it means here.        *)

(* The numbers of blocks, sections and slots, and the lookup.              *)
LEMMA SameArithmetic ==
  /\ Atomic!Blocks = Blocks /\ Atomic!Sections = Sections /\ Atomic!Offsets = Offsets
  /\ \A b : Atomic!L2_SECTION_FROM_BLOCK(b) = L2_SECTION_FROM_BLOCK(b)
  /\ \A b : Atomic!OFFSET_FROM_BLOCK(b) = OFFSET_FROM_BLOCK(b)
  /\ \A s : Atomic!L1_ENTRY_FROM_SECTION(s) = L1_ENTRY_FROM_SECTION(s)
  /\ \A n : Atomic!NumBlocks(n) = NumBlocks(n)
  /\ \A id : Atomic!EntryIndex(id) = EntryIndex(id) /\ Atomic!TAG_FROM_ID(id) = TAG_FROM_ID(id)
  /\ \A id : Atomic!LookupHit(id) <=> LookupHit(id)
  BY DEF Blocks, Atomic!Blocks, Sections, Atomic!Sections, Offsets, Atomic!Offsets,
     L2_SECTION_FROM_BLOCK, Atomic!L2_SECTION_FROM_BLOCK,
     OFFSET_FROM_BLOCK, Atomic!OFFSET_FROM_BLOCK,
     L1_ENTRY_FROM_SECTION, Atomic!L1_ENTRY_FROM_SECTION,
     NumBlocks, Atomic!NumBlocks, EntryIndex, Atomic!EntryIndex,
     TAG_FROM_ID, Atomic!TAG_FROM_ID, LookupHit, Atomic!LookupHit,
     NUM_STORAGE_BLOCKS, Atomic!NUM_STORAGE_BLOCKS,
     NUM_L2_SECTIONS, Atomic!NUM_L2_SECTIONS,
     BLOCKS_PER_SECTION, Atomic!BLOCKS_PER_SECTION

(* The search for a run of free blocks, and its marking.                   *)
LEMMA SameRuns ==
  /\ \A bits, n, a, b : Atomic!FindFreeBlocksL2(bits, n, a, b) <=> FindFreeBlocksL2(bits, n, a, b)
  /\ \A bits, n : Atomic!HasRun(bits, n) <=> HasRun(bits, n)
  /\ \A bits, marked : Atomic!UpdateL1(bits, marked) <=> UpdateL1(bits, marked)
  /\ \A n, b : Atomic!MarkedBlocks(n, b) = MarkedBlocks(n, b)
<1>1. \A bits, o : Atomic!EntryFull(bits, o) <=> EntryFull(bits, o)
  BY SameArithmetic DEF EntryFull, Atomic!EntryFull
<1>2. \A bits, n, a, b : Atomic!IsRun(bits, n, a, b) <=> IsRun(bits, n, a, b)
  <2>1. \A bits, a, b : Atomic!Visited(bits, a, b) = Visited(bits, a, b)
    BY <1>1 DEF Visited, Atomic!Visited
  <2>2. \A S : Atomic!Cardinality(S) = Cardinality(S)
    BY DEF Cardinality, Atomic!Cardinality
  <2> QED BY <2>1, <2>2 DEF IsRun, Atomic!IsRun
<1> QED
  BY <1>1, <1>2, SameArithmetic
  DEF FindFreeBlocksL2, Atomic!FindFreeBlocksL2, HasRun, Atomic!HasRun,
      UpdateL1, Atomic!UpdateL1, MarkedBlocks, Atomic!MarkedBlocks

(* The insertion into the index.                                           *)
LEMMA SameInsert ==
  \A id, block, length :
    Atomic!InsertIndexHash(id, block, length) <=> InsertIndexHash(id, block, length)
  BY SameArithmetic DEF InsertIndexHash, Atomic!InsertIndexHash, InsertRefused,
     Atomic!InsertRefused

(* pimswap_alloc_page_static.                                              *)
LEMMA SameAllocation ==
  \A id, length, block :
    AllocPageStatic(id, length, block) => Atomic!AllocPageStatic(id, length, block)
<1>1. \A id, length, block, met :
        RecordPage(id, length, block, met) => Atomic!RecordPage(id, length, block, met)
  BY SameArithmetic, SameInsert DEF RecordPage, Atomic!RecordPage
<1>2. \A id, length, block : AllocFound(id, length, block) => Atomic!AllocFound(id, length, block)
  <2> SUFFICES ASSUME NEW id, NEW length, NEW block, AllocFound(id, length, block)
               PROVE  Atomic!AllocFound(id, length, block)
    OBVIOUS
  <2> DEFINE n == NumBlocks(length)
             s == L2_SECTION_FROM_BLOCK(block)
             a == OFFSET_FROM_BLOCK(block)
  <2>1. PICK b \in Offsets :
           /\ FindFreeBlocksL2(l2[s], n, a, b)
           /\ l2' = [l2 EXCEPT ![s] = @ \cup MarkedBlocks(n, b)]
           /\ l1' = IF UpdateL1(l2[s], MarkedBlocks(n, b)) THEN l1 \cup {s} ELSE l1
           /\ RecordPage(id, length, block, IF b - a + 1 # n THEN {"carry"} ELSE {})
    BY DEF AllocFound
  <2>2. /\ s \notin l1
        /\ a \notin l2[s]
        /\ \A t \in Sections \ l1 : t < s => ~HasRun(l2[t], n)
    BY DEF AllocFound
  <2> HIDE DEF n, s, a
  <2>3. /\ Atomic!FindFreeBlocksL2(l2[s], n, a, b)
        /\ l2' = [l2 EXCEPT ![s] = @ \cup Atomic!MarkedBlocks(n, b)]
        /\ l1' = IF Atomic!UpdateL1(l2[s], Atomic!MarkedBlocks(n, b))
                 THEN l1 \cup {s} ELSE l1
    BY <2>1, SameRuns
  <2>4. Atomic!RecordPage(id, length, block, IF b - a + 1 # n THEN {"carry"} ELSE {})
    BY <1>1, <2>1
  <2>5. \A t \in Atomic!Sections \ l1 : t < s => ~Atomic!HasRun(l2[t], n)
    BY <2>2, SameArithmetic, SameRuns
  <2>6. /\ n = Atomic!NumBlocks(length) /\ s = Atomic!L2_SECTION_FROM_BLOCK(block)
        /\ a = Atomic!OFFSET_FROM_BLOCK(block) /\ b \in Atomic!Offsets
    BY SameArithmetic DEF n, s, a
  <2> QED BY <2>2, <2>3, <2>4, <2>5, <2>6 DEF Atomic!AllocFound
<1>3. \A id, length, block : AllocUninit(id, length, block) => Atomic!AllocUninit(id, length, block)
  BY <1>1, SameArithmetic DEF AllocUninit, Atomic!AllocUninit
<1>4. \A length, block : AllocFull(length, block) => Atomic!AllocFull(length, block)
  BY SameArithmetic, SameRuns DEF AllocFull, Atomic!AllocFull, tableVars, Atomic!tableVars
<1> QED
  BY <1>2, <1>3, <1>4, SameArithmetic DEF AllocPageStatic, Atomic!AllocPageStatic

(* dpu_invalidate_main.                                                    *)
LEMMA SameInvalidation ==
  \A id : InvalidateId(id) => Atomic!InvalidateId(id)
<1>1. \A id : FreePageStatic(id) => Atomic!FreePageStatic(id)
  BY SameArithmetic DEF FreePageStatic, Atomic!FreePageStatic, FreeBlocksL2, Atomic!FreeBlocksL2
<1> QED
  BY <1>1, SameArithmetic, SameInsert
  DEF InvalidateId, Atomic!InvalidateId, tableVars, Atomic!tableVars

(* The arithmetic of offsets, the pages in storage, what a load reads.     *)
LEMMA SameHost ==
  /\ \A o : Atomic!ID_FROM_OFFSET(o) = ID_FROM_OFFSET(o)
  /\ \A o : Atomic!Accepted(o) <=> Accepted(o)
  /\ \A data : Atomic!StoredLength(data) = StoredLength(data)
  /\ \A block, data : Atomic!WritePage(block, data) = WritePage(block, data)
  /\ \A id : Atomic!LzoDecompressMain(id) = LzoDecompressMain(id)
  /\ Atomic!NoLoad = NoLoad
<1>1. /\ \A o : Atomic!ID_FROM_OFFSET(o) = ID_FROM_OFFSET(o)
      /\ \A o : Atomic!Accepted(o) <=> Accepted(o)
      /\ \A data : Atomic!StoredLength(data) = StoredLength(data)
      /\ Atomic!NoLoad = NoLoad
  BY DEF ID_FROM_OFFSET, Atomic!ID_FROM_OFFSET, Accepted, Atomic!Accepted,
     RANK_INDEX_FROM_OFFSET, Atomic!RANK_INDEX_FROM_OFFSET,
     DPU_INDEX_FROM_OFFSET, Atomic!DPU_INDEX_FROM_OFFSET,
     StoredLength, Atomic!StoredLength, NoLoad, Atomic!NoLoad
<1>2. \A block, data : Atomic!WritePage(block, data) = WritePage(block, data)
  BY <1>1, SameArithmetic DEF WritePage, Atomic!WritePage
<1>3. \A block, length, data : Atomic!Intact(block, length, data) <=> Intact(block, length, data)
  BY <1>1, SameArithmetic DEF Intact, Atomic!Intact
<1>4. \A block, length : Atomic!ReadPage(block, length) = ReadPage(block, length)
  BY <1>3 DEF ReadPage, Atomic!ReadPage
<1>5. \A id : Atomic!LzoDecompressMain(id) = LzoDecompressMain(id)
  BY <1>4, SameArithmetic DEF LzoDecompressMain, Atomic!LzoDecompressMain
<1> QED BY <1>1, <1>2, <1>5

-----------------------------------------------------------------------------
(* Where a handler is, and what it has changed so far.                     *)

IsLocals(me) ==
  me = [pc |-> me.pc, op |-> me.op, offset |-> me.offset, data |-> me.data,
        invalidate_id |-> me.invalidate_id, buffer |-> me.buffer, from |-> me.from,
        ok |-> me.ok, prog |-> me.prog, id |-> me.id, found |-> me.found,
        pointer |-> me.pointer, wram |-> me.wram]

IsPage(page) == page = [data |-> page.data, id |-> page.id]

(* The buffers, whatever runs.                                             *)
BuffersInv ==
  /\ IsPage(out_buffer) /\ IsPage(in_buffer) /\ IsPage(trans_page)
  /\ IsPage(before.in_buffer) /\ IsPage(before.trans_page)
  /\ {fetched, before.fetched} \subseteq BOOLEAN
  /\ out_buffer_bmp => \E o \in PgOffs : out_buffer.id = ID_FROM_OFFSET(o) + PAGE_VALID
  /\ ~wild

(* What no handler that is not a load touches.                             *)
InKept == in_buffer = before.in_buffer /\ fetched = before.fetched

StoreInv(me) ==
  /\ me.offset \in PgOffs \ held /\ Accepted(me.offset) /\ me.data \in Data
  /\ InKept
  /\ \/ /\ me.pc = "start" /\ me.prog = "none" /\ push_data = NoBuffer
        /\ trans_page = before.trans_page
     \/ /\ me.pc \in {"push", "send"} /\ me.prog = "none" /\ push_data.buf = "out"
        /\ trans_page = before.trans_page /\ out_buffer_bmp
        /\ me.pc = "send" => me.buffer = push_data
     \/ /\ me.pc = "sent" /\ me.prog = "none"
        /\ trans_page = out_buffer /\ out_buffer_bmp
     \/ /\ me.pc \in {"load", "launch"} /\ me.prog = "none" /\ push_data = NoBuffer
        /\ trans_page = out_buffer /\ out_buffer_bmp
     \/ /\ me.pc \in {"main", "acquire", "release", "rest"} /\ me.prog = "compress"
        /\ push_data = NoBuffer
        /\ trans_page = out_buffer /\ out_buffer_bmp
        /\ me.pc # "main" => me.id = out_buffer.id
     \/ /\ me.pc \in {"done", "pull", "back", "fill"} /\ me.prog = "compress"
        /\ push_data = NoBuffer
        /\ me.pc # "done" => ~out_buffer_bmp
     \/ /\ me.pc = "fill" /\ me.prog = "none" /\ push_data = NoBuffer
        /\ trans_page = before.trans_page /\ ~out_buffer_bmp
  /\ me.pc = "launch" => main = "compress"

(* The program of a load has found a page, or has failed.                  *)
Found(me) ==
  \E page \in LzoDecompressMain(ID_FROM_OFFSET(me.offset)) :
    /\ trans_page = [data |-> IF page = Failed THEN before.trans_page.data ELSE page,
                     id   |-> ID_FROM_OFFSET(me.offset)]
    /\ me.ok = (page # Failed)

(* A load that finds no buffer for its id.                                 *)
MissInv(me) ==
  LET id == ID_FROM_OFFSET(me.offset)
  IN  /\ ~OutBufferHit(id) /\ before.in_buffer.id # id /\ me.from = "in"
      /\ \/ /\ me.pc \in {"push", "send"} /\ me.prog = "none" /\ push_data.buf = "in_id"
            /\ in_buffer.id = id /\ trans_page = before.trans_page /\ me.ok = FALSE
            /\ me.pc = "send" => me.buffer = push_data
         \/ /\ me.pc = "sent" /\ me.prog = "none"
            /\ trans_page = [before.trans_page EXCEPT !.id = id] /\ me.ok = FALSE
         \/ /\ me.pc \in {"load", "launch"} /\ me.prog = "none" /\ push_data = NoBuffer
            /\ trans_page = [before.trans_page EXCEPT !.id = id] /\ me.ok = FALSE
            /\ me.pc = "launch" => main = "decompress"
         \/ /\ me.pc \in {"main", "acquire", "release", "rest"} /\ me.prog = "decompress"
            /\ push_data = NoBuffer
            /\ trans_page = [before.trans_page EXCEPT !.id = id] /\ me.ok = FALSE
            /\ me.pc # "main" => LookupHit(id) /\ me.found = hash_table[EntryIndex(id)]
         \/ /\ me.pc = "done" /\ me.prog = "decompress" /\ push_data = NoBuffer /\ Found(me)
         \/ /\ me.pc \in {"pull", "take"} /\ me.prog = "decompress" /\ Found(me)
            /\ push_data.buf = "in"
            /\ me.pc = "take" => me.buffer = push_data
         \/ /\ me.pc \in {"taken", "back", "copy"} /\ me.prog = "decompress" /\ Found(me)
            /\ in_buffer = trans_page /\ fetched = me.ok
            /\ me.pc # "taken" => push_data = NoBuffer

LoadInv(me) ==
  LET id == ID_FROM_OFFSET(me.offset)
  IN  /\ me.offset \in PgOffs \cap held
      /\ \/ /\ me.pc = "start" /\ me.prog = "none" /\ push_data = NoBuffer
            /\ InKept /\ trans_page = before.trans_page /\ me.ok = FALSE /\ me.from = "in"
         \/ /\ me.pc = "copy" /\ me.prog = "none" /\ push_data = NoBuffer
            /\ InKept /\ trans_page = before.trans_page
            /\ OutBufferHit(id) \/ InBufferHit(id)
            /\ me.from = IF OutBufferHit(id) THEN "out" ELSE "in"
         \/ MissInv(me)

InvalidateInv(c, me) ==
  LET id == ID_FROM_OFFSET(me.offset)
  IN  /\ me.offset \in PgOffs \cap held
      /\ InKept
      /\ \/ /\ me.pc = "start" /\ me.prog = "none" /\ push_data = NoBuffer
            /\ trans_page = before.trans_page
         \/ /\ me.pc \in {"push", "send"} /\ me.prog = "none" /\ ~InOutBuffer(me.offset)
            /\ push_data = [buf |-> "stack", cpu |-> c, offset |-> me.offset]
            /\ me.invalidate_id = id + PAGE_VALID
            /\ trans_page = before.trans_page
            /\ me.pc = "send" => me.buffer = push_data
         \/ /\ me.pc = "sent" /\ me.prog = "none" /\ ~InOutBuffer(me.offset)
            /\ trans_page = [before.trans_page EXCEPT !.id = id + PAGE_VALID]
         \/ /\ me.pc \in {"load", "launch"} /\ me.prog = "none" /\ ~InOutBuffer(me.offset)
            /\ push_data = NoBuffer
            /\ trans_page = [before.trans_page EXCEPT !.id = id + PAGE_VALID]
            /\ me.pc = "launch" => main = "invalidate"
         \/ /\ me.pc = "main" /\ me.prog = "invalidate" /\ ~InOutBuffer(me.offset)
            /\ push_data = NoBuffer
            /\ trans_page = [before.trans_page EXCEPT !.id = id + PAGE_VALID]
         \/ /\ me.pc = "done" /\ me.prog = "invalidate" /\ push_data = NoBuffer

IdleInv(me) ==
  me = Idle /\ push_data = NoBuffer /\ InKept /\ trans_page = before.trans_page

SmpInv(c) ==
  /\ cpu = [k \in Cpus |-> cpu[k]]
  /\ IsLocals(cpu[c])
  /\ BuffersInv
  /\ \/ cpu[c].op = "none" /\ IdleInv(cpu[c])
     \/ cpu[c].op = "store" /\ StoreInv(cpu[c])
     \/ cpu[c].op = "load" /\ LoadInv(cpu[c])
     \/ cpu[c].op = "invalidate" /\ InvalidateInv(c, cpu[c])

(* The CPU that runs, its next locals and the history.                     *)
LEMMA Running1 ==
  ASSUME NEW c, Cpus = {c}
  PROVE  /\ Me = cpu[c] /\ Me' = cpu'[c]
         /\ Remember => /\ cpu'[c].pc = "idle" => before' = Now'
                        /\ cpu'[c].pc # "idle" => before' = before
<1>1. (CHOOSE k \in Cpus : TRUE) = c
  OBVIOUS
<1> QED BY <1>1 DEF Me, Remember

(* The program that runs tells which handler does.                         *)
LEMMA WhoRuns ==
  ASSUME NEW c, SmpInv(c)
  PROVE  /\ cpu[c].pc # "idle" => cpu[c].op # "none"
         /\ cpu[c].pc = "idle" => cpu[c].op = "none"
         /\ cpu[c].prog = "compress" => cpu[c].op = "store"
         /\ cpu[c].prog = "decompress" => cpu[c].op = "load"
         /\ cpu[c].prog = "invalidate" => cpu[c].op = "invalidate"
<1>1. CASE cpu[c].op = "none"
  <2>1. cpu[c] = Idle
    BY <1>1 DEF SmpInv, IdleInv
  <2>2. Idle.pc = "idle" /\ Idle.prog = "none"
    BY DEF Idle
  <2> QED BY <1>1, <2>1, <2>2
<1>2. CASE cpu[c].op = "store"
  <2>1. StoreInv(cpu[c])
    BY <1>2 DEF SmpInv
  <2>2. cpu[c].pc # "idle" /\ cpu[c].prog \in {"none", "compress"}
    BY <2>1 DEF StoreInv
  <2> QED BY <1>2, <2>2
<1>3. CASE cpu[c].op = "load"
  <2>1. LoadInv(cpu[c])
    BY <1>3 DEF SmpInv
  <2>2. cpu[c].pc # "idle" /\ cpu[c].prog \in {"none", "decompress"}
    BY <2>1 DEF LoadInv, MissInv
  <2> QED BY <1>3, <2>2
<1>4. CASE cpu[c].op = "invalidate"
  <2>1. InvalidateInv(c, cpu[c])
    BY <1>4 DEF SmpInv
  <2>2. cpu[c].pc # "idle" /\ cpu[c].prog \in {"none", "invalidate"}
    BY <2>1 DEF InvalidateInv
  <2> QED BY <1>4, <2>2
<1> QED BY <1>1, <1>2, <1>3, <1>4 DEF SmpInv

(* A step that changes nothing that FrontSwap sees.                        *)
LEMMA Unseen ==
  ASSUME ~Flushed, ~Removed, ~Flushed', ~Removed', before' = before,
         UNCHANGED <<tableVars, out_buffer, out_buffer_bmp, storage, held, written,
                     dropped, loaded>>
  PROVE  UNCHANGED Atomic!vars
  BY DEF Atomic!vars, Atomic!tableVars, Atomic!swapVars, tableVars, After

(* Neither does one of a store between its compressor and its return.      *)
LEMMA StillFlushed ==
  ASSUME Flushed, Flushed', Me.offset' = Me.offset, Me.data' = Me.data, before' = before,
         UNCHANGED <<tableVars, trans_page, storage, held, written, dropped>>
  PROVE  UNCHANGED Atomic!vars
  BY DEF Atomic!vars, Atomic!tableVars, Atomic!swapVars, tableVars, After, ID_FROM_OFFSET

(* A handler that goes on keeps its locals.                                *)
LEMMA GoesTo ==
  ASSUME NEW c, Cpus = {c}, SmpInv(c), NEW pc, pc # "idle", Remember,
         cpu' = [cpu EXCEPT ![c].pc = pc]
  PROVE  /\ cpu' = [k \in Cpus |-> cpu'[k]] /\ IsLocals(cpu'[c])
         /\ cpu'[c].pc = pc
         /\ cpu'[c].op = cpu[c].op /\ cpu'[c].prog = cpu[c].prog
         /\ cpu'[c].offset = cpu[c].offset /\ cpu'[c].data = cpu[c].data
         /\ cpu'[c].invalidate_id = cpu[c].invalidate_id /\ cpu'[c].from = cpu[c].from
         /\ cpu'[c].ok = cpu[c].ok /\ cpu'[c].id = cpu[c].id /\ cpu'[c].found = cpu[c].found
         /\ cpu'[c].buffer = cpu[c].buffer
         /\ before' = before
<1>1. cpu'[c] = [cpu[c] EXCEPT !.pc = pc] /\ cpu' = [k \in Cpus |-> cpu'[k]]
  BY DEF SmpInv
<1>2. IsLocals(cpu'[c]) /\ cpu'[c].pc = pc
  BY <1>1 DEF SmpInv, IsLocals
<1>3. before' = before
  BY <1>2, Running1
<1> QED BY <1>1, <1>2, <1>3 DEF SmpInv, IsLocals

(* Steps that only the CPU and the SDK see.                                *)
LEMMA BuffersKept ==
  ASSUME BuffersInv, UNCHANGED vars, wild' = wild, before' = before
  PROVE  BuffersInv'
  BY DEF BuffersInv, IsPage, vars, swapVars

(* A step of a transfer sets what the CPU has tested, and goes on.         *)
Transfer(c, buffer, pc) == cpu' = [cpu EXCEPT ![c].buffer = buffer, ![c].pc = pc]

LEMMA Transfers ==
  ASSUME NEW c, Cpus = {c}, SmpInv(c), NEW buffer, NEW pc, pc # "idle", Remember,
         Transfer(c, buffer, pc)
  PROVE  /\ cpu' = [k \in Cpus |-> cpu'[k]] /\ IsLocals(cpu'[c])
         /\ cpu'[c].pc = pc /\ cpu'[c].buffer = buffer
         /\ cpu'[c].op = cpu[c].op /\ cpu'[c].prog = cpu[c].prog
         /\ cpu'[c].offset = cpu[c].offset /\ cpu'[c].data = cpu[c].data
         /\ cpu'[c].invalidate_id = cpu[c].invalidate_id /\ cpu'[c].from = cpu[c].from
         /\ cpu'[c].ok = cpu[c].ok
         /\ before' = before
<1>1. /\ cpu'[c] = [cpu[c] EXCEPT !.buffer = buffer, !.pc = pc]
      /\ cpu' = [k \in Cpus |-> cpu'[k]]
  BY DEF SmpInv, Transfer
<1>2. IsLocals(cpu'[c]) /\ cpu'[c].pc = pc
  BY <1>1 DEF SmpInv, IsLocals
<1>3. before' = before
  BY <1>2, Running1
<1> QED BY <1>1, <1>2, <1>3 DEF SmpInv, IsLocals

(* The handler at a transfer to the DPU has prepared it.                   *)
LEMMA PushStep ==
  ASSUME NEW c, Cpus = {c}, SmpInv(c), Push(c), Remember
  PROVE  SmpInv(c)' /\ UNCHANGED Atomic!vars
<1> DEFINE me == cpu[c]
           id == ID_FROM_OFFSET(me.offset)
<1>1. /\ me.pc = "push" /\ TestBuffer(c, "send", "load")
      /\ UNCHANGED <<vars, push_data, wild>>
  BY DEF Push
<1>2. push_data # NoBuffer
  <2>1. me.op # "none"
    BY <1>1, WhoRuns
  <2>2. me.op = "store" => push_data.buf = "out"
    BY <1>1 DEF SmpInv, StoreInv
  <2>3. me.op = "load" => push_data.buf = "in_id"
    BY <1>1 DEF SmpInv, LoadInv, MissInv
  <2>4. me.op = "invalidate" => push_data.buf = "stack"
    BY <1>1 DEF SmpInv, InvalidateInv
  <2>5. push_data.buf # "null"
    BY <2>1, <2>2, <2>3, <2>4 DEF SmpInv
  <2> QED BY <2>5 DEF NoBuffer
<1>3. Transfer(c, push_data, "send")
  BY <1>1, <1>2 DEF TestBuffer, Transfer
<1>4. /\ cpu' = [k \in Cpus |-> cpu'[k]] /\ IsLocals(cpu'[c])
      /\ cpu'[c].pc = "send" /\ cpu'[c].buffer = push_data
      /\ cpu'[c].op = me.op /\ cpu'[c].prog = me.prog
      /\ cpu'[c].offset = me.offset /\ cpu'[c].data = me.data
      /\ cpu'[c].invalidate_id = me.invalidate_id
      /\ cpu'[c].from = me.from /\ cpu'[c].ok = me.ok
      /\ before' = before
  BY <1>3, Transfers
<1>5. BuffersInv'
  BY <1>1, <1>4, BuffersKept DEF SmpInv
<1>6. UNCHANGED Atomic!vars
  BY <1>1, <1>4, Running1, Unseen DEF Flushed, Removed, vars, swapVars
<1> USE DEF vars, swapVars
<1>7. CASE me.op = "store"
  <2>1. StoreInv(me)
    BY <1>7 DEF SmpInv
  <2>2. StoreInv(cpu[c])'
    BY <1>1, <1>4, <2>1 DEF StoreInv, InKept
  <2> QED BY <1>4, <1>5, <1>6, <1>7, <2>2 DEF SmpInv
<1>8. CASE me.op = "load"
  <2>1. LoadInv(me) /\ MissInv(me)
    BY <1>1, <1>8 DEF SmpInv, LoadInv
  <2>2. MissInv(cpu[c])'
    BY <1>1, <1>4, <2>1 DEF MissInv, OutBufferHit
  <2>3. LoadInv(cpu[c])'
    BY <1>1, <1>4, <2>1, <2>2 DEF LoadInv
  <2> QED BY <1>4, <1>5, <1>6, <1>8, <2>3 DEF SmpInv
<1>9. CASE me.op = "invalidate"
  <2>1. InvalidateInv(c, me)
    BY <1>9 DEF SmpInv
  <2>2. InvalidateInv(c, cpu[c])'
    BY <1>1, <1>4, <2>1 DEF InvalidateInv, InKept, InOutBuffer
  <2> QED BY <1>4, <1>5, <1>6, <1>9, <2>2 DEF SmpInv
<1>10. me.op # "none"
  BY <1>1, WhoRuns
<1> QED BY <1>7, <1>8, <1>9, <1>10 DEF SmpInv

(* What the copy leaves in the transfer page.                              *)
LEMMA SendStep ==
  ASSUME NEW c, Cpus = {c}, SmpInv(c), Send(c), Remember
  PROVE  SmpInv(c)' /\ UNCHANGED Atomic!vars
<1> DEFINE me == cpu[c]
           id == ID_FROM_OFFSET(me.offset)
<1>1. /\ me.pc = "send" /\ cpu' = [cpu EXCEPT ![c].pc = "sent"]
      /\ \E b \in {me.buffer, push_data} : Pushed(b, me.op = "store")
      /\ UNCHANGED <<tableVars, out_buffer, out_buffer_bmp, in_buffer, storage, held,
                     written, fetched, dropped, loaded, push_data, main, wram_heap>>
  BY DEF Send, Goto, CopyBuffer
<1>2. /\ cpu' = [k \in Cpus |-> cpu'[k]] /\ IsLocals(cpu'[c])
      /\ cpu'[c].pc = "sent"
      /\ cpu'[c].op = me.op /\ cpu'[c].prog = me.prog
      /\ cpu'[c].offset = me.offset /\ cpu'[c].data = me.data
      /\ cpu'[c].from = me.from /\ cpu'[c].ok = me.ok
      /\ before' = before
  BY <1>1, GoesTo
<1>3. me.buffer = push_data
  BY <1>1, WhoRuns DEF SmpInv, StoreInv, LoadInv, MissInv, InvalidateInv
<1>4. Pushed(push_data, me.op = "store")
  BY <1>1, <1>3
<1>5. UNCHANGED Atomic!vars
  BY <1>1, <1>2, Running1, Unseen DEF Flushed, Removed
<1>6. CASE me.op = "store"
  <2>1. StoreInv(me) /\ push_data.buf = "out" /\ out_buffer_bmp /\ me.prog = "none"
    BY <1>1, <1>6 DEF SmpInv, StoreInv
  <2>2. trans_page' = out_buffer /\ ~wild'
    BY <1>4, <1>6, <2>1 DEF Pushed
  <2>3. StoreInv(cpu[c])'
    BY <1>1, <1>2, <2>1, <2>2 DEF StoreInv, InKept
  <2>4. BuffersInv'
    BY <1>1, <1>2, <2>2 DEF SmpInv, BuffersInv, IsPage
  <2> QED BY <1>2, <1>5, <1>6, <2>3, <2>4 DEF SmpInv
<1>7. CASE me.op = "load"
  <2>1. LoadInv(me) /\ MissInv(me) /\ push_data.buf = "in_id" /\ in_buffer.id = id
        /\ trans_page = before.trans_page /\ me.prog = "none"
    BY <1>1, <1>7 DEF SmpInv, LoadInv, MissInv
  <2>2. trans_page' = [trans_page EXCEPT !.id = id] /\ ~wild'
    <3>1. trans_page' = [trans_page EXCEPT !.id = in_buffer.id] /\ ~wild'
      BY <1>4, <1>7, <2>1 DEF Pushed, OnStack
    <3> QED BY <2>1, <3>1
  <2>3. MissInv(cpu[c])'
    BY <1>1, <1>2, <2>1, <2>2 DEF MissInv, OutBufferHit
  <2>4. LoadInv(cpu[c])'
    BY <1>1, <1>2, <2>1, <2>3 DEF LoadInv
  <2>5. BuffersInv'
    BY <1>1, <1>2, <2>2 DEF SmpInv, BuffersInv, IsPage
  <2> QED BY <1>2, <1>5, <1>7, <2>4, <2>5 DEF SmpInv
<1>8. CASE me.op = "invalidate"
  <2>1. InvalidateInv(c, me) /\ ~InOutBuffer(me.offset) /\ me.prog = "none"
        /\ push_data = [buf |-> "stack", cpu |-> c, offset |-> me.offset]
        /\ me.invalidate_id = id + PAGE_VALID /\ trans_page = before.trans_page
    BY <1>1, <1>8 DEF SmpInv, InvalidateInv
  <2>2. OnStack(push_data)
    BY <1>1, <1>8, <2>1 DEF OnStack
  <2>3. trans_page' = [trans_page EXCEPT !.id = id + PAGE_VALID] /\ ~wild'
    BY <1>4, <1>8, <2>1, <2>2 DEF Pushed
  <2>4. InvalidateInv(c, cpu[c])'
    BY <1>1, <1>2, <2>1, <2>3 DEF InvalidateInv, InKept, InOutBuffer
  <2>5. BuffersInv'
    BY <1>1, <1>2, <2>3 DEF SmpInv, BuffersInv, IsPage
  <2> QED BY <1>2, <1>5, <1>8, <2>4, <2>5 DEF SmpInv
<1>9. me.op # "none"
  BY <1>1, WhoRuns
<1> QED BY <1>5, <1>6, <1>7, <1>8, <1>9 DEF SmpInv

(* The prepared buffer is forgotten.                                       *)
LEMMA SentStep ==
  ASSUME NEW c, Cpus = {c}, SmpInv(c), Sent(c), Remember
  PROVE  SmpInv(c)' /\ UNCHANGED Atomic!vars
<1> DEFINE me == cpu[c]
<1>1. /\ me.pc = "sent" /\ push_data' = NoBuffer
      /\ Transfer(c, NoBuffer, "load")
      /\ UNCHANGED <<vars, main, wild>>
  BY DEF Sent, ClearBuffer, Transfer
<1>2. /\ cpu' = [k \in Cpus |-> cpu'[k]] /\ IsLocals(cpu'[c])
      /\ cpu'[c].pc = "load"
      /\ cpu'[c].op = me.op /\ cpu'[c].prog = me.prog
      /\ cpu'[c].offset = me.offset /\ cpu'[c].data = me.data
      /\ cpu'[c].from = me.from /\ cpu'[c].ok = me.ok
      /\ before' = before
  BY <1>1, Transfers
<1>3. BuffersInv'
  BY <1>1, <1>2, BuffersKept DEF SmpInv
<1>4. UNCHANGED Atomic!vars
  BY <1>1, <1>2, Running1, Unseen DEF Flushed, Removed, vars, swapVars
<1> USE DEF vars, swapVars
<1>5. CASE me.op = "store"
  <2>1. StoreInv(me)
    BY <1>5 DEF SmpInv
  <2>2. StoreInv(cpu[c])'
    BY <1>1, <1>2, <2>1 DEF StoreInv, InKept
  <2> QED BY <1>2, <1>3, <1>4, <1>5, <2>2 DEF SmpInv
<1>6. CASE me.op = "load"
  <2>1. LoadInv(me) /\ MissInv(me)
    BY <1>1, <1>6 DEF SmpInv, LoadInv
  <2>2. MissInv(cpu[c])'
    BY <1>1, <1>2, <2>1 DEF MissInv, OutBufferHit
  <2>3. LoadInv(cpu[c])'
    BY <1>1, <1>2, <2>1, <2>2 DEF LoadInv
  <2> QED BY <1>2, <1>3, <1>4, <1>6, <2>3 DEF SmpInv
<1>7. CASE me.op = "invalidate"
  <2>1. InvalidateInv(c, me)
    BY <1>7 DEF SmpInv
  <2>2. InvalidateInv(c, cpu[c])'
    BY <1>1, <1>2, <2>1 DEF InvalidateInv, InKept, InOutBuffer
  <2> QED BY <1>2, <1>3, <1>4, <1>7, <2>2 DEF SmpInv
<1>8. me.op # "none"
  BY <1>1, WhoRuns
<1> QED BY <1>5, <1>6, <1>7, <1>8 DEF SmpInv

(* Loading the program of the handler.                                     *)
LEMMA LoadStep ==
  ASSUME NEW c, Cpus = {c}, SmpInv(c), dpu_load(c), Remember
  PROVE  SmpInv(c)' /\ UNCHANGED Atomic!vars
<1> DEFINE me == cpu[c]
<1>1. /\ me.pc = "load" /\ cpu' = [cpu EXCEPT ![c].pc = "launch"]
      /\ main' = Program(me.op)
      /\ UNCHANGED <<vars, push_data, wild>>
  BY DEF dpu_load, Goto
<1>2. /\ cpu' = [k \in Cpus |-> cpu'[k]] /\ IsLocals(cpu'[c])
      /\ cpu'[c].pc = "launch"
      /\ cpu'[c].op = me.op /\ cpu'[c].prog = me.prog
      /\ cpu'[c].offset = me.offset /\ cpu'[c].data = me.data
      /\ cpu'[c].from = me.from /\ cpu'[c].ok = me.ok
      /\ before' = before
  BY <1>1, GoesTo
<1>3. BuffersInv'
  BY <1>1, <1>2, BuffersKept DEF SmpInv
<1>4. UNCHANGED Atomic!vars
  BY <1>1, <1>2, Running1, Unseen DEF Flushed, Removed, vars, swapVars
<1> USE DEF vars, swapVars
<1>5. CASE me.op = "store"
  <2>1. StoreInv(cpu[c])'
    <3>1. StoreInv(me)
      BY <1>5 DEF SmpInv
    <3> QED BY <1>1, <1>2, <1>5, <3>1 DEF StoreInv, InKept, Program
  <2> QED BY <1>2, <1>3, <1>4, <1>5, <2>1 DEF SmpInv
<1>6. CASE me.op = "load"
  <2>1. LoadInv(cpu[c])'
    <3>1. LoadInv(me) /\ MissInv(me)
      BY <1>1, <1>6 DEF SmpInv, LoadInv
    <3>2. MissInv(cpu[c])'
      BY <1>1, <1>2, <1>6, <3>1 DEF MissInv, OutBufferHit, Program
    <3> QED BY <1>1, <1>2, <3>1, <3>2 DEF LoadInv
  <2> QED BY <1>2, <1>3, <1>4, <1>6, <2>1 DEF SmpInv
<1>7. CASE me.op = "invalidate"
  <2>1. InvalidateInv(c, cpu[c])'
    <3>1. InvalidateInv(c, me)
      BY <1>7 DEF SmpInv
    <3> QED BY <1>1, <1>2, <1>7, <3>1 DEF InvalidateInv, InKept, InOutBuffer, Program
  <2> QED BY <1>2, <1>3, <1>4, <1>7, <2>1 DEF SmpInv
<1>8. me.op # "none"
  BY <1>1, WhoRuns
<1> QED BY <1>5, <1>6, <1>7, <1>8 DEF SmpInv

(* Launching it.                                                           *)
LEMMA LaunchStep ==
  ASSUME NEW c, Cpus = {c}, SmpInv(c), dpu_launch(c), Remember
  PROVE  SmpInv(c)' /\ UNCHANGED Atomic!vars
<1> DEFINE me == cpu[c]
<1>1. /\ me.pc = "launch" /\ cpu' = [cpu EXCEPT ![c].prog = main, ![c].pc = "main"]
      /\ UNCHANGED <<vars, push_data, wild>>
  BY DEF dpu_launch
<1>2. /\ cpu' = [k \in Cpus |-> cpu'[k]]
      /\ cpu'[c] = [me EXCEPT !.prog = main, !.pc = "main"]
  BY <1>1 DEF SmpInv
<1>3. /\ IsLocals(cpu'[c])
      /\ cpu'[c].pc = "main" /\ cpu'[c].prog = main
      /\ cpu'[c].op = me.op
      /\ cpu'[c].offset = me.offset /\ cpu'[c].data = me.data
      /\ cpu'[c].from = me.from /\ cpu'[c].ok = me.ok
  BY <1>2 DEF SmpInv, IsLocals
<1>4. before' = before
  BY <1>3, Running1
<1>5. BuffersInv'
  BY <1>1, <1>4, BuffersKept DEF SmpInv
<1>6. UNCHANGED Atomic!vars
  BY <1>1, <1>3, <1>4, Running1, Unseen DEF Flushed, Removed, vars, swapVars
<1> USE DEF vars, swapVars
<1>7. CASE me.op = "store"
  <2>1. StoreInv(cpu[c])'
    <3>1. StoreInv(me)
      BY <1>7 DEF SmpInv
    <3> QED BY <1>1, <1>3, <1>4, <1>7, <3>1 DEF StoreInv, InKept
  <2> QED BY <1>2, <1>3, <1>5, <1>6, <1>7, <2>1 DEF SmpInv
<1>8. CASE me.op = "load"
  <2>1. LoadInv(cpu[c])'
    <3>1. LoadInv(me) /\ MissInv(me)
      BY <1>1, <1>8 DEF SmpInv, LoadInv
    <3>2. MissInv(cpu[c])'
      BY <1>1, <1>3, <1>4, <1>8, <3>1 DEF MissInv, OutBufferHit
    <3> QED BY <1>1, <1>3, <3>1, <3>2 DEF LoadInv
  <2> QED BY <1>2, <1>3, <1>5, <1>6, <1>8, <2>1 DEF SmpInv
<1>9. CASE me.op = "invalidate"
  <2>1. InvalidateInv(c, cpu[c])'
    <3>1. InvalidateInv(c, me)
      BY <1>9 DEF SmpInv
    <3> QED BY <1>1, <1>3, <1>4, <1>9, <3>1 DEF InvalidateInv, InKept, InOutBuffer
  <2> QED BY <1>2, <1>3, <1>5, <1>6, <1>9, <2>1 DEF SmpInv
<1>10. me.op # "none"
  BY <1>1, WhoRuns
<1> QED BY <1>7, <1>8, <1>9, <1>10 DEF SmpInv

(* The two halves of mem_alloc.                                            *)
LEMMA MemAllocStep ==
  ASSUME NEW c, Cpus = {c}, SmpInv(c), MemAllocAcquire(c) \/ MemAllocRelease(c), Remember
  PROVE  SmpInv(c)' /\ UNCHANGED Atomic!vars
<1> DEFINE me == cpu[c]
<1>1. /\ me.pc \in {"acquire", "release"}
      /\ \/ cpu' = [cpu EXCEPT ![c].pointer = wram_heap, ![c].pc = "release"]
         \/ \E wram, pc : /\ pc \in {"rest", "acquire"}
                          /\ cpu' = [cpu EXCEPT ![c].wram = wram, ![c].pc = pc]
      /\ UNCHANGED <<vars, push_data, wild>>
  <2>1. CASE MemAllocAcquire(c)
    BY <2>1 DEF MemAllocAcquire
  <2>2. CASE MemAllocRelease(c)
    <3> DEFINE wram == Append(me.wram, me.pointer)
               pc == IF Len(me.wram) = 1 THEN "rest" ELSE "acquire"
    <3>1. cpu' = [cpu EXCEPT ![c].wram = wram, ![c].pc = pc] /\ pc \in {"rest", "acquire"}
      BY <2>2 DEF MemAllocRelease
    <3>2. me.pc = "release" /\ UNCHANGED <<vars, push_data, wild>>
      BY <2>2 DEF MemAllocRelease
    <3> HIDE DEF wram, pc
    <3> QED BY <3>1, <3>2
  <2> QED BY <2>1, <2>2
<1>2. /\ cpu' = [k \in Cpus |-> cpu'[k]] /\ IsLocals(cpu'[c])
      /\ cpu'[c].pc \in {"acquire", "release", "rest"}
      /\ cpu'[c].op = me.op /\ cpu'[c].prog = me.prog
      /\ cpu'[c].offset = me.offset /\ cpu'[c].data = me.data
      /\ cpu'[c].from = me.from /\ cpu'[c].ok = me.ok
      /\ cpu'[c].id = me.id /\ cpu'[c].found = me.found
  <2>1. CASE cpu' = [cpu EXCEPT ![c].pointer = wram_heap, ![c].pc = "release"]
    <3>1. /\ cpu' = [k \in Cpus |-> cpu'[k]]
          /\ cpu'[c] = [me EXCEPT !.pointer = wram_heap, !.pc = "release"]
      BY <2>1 DEF SmpInv
    <3> QED BY <3>1 DEF SmpInv, IsLocals
  <2>2. ASSUME NEW wram, NEW pc \in {"rest", "acquire"},
               cpu' = [cpu EXCEPT ![c].wram = wram, ![c].pc = pc]
        PROVE  <1>2!:
    <3>1. /\ cpu' = [k \in Cpus |-> cpu'[k]]
          /\ cpu'[c] = [me EXCEPT !.wram = wram, !.pc = pc]
      BY <2>2 DEF SmpInv
    <3> QED BY <2>2, <3>1 DEF SmpInv, IsLocals
  <2> QED BY <1>1, <2>1, <2>2
<1>3. before' = before
  BY <1>2, Running1
<1>4. BuffersInv'
  BY <1>1, <1>3, BuffersKept DEF SmpInv
<1>5. UNCHANGED Atomic!vars
  BY <1>1, <1>2, <1>3, Running1, Unseen DEF Flushed, Removed, vars, swapVars
<1> USE DEF vars, swapVars
<1>6. CASE me.op = "store"
  <2>1. StoreInv(cpu[c])'
    <3>1. StoreInv(me)
      BY <1>6 DEF SmpInv
    <3> QED BY <1>1, <1>2, <1>3, <1>6, <3>1 DEF StoreInv, InKept
  <2> QED BY <1>2, <1>4, <1>5, <1>6, <2>1 DEF SmpInv
<1>7. CASE me.op = "load"
  <2>1. LoadInv(cpu[c])'
    <3>1. LoadInv(me) /\ MissInv(me)
      BY <1>1, <1>7 DEF SmpInv, LoadInv
    <3>2. MissInv(cpu[c])'
      BY <1>1, <1>2, <1>3, <1>7, <3>1 DEF MissInv, OutBufferHit, LookupHit, tableVars
    <3> QED BY <1>1, <1>2, <3>1, <3>2 DEF LoadInv
  <2> QED BY <1>2, <1>4, <1>5, <1>7, <2>1 DEF SmpInv
<1>8. me.op # "none"
  BY <1>1, WhoRuns
<1>9. me.op # "invalidate"
  <2> SUFFICES ASSUME me.op = "invalidate" PROVE FALSE
    OBVIOUS
  <2>1. InvalidateInv(c, me)
    BY DEF SmpInv
  <2> QED BY <1>1, <2>1 DEF InvalidateInv
<1> QED BY <1>6, <1>7, <1>8, <1>9 DEF SmpInv

(* The compressor has been sent a page with an id.                         *)
LEMMA CompressReadIdStep ==
  ASSUME NEW c, Cpus = {c}, SmpInv(c), CompressReadId(c), Remember
  PROVE  SmpInv(c)' /\ UNCHANGED Atomic!vars
<1> DEFINE me == cpu[c]
<1>1. /\ me.prog = "compress" /\ me.pc = "main"
      /\ UNCHANGED <<tableVars, out_buffer, out_buffer_bmp, in_buffer, storage, held,
                     written, fetched, dropped, loaded, push_data, main, wram_heap, wild>>
  BY DEF CompressReadId, Running
<1>2. me.op = "store" /\ StoreInv(me)
  BY <1>1, WhoRuns DEF SmpInv
<1>3. trans_page = out_buffer /\ out_buffer_bmp /\ push_data = NoBuffer
  BY <1>1, <1>2 DEF StoreInv
<1>4. out_buffer.id >= PAGE_VALID
  <2>1. PICK o \in PgOffs : out_buffer.id = ID_FROM_OFFSET(o) + PAGE_VALID
    BY <1>3 DEF SmpInv, BuffersInv
  <2>2. ID_FROM_OFFSET(o) \in Nat /\ PAGE_VALID \in Nat
    BY FlagComesOff, SwapSizes
  <2> QED BY <2>1, <2>2
<1>5. /\ cpu' = [cpu EXCEPT ![c].id = out_buffer.id, ![c].pc = "acquire"]
      /\ trans_page' = trans_page
  BY <1>3, <1>4 DEF CompressReadId
<1>6. /\ cpu' = [k \in Cpus |-> cpu'[k]]
      /\ cpu'[c] = [me EXCEPT !.id = out_buffer.id, !.pc = "acquire"]
  BY <1>5 DEF SmpInv
<1>7. /\ IsLocals(cpu'[c])
      /\ cpu'[c].pc = "acquire" /\ cpu'[c].prog = "compress" /\ cpu'[c].op = "store"
      /\ cpu'[c].id = out_buffer.id
      /\ cpu'[c].offset = me.offset /\ cpu'[c].data = me.data
  BY <1>1, <1>2, <1>6 DEF SmpInv, IsLocals
<1>8. before' = before
  BY <1>7, Running1
<1>9. BuffersInv'
  BY <1>1, <1>5, <1>8 DEF SmpInv, BuffersInv, IsPage
<1>10. UNCHANGED Atomic!vars
  BY <1>1, <1>2, <1>7, <1>8, Running1, Unseen DEF Flushed, Removed
<1>11. StoreInv(cpu[c])'
  BY <1>1, <1>2, <1>3, <1>5, <1>7, <1>8 DEF StoreInv, InKept
<1> QED BY <1>6, <1>7, <1>9, <1>10, <1>11 DEF SmpInv

(* The page of a load under way is the transfer page, with the id it asks  *)
(* for, until the program has run.                                         *)
LEMMA Asked ==
  ASSUME NEW c, SmpInv(c), cpu[c].prog = "decompress",
         cpu[c].pc \in {"main", "acquire", "release", "rest"}
  PROVE  /\ cpu[c].op = "load" /\ LoadInv(cpu[c]) /\ MissInv(cpu[c])
         /\ push_data = NoBuffer /\ cpu[c].ok = FALSE
         /\ trans_page = [data |-> before.trans_page.data,
                          id   |-> ID_FROM_OFFSET(cpu[c].offset)]
<1>1. cpu[c].op = "load" /\ LoadInv(cpu[c]) /\ MissInv(cpu[c])
  BY WhoRuns DEF SmpInv, LoadInv
<1>2. /\ push_data = NoBuffer /\ cpu[c].ok = FALSE
      /\ trans_page = [before.trans_page EXCEPT !.id = ID_FROM_OFFSET(cpu[c].offset)]
  BY <1>1 DEF MissInv
<1>3. trans_page = [data |-> before.trans_page.data, id |-> ID_FROM_OFFSET(cpu[c].offset)]
  BY <1>2 DEF SmpInv, BuffersInv, IsPage
<1> QED BY <1>1, <1>2, <1>3

(* The program of a load looks its id up.                                  *)
LEMMA DecompressLookupStep ==
  ASSUME NEW c, Cpus = {c}, SmpInv(c), DecompressLookup(c), Remember
  PROVE  SmpInv(c)' /\ UNCHANGED Atomic!vars
<1> DEFINE me == cpu[c]
           id == ID_FROM_OFFSET(me.offset)
           found == IF LookupHit(id) THEN hash_table[EntryIndex(id)] ELSE NoEntry
           pc == IF LookupHit(id) THEN "acquire" ELSE "done"
<1>1. me.prog = "decompress" /\ me.pc = "main" /\ UNCHANGED <<vars, push_data, main, wram_heap, wild>>
  BY DEF DecompressLookup, Running
<1>2. /\ me.op = "load" /\ LoadInv(me) /\ MissInv(me)
      /\ push_data = NoBuffer /\ me.ok = FALSE
      /\ trans_page = [data |-> before.trans_page.data, id |-> id]
  BY <1>1, Asked
<1>3. cpu' = [cpu EXCEPT ![c].id = id, ![c].found = found, ![c].pc = pc]
  BY <1>2 DEF DecompressLookup
<1>4. /\ cpu' = [k \in Cpus |-> cpu'[k]]
      /\ cpu'[c] = [me EXCEPT !.id = id, !.found = found, !.pc = pc]
  BY <1>3 DEF SmpInv
<1>5. pc \in {"acquire", "done"}
  OBVIOUS
<1>6. /\ IsLocals(cpu'[c])
      /\ cpu'[c].pc = pc /\ cpu'[c].prog = "decompress" /\ cpu'[c].op = "load"
      /\ cpu'[c].found = found /\ cpu'[c].ok = me.ok /\ cpu'[c].from = me.from
      /\ cpu'[c].offset = me.offset
  <2> HIDE DEF found, pc
  <2> QED BY <1>1, <1>2, <1>4 DEF SmpInv, IsLocals
<1>7. before' = before
  BY <1>5, <1>6, Running1
<1>8. BuffersInv'
  BY <1>1, <1>7, BuffersKept DEF SmpInv
<1>9. UNCHANGED Atomic!vars
  BY <1>1, <1>2, <1>6, <1>7, Running1, Unseen DEF Flushed, Removed, vars, swapVars
<1>10. MissInv(cpu[c])'
  <2>1. /\ ~OutBufferHit(id)' /\ before.in_buffer.id # id /\ in_buffer' = in_buffer
        /\ me.from = "in" /\ UNCHANGED <<trans_page, push_data>>
        /\ LookupHit(id)' <=> LookupHit(id)
        /\ hash_table' = hash_table
    BY <1>1, <1>2, <1>6 DEF MissInv, OutBufferHit, LookupHit, vars, swapVars, tableVars
  <2>2. trans_page = [before.trans_page EXCEPT !.id = id]
    BY <1>1, <1>2 DEF MissInv
  <2>3. CASE LookupHit(id)
    BY <1>2, <1>6, <1>7, <2>1, <2>2, <2>3 DEF MissInv
  <2>4. CASE ~LookupHit(id)
    <3>1. LzoDecompressMain(id)' = {Failed}
      BY <2>1, <2>4, <1>6 DEF LzoDecompressMain
    <3>2. Found(cpu[c])'
      BY <1>2, <1>6, <1>7, <2>1, <3>1 DEF Found
    <3> QED BY <1>2, <1>6, <1>7, <2>1, <2>4, <3>2 DEF MissInv
  <2> QED BY <2>3, <2>4
<1>11. LoadInv(cpu[c])'
  BY <1>1, <1>2, <1>6, <1>10 DEF LoadInv, vars, swapVars
<1> QED BY <1>4, <1>6, <1>8, <1>9, <1>11 DEF SmpInv

(* It reads the page that it found.                                        *)
LEMMA DecompressRestStep ==
  ASSUME NEW c, Cpus = {c}, SmpInv(c), DecompressRest(c), Remember
  PROVE  SmpInv(c)' /\ UNCHANGED Atomic!vars
<1> DEFINE me == cpu[c]
           id == ID_FROM_OFFSET(me.offset)
<1>1. /\ me.prog = "decompress" /\ me.pc = "rest"
      /\ UNCHANGED <<tableVars, out_buffer, out_buffer_bmp, in_buffer, storage, held,
                     written, fetched, dropped, loaded, push_data, main, wram_heap, wild>>
  BY DEF DecompressRest, Running
<1>2. /\ me.op = "load" /\ LoadInv(me) /\ MissInv(me)
      /\ push_data = NoBuffer /\ me.ok = FALSE
      /\ trans_page = [data |-> before.trans_page.data, id |-> id]
  BY <1>1, Asked
<1>3. LookupHit(id) /\ me.found = hash_table[EntryIndex(id)]
  BY <1>1, <1>2 DEF MissInv
<1>4. PICK page \in ReadPage(me.found.block, me.found.length) :
        /\ trans_page' = [trans_page EXCEPT !.data = IF page = Failed THEN @ ELSE page]
        /\ cpu' = [cpu EXCEPT ![c].ok = (page # Failed), ![c].pc = "done"]
  BY DEF DecompressRest
<1>5. /\ cpu' = [k \in Cpus |-> cpu'[k]]
      /\ cpu'[c] = [me EXCEPT !.ok = (page # Failed), !.pc = "done"]
  BY <1>4 DEF SmpInv
<1>6. /\ IsLocals(cpu'[c])
      /\ cpu'[c].pc = "done" /\ cpu'[c].prog = "decompress" /\ cpu'[c].op = "load"
      /\ cpu'[c].ok = (page # Failed) /\ cpu'[c].from = me.from
      /\ cpu'[c].offset = me.offset
  BY <1>1, <1>2, <1>5 DEF SmpInv, IsLocals
<1>7. before' = before
  BY <1>6, Running1
<1>8. trans_page' = [data |-> IF page = Failed THEN before.trans_page.data ELSE page, id |-> id]
  BY <1>2, <1>4
<1>9. BuffersInv'
  BY <1>1, <1>7, <1>8 DEF SmpInv, BuffersInv, IsPage
<1>10. UNCHANGED Atomic!vars
  BY <1>1, <1>2, <1>6, <1>7, Running1, Unseen DEF Flushed, Removed
<1>11. Found(cpu[c])'
  <2>1. page \in LzoDecompressMain(id)
    BY <1>3 DEF LzoDecompressMain
  <2>2. LzoDecompressMain(id)' = LzoDecompressMain(id)
    BY <1>1, <1>6 DEF LzoDecompressMain, LookupHit, ReadPage, Intact, tableVars
  <2> QED BY <1>6, <1>7, <1>8, <2>1, <2>2 DEF Found
<1>12. MissInv(cpu[c])'
  BY <1>1, <1>2, <1>6, <1>7, <1>11 DEF MissInv, OutBufferHit
<1>13. LoadInv(cpu[c])'
  BY <1>1, <1>2, <1>6, <1>12 DEF LoadInv
<1> QED BY <1>5, <1>6, <1>9, <1>10, <1>13 DEF SmpInv

(* A store looks for room in the out buffer.                               *)
LEMMA StoreStartStep ==
  ASSUME NEW c, Cpus = {c}, SmpInv(c), StoreStart(c), Remember
  PROVE  SmpInv(c)' /\ UNCHANGED Atomic!vars
<1> DEFINE me == cpu[c]
<1>1. /\ me.op = "store" /\ me.pc = "start" /\ UNCHANGED <<vars, main, wram_heap, wild>>
      /\ \/ /\ out_buffer_bmp
            /\ push_data' = [buf |-> "out", cpu |-> c, offset |-> me.offset]
            /\ cpu' = [cpu EXCEPT ![c].pc = "push"]
         \/ /\ ~out_buffer_bmp
            /\ push_data' = push_data
            /\ cpu' = [cpu EXCEPT ![c].pc = "fill"]
  BY DEF StoreStart, At, dpu_prepare_xfer, Goto
<1>2. StoreInv(me)
  BY <1>1 DEF SmpInv
<1>3. me.prog = "none" /\ push_data = NoBuffer /\ trans_page = before.trans_page
  BY <1>1, <1>2 DEF StoreInv
<1>4. /\ cpu' = [k \in Cpus |-> cpu'[k]] /\ IsLocals(cpu'[c])
      /\ cpu'[c].pc \in {"push", "fill"}
      /\ cpu'[c].op = me.op /\ cpu'[c].prog = me.prog
      /\ cpu'[c].offset = me.offset /\ cpu'[c].data = me.data
      /\ before' = before
      /\ cpu'[c].pc = IF out_buffer_bmp THEN "push" ELSE "fill"
  BY <1>1, GoesTo
<1>5. BuffersInv'
  BY <1>1, <1>4, BuffersKept DEF SmpInv
<1>6. UNCHANGED Atomic!vars
  BY <1>1, <1>3, <1>4, Running1, Unseen DEF Flushed, Removed, vars, swapVars
<1>7. StoreInv(cpu[c])'
  BY <1>1, <1>2, <1>3, <1>4 DEF StoreInv, InKept, vars, swapVars
<1> QED BY <1>1, <1>4, <1>5, <1>6, <1>7 DEF SmpInv

(* The program of a store is done: the out buffer is empty ...             *)
LEMMA StoreDoneStep ==
  ASSUME NEW c, Cpus = {c}, SmpInv(c), StoreDone(c), Remember
  PROVE  SmpInv(c)' /\ UNCHANGED Atomic!vars
<1> DEFINE me == cpu[c]
<1>1. /\ me.op = "store" /\ me.pc = "done" /\ cpu' = [cpu EXCEPT ![c].pc = "pull"]
      /\ out_buffer_bmp' = FALSE
      /\ UNCHANGED <<tableVars, out_buffer, in_buffer, trans_page, storage, held, written,
                     fetched, dropped, loaded, push_data, main, wram_heap, wild>>
  BY DEF StoreDone, At, Goto
<1>2. StoreInv(me)
  BY <1>1 DEF SmpInv
<1>3. me.prog = "compress" /\ push_data = NoBuffer
  BY <1>1, <1>2 DEF StoreInv
<1>4. /\ cpu' = [k \in Cpus |-> cpu'[k]] /\ IsLocals(cpu'[c])
      /\ cpu'[c].pc = "pull"
      /\ cpu'[c].op = me.op /\ cpu'[c].prog = me.prog
      /\ cpu'[c].offset = me.offset /\ cpu'[c].data = me.data
      /\ before' = before
  BY <1>1, GoesTo
<1>5. BuffersInv'
  BY <1>1, <1>4 DEF SmpInv, BuffersInv, IsPage
<1>6. UNCHANGED Atomic!vars
  <2>1. /\ Flushed /\ Flushed'
        /\ Me.offset' = Me.offset /\ Me.data' = Me.data
    BY <1>1, <1>3, <1>4, Running1 DEF Flushed
  <2> QED BY <1>1, <1>4, <2>1, StillFlushed
<1>7. StoreInv(cpu[c])'
  BY <1>1, <1>2, <1>3, <1>4 DEF StoreInv, InKept
<1> QED BY <1>1, <1>4, <1>5, <1>6, <1>7 DEF SmpInv

(* ... and its page gets an id that is none of a page.                     *)
LEMMA StoreBackStep ==
  ASSUME NEW c, Cpus = {c}, SmpInv(c), StoreBack(c), Remember
  PROVE  SmpInv(c)' /\ UNCHANGED Atomic!vars
<1> DEFINE me == cpu[c]
<1>1. /\ me.op = "store" /\ me.pc = "back" /\ cpu' = [cpu EXCEPT ![c].pc = "fill"]
      /\ out_buffer' = [out_buffer EXCEPT !.id = 0]
      /\ UNCHANGED <<tableVars, out_buffer_bmp, in_buffer, trans_page, storage, held,
                     written, fetched, dropped, loaded, push_data, main, wram_heap, wild>>
  BY DEF StoreBack, At, Goto
<1>2. StoreInv(me)
  BY <1>1 DEF SmpInv
<1>3. me.prog = "compress" /\ push_data = NoBuffer /\ ~out_buffer_bmp
  BY <1>1, <1>2 DEF StoreInv
<1>4. /\ cpu' = [k \in Cpus |-> cpu'[k]] /\ IsLocals(cpu'[c])
      /\ cpu'[c].pc = "fill"
      /\ cpu'[c].op = me.op /\ cpu'[c].prog = me.prog
      /\ cpu'[c].offset = me.offset /\ cpu'[c].data = me.data
      /\ before' = before
  BY <1>1, GoesTo
<1>5. BuffersInv'
  BY <1>1, <1>3, <1>4 DEF SmpInv, BuffersInv, IsPage
<1>6. UNCHANGED Atomic!vars
  <2>1. /\ Flushed /\ Flushed'
        /\ Me.offset' = Me.offset /\ Me.data' = Me.data
    BY <1>1, <1>3, <1>4, Running1 DEF Flushed
  <2> QED BY <1>1, <1>4, <2>1, StillFlushed
<1>7. StoreInv(cpu[c])'
  BY <1>1, <1>2, <1>3, <1>4 DEF StoreInv, InKept
<1> QED BY <1>1, <1>4, <1>5, <1>6, <1>7 DEF SmpInv

(* A load looks for its page in the buffers.                               *)
LEMMA LoadStartStep ==
  ASSUME NEW c, Cpus = {c}, SmpInv(c), LoadStart(c), Remember
  PROVE  SmpInv(c)' /\ UNCHANGED Atomic!vars
<1> DEFINE me == cpu[c]
           id == ID_FROM_OFFSET(me.offset)
<1>1. /\ me.op = "load" /\ me.pc = "start"
      /\ UNCHANGED <<tableVars, out_buffer, out_buffer_bmp, trans_page, storage, held,
                     written, fetched, dropped, loaded, main, wram_heap, wild>>
  BY DEF LoadStart, At
<1>2. LoadInv(me)
  BY <1>1 DEF SmpInv
<1>3. /\ me.prog = "none" /\ push_data = NoBuffer
      /\ InKept /\ trans_page = before.trans_page /\ me.ok = FALSE /\ me.from = "in"
  BY <1>1, <1>2 DEF LoadInv, MissInv
<1>4. CASE OutBufferHit(id) \/ InBufferHit(id)
  <2> DEFINE from == IF OutBufferHit(id) THEN "out" ELSE "in"
  <2>1. /\ cpu' = [cpu EXCEPT ![c].pc = "copy", ![c].from = from]
        /\ UNCHANGED <<in_buffer, push_data>>
    BY <1>4 DEF LoadStart
  <2>2. /\ cpu' = [k \in Cpus |-> cpu'[k]]
        /\ cpu'[c] = [me EXCEPT !.pc = "copy", !.from = from]
    BY <2>1 DEF SmpInv
  <2>3. /\ IsLocals(cpu'[c])
        /\ cpu'[c].pc = "copy" /\ cpu'[c].prog = "none" /\ cpu'[c].op = "load"
        /\ cpu'[c].from = from /\ cpu'[c].offset = me.offset
    <3> HIDE DEF from
    <3> QED BY <1>1, <1>3, <2>2 DEF SmpInv, IsLocals
  <2>4. before' = before
    BY <2>3, Running1
  <2>5. BuffersInv'
    BY <1>1, <2>1, <2>4 DEF SmpInv, BuffersInv, IsPage
  <2>6. UNCHANGED Atomic!vars
    BY <1>1, <1>3, <2>3, <2>4, Running1, Unseen DEF Flushed, Removed
  <2>7. LoadInv(cpu[c])'
    BY <1>1, <1>2, <1>3, <1>4, <2>1, <2>3, <2>4
    DEF LoadInv, InKept, OutBufferHit, InBufferHit
  <2> QED BY <2>2, <2>3, <2>5, <2>6, <2>7 DEF SmpInv
<1>5. CASE ~(OutBufferHit(id) \/ InBufferHit(id))
  <2>1. /\ in_buffer' = [in_buffer EXCEPT !.id = id]
        /\ push_data' = [buf |-> "in_id", cpu |-> c, offset |-> me.offset]
        /\ cpu' = [cpu EXCEPT ![c].pc = "push"]
    BY <1>5 DEF LoadStart, dpu_prepare_xfer, Goto
  <2>2. /\ cpu' = [k \in Cpus |-> cpu'[k]] /\ IsLocals(cpu'[c])
        /\ cpu'[c].pc = "push" /\ cpu'[c].prog = "none" /\ cpu'[c].op = "load"
        /\ cpu'[c].offset = me.offset /\ cpu'[c].ok = FALSE /\ cpu'[c].from = "in"
        /\ before' = before
    BY <1>1, <1>3, <2>1, GoesTo
  <2>3. in_buffer'.id = id
    BY <2>1 DEF SmpInv, BuffersInv, IsPage
  <2>4. BuffersInv'
    BY <1>1, <2>1, <2>2 DEF SmpInv, BuffersInv, IsPage
  <2>5. UNCHANGED Atomic!vars
    BY <1>1, <1>3, <2>2, Running1, Unseen DEF Flushed, Removed
  <2>6. before.in_buffer.id # id
    BY <1>3, <1>5 DEF InKept, InBufferHit
  <2>7. MissInv(cpu[c])'
    BY <1>1, <1>3, <1>5, <2>1, <2>2, <2>3, <2>6 DEF MissInv, OutBufferHit
  <2>8. LoadInv(cpu[c])'
    BY <1>1, <1>2, <2>2, <2>7 DEF LoadInv
  <2> QED BY <2>2, <2>4, <2>5, <2>8 DEF SmpInv
<1> QED BY <1>4, <1>5

(* What a program found stays found while nothing is stored.               *)
LEMMA FoundKept ==
  ASSUME NEW c, Found(cpu[c]), UNCHANGED <<tableVars, storage, trans_page, before>>,
         cpu'[c].offset = cpu[c].offset, cpu'[c].ok = cpu[c].ok
  PROVE  Found(cpu[c])'
<1> DEFINE id == ID_FROM_OFFSET(cpu[c].offset)
<1>1. LzoDecompressMain(id)' = LzoDecompressMain(id)
  BY DEF LzoDecompressMain, LookupHit, ReadPage, Intact, tableVars
<1>2. PICK page \in LzoDecompressMain(id) :
        /\ trans_page = [data |-> IF page = Failed THEN before.trans_page.data ELSE page,
                         id   |-> id]
        /\ cpu[c].ok = (page # Failed)
  BY DEF Found
<1>3. page \in LzoDecompressMain(id)' /\ id' = id
  BY <1>1
<1> QED BY <1>2, <1>3 DEF Found

(* A load prepares the in buffer for the answer ...                        *)
LEMMA LoadDoneStep ==
  ASSUME NEW c, Cpus = {c}, SmpInv(c), LoadDone(c), Remember
  PROVE  SmpInv(c)' /\ UNCHANGED Atomic!vars
<1> DEFINE me == cpu[c]
<1>1. /\ me.op = "load" /\ me.pc = "done" /\ cpu' = [cpu EXCEPT ![c].pc = "pull"]
      /\ push_data' = [buf |-> "in", cpu |-> c, offset |-> me.offset]
      /\ UNCHANGED <<vars, main, wram_heap, wild>>
  BY DEF LoadDone, At, dpu_prepare_xfer, Goto
<1>2. LoadInv(me) /\ MissInv(me)
  BY <1>1 DEF SmpInv, LoadInv
<1>3. me.prog = "decompress" /\ Found(me)
  BY <1>1, <1>2 DEF MissInv
<1>4. /\ cpu' = [k \in Cpus |-> cpu'[k]] /\ IsLocals(cpu'[c])
      /\ cpu'[c].pc = "pull" /\ cpu'[c].prog = "decompress" /\ cpu'[c].op = "load"
      /\ cpu'[c].offset = me.offset /\ cpu'[c].ok = me.ok /\ cpu'[c].from = me.from
      /\ before' = before
  BY <1>1, <1>3, GoesTo
<1>5. BuffersInv'
  BY <1>1, <1>4, BuffersKept DEF SmpInv
<1>6. UNCHANGED Atomic!vars
  BY <1>1, <1>4, Running1, Unseen DEF Flushed, Removed, vars, swapVars
<1>7. Found(cpu[c])'
  BY <1>1, <1>3, <1>4, FoundKept DEF vars, swapVars
<1>8. MissInv(cpu[c])'
  BY <1>1, <1>2, <1>4, <1>7 DEF MissInv, OutBufferHit, vars, swapVars
<1>9. LoadInv(cpu[c])'
  BY <1>1, <1>2, <1>4, <1>8 DEF LoadInv, vars, swapVars
<1> QED BY <1>4, <1>5, <1>6, <1>9 DEF SmpInv

(* The transfer back of a store has no buffer, that of a load the in       *)
(* buffer, ...                                                             *)
LEMMA PullStep ==
  ASSUME NEW c, Cpus = {c}, SmpInv(c), Pull(c), Remember
  PROVE  SmpInv(c)' /\ UNCHANGED Atomic!vars
<1> DEFINE me == cpu[c]
           pc == IF push_data = NoBuffer THEN "back" ELSE "take"
<1>1. /\ me.pc = "pull" /\ Transfer(c, push_data, pc)
      /\ UNCHANGED <<vars, push_data, wild>>
  BY DEF Pull, TestBuffer, Transfer
<1>2. pc # "idle"
  OBVIOUS
<1>3. /\ cpu' = [k \in Cpus |-> cpu'[k]] /\ IsLocals(cpu'[c])
      /\ cpu'[c].pc = pc /\ cpu'[c].buffer = push_data
      /\ cpu'[c].op = me.op /\ cpu'[c].prog = me.prog
      /\ cpu'[c].offset = me.offset /\ cpu'[c].data = me.data
      /\ cpu'[c].from = me.from /\ cpu'[c].ok = me.ok
      /\ before' = before
  <2> HIDE DEF pc
  <2> QED BY <1>1, <1>2, Transfers
<1>4. BuffersInv'
  BY <1>1, <1>3, BuffersKept DEF SmpInv
<1> USE DEF vars, swapVars
<1>5. CASE me.op = "store"
  <2>1. StoreInv(me)
    BY <1>5 DEF SmpInv
  <2>2. me.prog = "compress" /\ push_data = NoBuffer /\ cpu'[c].pc = "back"
    BY <1>1, <1>3, <2>1 DEF StoreInv
  <2>3. StoreInv(cpu[c])'
    BY <1>1, <1>3, <2>1, <2>2 DEF StoreInv, InKept
  <2>4. /\ Flushed /\ Flushed'
        /\ Me.offset' = Me.offset /\ Me.data' = Me.data
    BY <1>1, <1>3, <1>5, <2>2, Running1 DEF Flushed
  <2>5. UNCHANGED Atomic!vars
    BY <1>1, <1>3, <2>4, StillFlushed
  <2> QED BY <1>3, <1>4, <1>5, <2>3, <2>5 DEF SmpInv
<1>6. CASE me.op = "load"
  <2>1. LoadInv(me) /\ MissInv(me)
    BY <1>1, <1>6 DEF SmpInv, LoadInv
  <2>2. me.prog = "decompress" /\ Found(me) /\ push_data.buf = "in"
    BY <1>1, <2>1 DEF MissInv
  <2>3. cpu'[c].pc = "take"
    BY <1>3, <2>2 DEF NoBuffer
  <2>4. Found(cpu[c])'
    BY <1>1, <1>3, <2>2, FoundKept
  <2>5. MissInv(cpu[c])'
    BY <1>1, <1>3, <2>1, <2>2, <2>3, <2>4 DEF MissInv, OutBufferHit
  <2>6. LoadInv(cpu[c])'
    BY <1>1, <1>3, <2>1, <2>5 DEF LoadInv
  <2>7. UNCHANGED Atomic!vars
    BY <1>1, <1>3, <1>6, Running1, Unseen DEF Flushed, Removed
  <2> QED BY <1>3, <1>4, <1>6, <2>6, <2>7 DEF SmpInv
<1>7. me.op \notin {"none", "invalidate"}
  BY <1>1, WhoRuns DEF SmpInv, InvalidateInv
<1> QED BY <1>5, <1>6, <1>7 DEF SmpInv

(* ... which gets the page, ...                                            *)
LEMMA TakeStep ==
  ASSUME NEW c, Cpus = {c}, SmpInv(c), Take(c), Remember
  PROVE  SmpInv(c)' /\ UNCHANGED Atomic!vars
<1> DEFINE me == cpu[c]
           id == ID_FROM_OFFSET(me.offset)
<1>1. /\ me.pc = "take" /\ cpu' = [cpu EXCEPT ![c].pc = "taken"]
      /\ UNCHANGED <<tableVars, out_buffer_bmp, trans_page, storage, held, written,
                     dropped, loaded, push_data, main, wram_heap>>
  BY DEF Take, Goto
<1>2. me.op = "load"
  BY <1>1, WhoRuns DEF SmpInv, StoreInv, InvalidateInv
<1>3. LoadInv(me) /\ MissInv(me)
  BY <1>1, <1>2 DEF SmpInv, LoadInv
<1>4. me.prog = "decompress" /\ Found(me) /\ push_data.buf = "in" /\ me.buffer = push_data
  BY <1>1, <1>3 DEF MissInv
<1>5. /\ in_buffer' = trans_page /\ out_buffer' = out_buffer
      /\ fetched' = me.ok /\ ~wild'
  BY <1>4 DEF Take, CopyBuffer, Pulled
<1>6. me.ok \in BOOLEAN
  BY <1>4 DEF Found
<1>7. /\ cpu' = [k \in Cpus |-> cpu'[k]] /\ IsLocals(cpu'[c])
      /\ cpu'[c].pc = "taken" /\ cpu'[c].prog = "decompress" /\ cpu'[c].op = "load"
      /\ cpu'[c].offset = me.offset /\ cpu'[c].ok = me.ok /\ cpu'[c].from = me.from
      /\ before' = before
  BY <1>1, <1>2, <1>4, GoesTo
<1>8. BuffersInv'
  BY <1>1, <1>5, <1>6, <1>7 DEF SmpInv, BuffersInv, IsPage
<1>9. UNCHANGED Atomic!vars
  BY <1>1, <1>2, <1>5, <1>7, Running1, Unseen DEF Flushed, Removed
<1>10. Found(cpu[c])'
  BY <1>1, <1>4, <1>7, FoundKept
<1>11. MissInv(cpu[c])'
  BY <1>1, <1>3, <1>5, <1>7, <1>10 DEF MissInv, OutBufferHit
<1>12. LoadInv(cpu[c])'
  BY <1>1, <1>3, <1>7, <1>11 DEF LoadInv
<1> QED BY <1>7, <1>8, <1>9, <1>12 DEF SmpInv

(* ... and is forgotten.                                                   *)
LEMMA TakenStep ==
  ASSUME NEW c, Cpus = {c}, SmpInv(c), Taken(c), Remember
  PROVE  SmpInv(c)' /\ UNCHANGED Atomic!vars
<1> DEFINE me == cpu[c]
<1>1. /\ me.pc = "taken" /\ push_data' = NoBuffer
      /\ Transfer(c, NoBuffer, "back")
      /\ UNCHANGED <<vars, main, wild>>
  BY DEF Taken, ClearBuffer, Transfer
<1>2. me.op = "load"
  BY <1>1, WhoRuns DEF SmpInv, StoreInv, InvalidateInv
<1>3. LoadInv(me) /\ MissInv(me)
  BY <1>1, <1>2 DEF SmpInv, LoadInv
<1>4. me.prog = "decompress" /\ Found(me) /\ in_buffer = trans_page /\ fetched = me.ok
  BY <1>1, <1>3 DEF MissInv
<1>5. /\ cpu' = [k \in Cpus |-> cpu'[k]] /\ IsLocals(cpu'[c])
      /\ cpu'[c].pc = "back" /\ cpu'[c].prog = "decompress" /\ cpu'[c].op = "load"
      /\ cpu'[c].offset = me.offset /\ cpu'[c].ok = me.ok /\ cpu'[c].from = me.from
      /\ before' = before
  BY <1>1, <1>2, <1>4, Transfers
<1>6. BuffersInv'
  BY <1>1, <1>5, BuffersKept DEF SmpInv
<1> USE DEF vars, swapVars
<1>7. UNCHANGED Atomic!vars
  BY <1>1, <1>2, <1>5, Running1, Unseen DEF Flushed, Removed
<1>8. Found(cpu[c])'
  BY <1>1, <1>4, <1>5, FoundKept
<1>9. MissInv(cpu[c])'
  BY <1>1, <1>3, <1>4, <1>5, <1>8 DEF MissInv, OutBufferHit
<1>10. LoadInv(cpu[c])'
  BY <1>1, <1>3, <1>5, <1>9 DEF LoadInv
<1> QED BY <1>5, <1>6, <1>7, <1>10 DEF SmpInv

(* The page has the id that the load asked for.                            *)
LEMMA LoadBackStep ==
  ASSUME NEW c, Cpus = {c}, SmpInv(c), LoadBack(c), Remember
  PROVE  SmpInv(c)' /\ UNCHANGED Atomic!vars
<1> DEFINE me == cpu[c]
           id == ID_FROM_OFFSET(me.offset)
<1>1. /\ me.op = "load" /\ me.pc = "back"
      /\ UNCHANGED <<tableVars, out_buffer, out_buffer_bmp, in_buffer, trans_page, storage,
                     held, written, fetched, dropped, push_data, main, wram_heap, wild>>
  BY DEF LoadBack, At
<1>2. LoadInv(me) /\ MissInv(me)
  BY <1>1 DEF SmpInv, LoadInv
<1>3. /\ me.prog = "decompress" /\ Found(me) /\ push_data = NoBuffer
      /\ in_buffer = trans_page /\ fetched = me.ok
  BY <1>1, <1>2 DEF MissInv
<1>4. in_buffer.id = id
  BY <1>3 DEF Found
<1>5. cpu' = [cpu EXCEPT ![c].pc = "copy"] /\ loaded' = loaded
  BY <1>4 DEF LoadBack, Goto
<1>6. /\ cpu' = [k \in Cpus |-> cpu'[k]] /\ IsLocals(cpu'[c])
      /\ cpu'[c].pc = "copy" /\ cpu'[c].prog = "decompress" /\ cpu'[c].op = "load"
      /\ cpu'[c].offset = me.offset /\ cpu'[c].ok = me.ok /\ cpu'[c].from = me.from
      /\ before' = before
  BY <1>1, <1>3, <1>5, GoesTo
<1>7. BuffersInv'
  BY <1>1, <1>6 DEF SmpInv, BuffersInv, IsPage
<1>8. UNCHANGED Atomic!vars
  BY <1>1, <1>5, <1>6, Running1, Unseen DEF Flushed, Removed
<1>9. Found(cpu[c])'
  BY <1>1, <1>3, <1>6, FoundKept
<1>10. MissInv(cpu[c])'
  BY <1>1, <1>2, <1>3, <1>6, <1>9 DEF MissInv, OutBufferHit
<1>11. LoadInv(cpu[c])'
  BY <1>1, <1>2, <1>6, <1>10 DEF LoadInv
<1> QED BY <1>6, <1>7, <1>8, <1>11 DEF SmpInv

(* A handler that returns leaves the CPU idle and the history up to date.  *)
LEMMA Returns ==
  ASSUME NEW c, Cpus = {c}, SmpInv(c), Return(c), Remember
  PROVE  /\ cpu'[c] = Idle
         /\ before'.in_buffer = in_buffer' /\ before'.trans_page = trans_page'
         /\ before'.fetched = fetched'
         /\ ~Flushed' /\ ~Removed'
         /\ push_data' = NoBuffer /\ BuffersInv' => SmpInv(c)'
<1>1. cpu' = [k \in Cpus |-> cpu'[k]] /\ cpu'[c] = Idle
  BY DEF Return, SmpInv
<1>2. /\ cpu'[c].pc = "idle" /\ cpu'[c].op = "none" /\ IsLocals(cpu'[c])
  BY <1>1 DEF Idle, IsLocals
<1>3. before' = Now'
  BY <1>2, Running1
<1>4. /\ before'.in_buffer = in_buffer' /\ before'.trans_page = trans_page'
      /\ before'.fetched = fetched'
  BY <1>3 DEF Now
<1>5. ~Flushed' /\ ~Removed'
  BY <1>2, Running1 DEF Flushed, Removed
<1>6. push_data' = NoBuffer => IdleInv(cpu[c])'
  BY <1>1, <1>4 DEF IdleInv, InKept
<1> QED BY <1>1, <1>2, <1>4, <1>5, <1>6 DEF SmpInv

(* A store fills the out buffer: the step of FrontSwap, unless that was    *)
(* the compression of the page that was in the way.                        *)
LEMMA StoreFillStep ==
  ASSUME NEW c, Cpus = {c}, SmpInv(c), StoreFill(c), Remember
  PROVE  SmpInv(c)' /\ [Atomic!Next]_(Atomic!vars)
<1> DEFINE me == cpu[c]
           page == [data |-> me.data, id |-> ID_FROM_OFFSET(me.offset) + PAGE_VALID]
<1>1. /\ me.op = "store" /\ me.pc = "fill" /\ Return(c)
      /\ out_buffer' = page
      /\ out_buffer_bmp' = TRUE
      /\ held' = held \cup {me.offset}
      /\ written' = [written EXCEPT ![me.offset] = me.data]
      /\ loaded' = NoLoad
      /\ UNCHANGED <<in_buffer, fetched>>
      /\ UNCHANGED <<tableVars, trans_page, storage, dropped, push_data, main,
                     wram_heap, wild>>
  BY DEF StoreFill, At, FillOutBuffer
<1>2. StoreInv(me)
  BY <1>1 DEF SmpInv
<1>3. /\ me.offset \in PgOffs \ held /\ Accepted(me.offset) /\ me.data \in Data
      /\ push_data = NoBuffer /\ in_buffer = before.in_buffer /\ fetched = before.fetched
      /\ \/ me.prog = "compress"
         \/ me.prog = "none" /\ trans_page = before.trans_page /\ ~out_buffer_bmp
  BY <1>1, <1>2 DEF StoreInv, InKept
<1>4. /\ before'.in_buffer = in_buffer' /\ before'.trans_page = trans_page'
      /\ before'.fetched = fetched'
      /\ ~Flushed' /\ ~Removed'
      /\ push_data' = NoBuffer /\ BuffersInv' => SmpInv(c)'
  BY <1>1, Returns
<1>5. BuffersInv'
  BY <1>1, <1>3, <1>4 DEF SmpInv, BuffersInv, IsPage
<1>6. ~Removed /\ (Flushed <=> me.prog = "compress")
  BY <1>1, Running1 DEF Flushed, Removed
<1>7. CASE me.prog = "compress"
  <2>1. Me = me
    BY Running1
  <2>2. UNCHANGED Atomic!vars
    BY <1>1, <1>3, <1>4, <1>6, <1>7, <2>1
    DEF Atomic!vars, Atomic!tableVars, Atomic!swapVars, tableVars, After
  <2> QED BY <1>1, <1>3, <1>4, <1>5, <2>2
<1>8. CASE me.prog = "none"
  <2>1. ~Flushed /\ trans_page = before.trans_page /\ ~out_buffer_bmp
    BY <1>3, <1>6, <1>8
  <2>2. Atomic!FillOutBuffer(me.offset, me.data)
    BY <1>1, <1>3, <1>4, <1>6, <2>1, SameHost DEF Atomic!FillOutBuffer, After
  <2>3. Atomic!StoreBuffered(me.offset, me.data)
    BY <1>1, <1>3, <1>4, <1>6, <2>1, <2>2, SameHost
    DEF Atomic!StoreBuffered, After, Atomic!tableVars, tableVars
  <2>4. Atomic!Next
    BY <1>3, <2>3 DEF Atomic!Next
  <2> QED BY <1>1, <1>3, <1>4, <1>5, <2>4
<1> QED BY <1>3, <1>7, <1>8

(* The program of a store compresses the page that was in the way.         *)
LEMMA CompressRestStep ==
  ASSUME NEW c, Cpus = {c}, SmpInv(c), CompressRest(c), Remember
  PROVE  SmpInv(c)' /\ [Atomic!Next]_(Atomic!vars)
<1> DEFINE me == cpu[c]
<1>1. /\ me.prog = "compress" /\ me.pc = "rest" /\ cpu' = [cpu EXCEPT ![c].pc = "done"]
      /\ LzoCompressMain([data |-> trans_page.data, id |-> me.id])
      /\ UNCHANGED <<out_buffer, out_buffer_bmp, in_buffer, held, written, fetched,
                     loaded, push_data, main, wram_heap, wild>>
  BY DEF CompressRest, Running, Goto
<1>2. me.op = "store" /\ StoreInv(me)
  BY <1>1, WhoRuns DEF SmpInv
<1>3. /\ me.offset \in PgOffs \ held /\ Accepted(me.offset) /\ me.data \in Data
      /\ push_data = NoBuffer /\ in_buffer = before.in_buffer /\ fetched = before.fetched
      /\ trans_page = out_buffer /\ out_buffer_bmp /\ me.id = out_buffer.id
  BY <1>1, <1>2 DEF StoreInv, InKept
<1>4. LzoCompressMain(out_buffer)
  <2>1. [data |-> trans_page.data, id |-> me.id] = out_buffer
    BY <1>3 DEF SmpInv, BuffersInv, IsPage
  <2> QED BY <1>1, <2>1
<1>5. /\ cpu' = [k \in Cpus |-> cpu'[k]] /\ IsLocals(cpu'[c])
      /\ cpu'[c].pc = "done" /\ cpu'[c].prog = "compress" /\ cpu'[c].op = "store"
      /\ cpu'[c].offset = me.offset /\ cpu'[c].data = me.data
      /\ before' = before
  BY <1>1, <1>2, GoesTo
<1>6. IsPage(trans_page)'
  BY <1>4 DEF LzoCompressMain, IsPage
<1>7. BuffersInv'
  BY <1>1, <1>5, <1>6 DEF SmpInv, BuffersInv, IsPage
<1>8. StoreInv(cpu[c])'
  BY <1>1, <1>2, <1>3, <1>5 DEF StoreInv, InKept
<1>9. SmpInv(c)'
  BY <1>5, <1>7, <1>8 DEF SmpInv
<1>10. /\ ~Flushed /\ ~Removed /\ Flushed'
       /\ Me.offset' = me.offset /\ Me.data' = me.data
  BY <1>1, <1>2, <1>5, Running1 DEF Flushed, Removed
<1>11. Atomic!FillOutBuffer(me.offset, me.data)
  BY <1>1, <1>3, <1>5, <1>10, SameHost DEF Atomic!FillOutBuffer, After
<1>12. Atomic!LzoCompressMain(out_buffer)
  <2>1. PICK block \in Blocks \cup {NULL} :
          /\ AllocPageStatic(out_buffer.id % PAGE_VALID, StoredLength(out_buffer.data), block)
          /\ storage' = IF block = NULL THEN storage ELSE WritePage(block, out_buffer.data)
          /\ trans_page' =
               [data |-> out_buffer.data,
                id   |-> IF block = NULL THEN STATUS_ERROR_STORE_NO_SPACE ELSE STATUS_OK]
          /\ dropped' =
               IF block = NULL
               THEN dropped \cup {o \in held : ID_FROM_OFFSET(o) = out_buffer.id % PAGE_VALID}
               ELSE dropped
    BY <1>4 DEF LzoCompressMain
  <2>2. Atomic!AllocPageStatic(out_buffer.id % PAGE_VALID,
                               Atomic!StoredLength(out_buffer.data), block)
    BY <2>1, SameAllocation, SameHost
  <2>3. /\ block \in Atomic!Blocks \cup {NULL}
        /\ storage' = IF block = NULL THEN storage
                                      ELSE Atomic!WritePage(block, out_buffer.data)
    BY <2>1, SameArithmetic, SameHost
  <2>4. \A o : Atomic!ID_FROM_OFFSET(o) = ID_FROM_OFFSET(o)
    BY SameHost
  <2>5. /\ Atomic!STATUS_OK = STATUS_OK
        /\ Atomic!STATUS_ERROR_STORE_NO_SPACE = STATUS_ERROR_STORE_NO_SPACE
    BY DEF STATUS_OK, Atomic!STATUS_OK, STATUS_ERROR_STORE_NO_SPACE,
           Atomic!STATUS_ERROR_STORE_NO_SPACE
  <2> QED BY <1>10, <2>1, <2>2, <2>3, <2>4, <2>5 DEF Atomic!LzoCompressMain, After
<1>13. Atomic!StoreFlushed(me.offset, me.data)
  <2>1. Atomic!Accepted(me.offset)
    BY <1>3, SameHost
  <2> QED BY <1>3, <1>10, <1>11, <1>12, <2>1 DEF Atomic!StoreFlushed, After
<1>14. Atomic!Next
  BY <1>3, <1>13 DEF Atomic!Next
<1> QED BY <1>9, <1>14

(* A load takes its page out of the buffer where it found it, or where the *)
(* DPU has put it.                                                         *)
LEMMA LoadCopyStep ==
  ASSUME NEW c, Cpus = {c}, SmpInv(c), LoadCopy(c), Remember
  PROVE  SmpInv(c)' /\ [Atomic!Next]_(Atomic!vars)
<1> DEFINE me == cpu[c]
           id == ID_FROM_OFFSET(me.offset)
<1>1. /\ me.op = "load" /\ me.pc = "copy" /\ Return(c)
      /\ loaded' = [ret |-> 0, ok |-> me.from = "out" \/ fetched, offset |-> me.offset,
                    data |-> (IF me.from = "out" THEN out_buffer ELSE in_buffer).data]
      /\ UNCHANGED <<tableVars, out_buffer, out_buffer_bmp, in_buffer, trans_page,
                     storage, held, written, fetched, dropped, push_data, main,
                     wram_heap, wild>>
  BY DEF LoadCopy, At
<1>2. LoadInv(me)
  BY <1>1 DEF SmpInv
<1>3. /\ me.offset \in PgOffs \cap held /\ push_data = NoBuffer
      /\ \/ /\ me.prog = "none" /\ InKept /\ trans_page = before.trans_page
            /\ OutBufferHit(id) \/ InBufferHit(id)
            /\ me.from = IF OutBufferHit(id) THEN "out" ELSE "in"
         \/ /\ me.prog = "decompress" /\ MissInv(me) /\ Found(me)
            /\ in_buffer = trans_page /\ fetched = me.ok
  BY <1>1, <1>2 DEF LoadInv, MissInv
<1>4. /\ before'.in_buffer = in_buffer' /\ before'.trans_page = trans_page'
      /\ before'.fetched = fetched'
      /\ ~Flushed' /\ ~Removed'
      /\ push_data' = NoBuffer /\ BuffersInv' => SmpInv(c)'
  BY <1>1, Returns
<1>5. BuffersInv'
  BY <1>1, <1>3, <1>4 DEF SmpInv, BuffersInv, IsPage
<1>6. ~Flushed /\ ~Removed
  BY <1>1, Running1 DEF Flushed, Removed
<1>7. Atomic!ID_FROM_OFFSET(me.offset) = id
  BY SameHost
<1>8. CASE me.prog = "none"
  <2>1. /\ in_buffer = before.in_buffer /\ fetched = before.fetched
        /\ trans_page = before.trans_page
        /\ OutBufferHit(id) \/ InBufferHit(id)
        /\ me.from = IF OutBufferHit(id) THEN "out" ELSE "in"
    BY <1>3, <1>8 DEF InKept
  <2>2. /\ Atomic!OutBufferHit(id) <=> OutBufferHit(id)
        /\ Atomic!InBufferHit(id) <=> InBufferHit(id)
    BY <1>6, <2>1 DEF Atomic!OutBufferHit, OutBufferHit, Atomic!InBufferHit, InBufferHit, After
  <2>3. loaded' = [ret |-> 0, ok |-> OutBufferHit(id) \/ fetched, offset |-> me.offset,
                   data |-> (IF OutBufferHit(id) THEN out_buffer ELSE in_buffer).data]
    BY <1>1, <2>1
  <2>4. Atomic!LoadFromBuffer(me.offset)
    <3> HIDE DEF id
    <3> QED BY <1>1, <1>3, <1>4, <1>6, <1>7, <2>1, <2>2, <2>3
            DEF Atomic!LoadFromBuffer, After, Atomic!tableVars, tableVars
  <2>5. Atomic!Next
    BY <1>3, <2>4 DEF Atomic!Next
  <2> QED BY <1>1, <1>3, <1>4, <1>5, <2>5
<1>9. CASE me.prog = "decompress"
  <2>1. /\ ~OutBufferHit(id) /\ before.in_buffer.id # id /\ me.from = "in"
        /\ in_buffer = trans_page /\ fetched = me.ok
    BY <1>3, <1>9 DEF MissInv
  <2>2. PICK page \in LzoDecompressMain(id) :
          /\ trans_page = [data |-> IF page = Failed THEN before.trans_page.data ELSE page,
                           id   |-> id]
          /\ me.ok = (page # Failed)
    BY <1>3, <1>9 DEF Found
  <2>3. ~Atomic!OutBufferHit(id) /\ ~Atomic!InBufferHit(id)
    BY <1>6, <2>1 DEF Atomic!OutBufferHit, OutBufferHit, Atomic!InBufferHit, After
  <2>4. page \in Atomic!LzoDecompressMain(id)
    BY <2>2, SameHost
  <2>5. loaded' = [ret |-> 0, ok |-> fetched, offset |-> me.offset, data |-> in_buffer.data]
    <3>1. me.from # "out" /\ fetched \in BOOLEAN
      BY <2>1 DEF SmpInv, BuffersInv
    <3> QED BY <1>1, <3>1
  <2>6. in_buffer.id = id
    BY <2>1, <2>2
  <2>7. Atomic!LoadFromDpu(me.offset)
    <3> HIDE DEF id
    <3> QED BY <1>1, <1>3, <1>4, <1>6, <1>7, <2>1, <2>2, <2>3, <2>4, <2>5, <2>6
            DEF Atomic!LoadFromDpu, After, Atomic!tableVars, tableVars
  <2>8. Atomic!Next
    BY <1>3, <2>7 DEF Atomic!Next
  <2> QED BY <1>1, <1>3, <1>4, <1>5, <2>8
<1> QED BY <1>3, <1>8, <1>9

(* An invalidation finds its page in the out buffer, or sends its id.      *)
LEMMA InvalidateStartStep ==
  ASSUME NEW c, Cpus = {c}, SmpInv(c), InvalidateStart(c), Remember
  PROVE  SmpInv(c)' /\ [Atomic!Next]_(Atomic!vars)
<1> DEFINE me == cpu[c]
           id == ID_FROM_OFFSET(me.offset)
<1>1. /\ me.op = "invalidate" /\ me.pc = "start"
      /\ UNCHANGED <<tableVars, trans_page, main, wram_heap, wild>>
  BY DEF InvalidateStart, At
<1>2. InvalidateInv(c, me)
  BY <1>1 DEF SmpInv
<1>3. /\ me.offset \in PgOffs \cap held /\ me.prog = "none" /\ push_data = NoBuffer
      /\ InKept /\ trans_page = before.trans_page
  BY <1>1, <1>2 DEF InvalidateInv
<1>4. ~Flushed /\ ~Removed
  BY <1>1, Running1 DEF Flushed, Removed
<1>5. CASE InOutBuffer(me.offset)
  <2>1. /\ out_buffer_bmp' = FALSE
        /\ held' = held \ {me.offset}
        /\ dropped' = dropped \ {me.offset}
        /\ written' = [written EXCEPT ![me.offset] = ZeroPage]
        /\ loaded' = NoLoad
        /\ UNCHANGED <<out_buffer, in_buffer, storage, fetched, push_data>>
        /\ Return(c)
    BY <1>5 DEF InvalidateStart, Forget
  <2>2. /\ before'.in_buffer = in_buffer' /\ before'.trans_page = trans_page'
        /\ before'.fetched = fetched'
        /\ ~Flushed' /\ ~Removed'
        /\ push_data' = NoBuffer /\ BuffersInv' => SmpInv(c)'
    BY <2>1, Returns
  <2>3. BuffersInv'
    BY <1>1, <1>3, <2>1, <2>2 DEF SmpInv, BuffersInv, IsPage
  <2>4. Atomic!InOutBuffer(me.offset)
    BY <1>4, <1>5, SameHost DEF Atomic!InOutBuffer, InOutBuffer, After
  <2>5. Atomic!Forget(me.offset)
    BY <1>3, <1>4, <2>1, <2>2, SameHost DEF Atomic!Forget, After, InKept
  <2>6. Atomic!InvalidateBuffered(me.offset)
    BY <1>1, <1>3, <1>4, <2>1, <2>2, <2>4, <2>5
    DEF Atomic!InvalidateBuffered, After, Atomic!tableVars, tableVars
  <2>7. Atomic!Next
    BY <1>3, <2>6 DEF Atomic!Next
  <2> QED BY <1>3, <2>1, <2>2, <2>3, <2>7
<1>6. CASE ~InOutBuffer(me.offset)
  <2>1. /\ push_data' = [buf |-> "stack", cpu |-> c, offset |-> me.offset]
        /\ cpu' = [cpu EXCEPT ![c].pc = "push", ![c].invalidate_id = id + PAGE_VALID]
        /\ UNCHANGED swapVars
    BY <1>6 DEF InvalidateStart, dpu_prepare_xfer
  <2>2. /\ cpu' = [k \in Cpus |-> cpu'[k]]
        /\ cpu'[c] = [me EXCEPT !.pc = "push", !.invalidate_id = id + PAGE_VALID]
    BY <2>1 DEF SmpInv
  <2>3. /\ IsLocals(cpu'[c])
        /\ cpu'[c].pc = "push" /\ cpu'[c].prog = "none" /\ cpu'[c].op = "invalidate"
        /\ cpu'[c].offset = me.offset /\ cpu'[c].invalidate_id = id + PAGE_VALID
    <3> HIDE DEF id
    <3> QED BY <1>1, <1>3, <2>2 DEF SmpInv, IsLocals
  <2>4. before' = before
    BY <2>3, Running1
  <2>5. BuffersInv'
    BY <1>1, <2>1, <2>4 DEF SmpInv, BuffersInv, IsPage, swapVars
  <2>6. UNCHANGED Atomic!vars
    BY <1>1, <1>4, <2>1, <2>3, <2>4, Running1, Unseen DEF Flushed, Removed, swapVars
  <2>7. InvalidateInv(c, cpu[c])'
    BY <1>1, <1>3, <1>6, <2>1, <2>3, <2>4 DEF InvalidateInv, InKept, InOutBuffer, swapVars
  <2> QED BY <2>2, <2>3, <2>5, <2>6, <2>7 DEF SmpInv
<1> QED BY <1>5, <1>6

(* The program of an invalidation removes the page.                        *)
LEMMA InvalidateMainStep ==
  ASSUME NEW c, Cpus = {c}, SmpInv(c), InvalidateMain(c), Remember
  PROVE  SmpInv(c)' /\ [Atomic!Next]_(Atomic!vars)
<1> DEFINE me == cpu[c]
           id == ID_FROM_OFFSET(me.offset)
<1>1. /\ me.prog = "invalidate" /\ me.pc = "main" /\ cpu' = [cpu EXCEPT ![c].pc = "done"]
      /\ UNCHANGED <<swapVars, push_data, main, wram_heap, wild>>
  BY DEF InvalidateMain, Running, Goto
<1>2. me.op = "invalidate" /\ InvalidateInv(c, me)
  BY <1>1, WhoRuns DEF SmpInv
<1>3. /\ me.offset \in PgOffs \cap held /\ push_data = NoBuffer
      /\ InKept /\ ~InOutBuffer(me.offset)
      /\ trans_page = [before.trans_page EXCEPT !.id = id + PAGE_VALID]
  BY <1>1, <1>2 DEF InvalidateInv
<1>4. trans_page.id = id + PAGE_VALID
  BY <1>3 DEF SmpInv, BuffersInv, IsPage
<1>5. /\ id + PAGE_VALID >= PAGE_VALID
      /\ (id + PAGE_VALID) % PAGE_VALID = id
  <2>1. /\ id \in Nat /\ PAGE_VALID \in Nat
        /\ (id + PAGE_VALID) % PAGE_VALID = id
    BY <1>3, FlagComesOff, SwapSizes
  <2> HIDE DEF id
  <2> QED BY <2>1
<1>6. InvalidateId(id)
  BY <1>4, <1>5 DEF InvalidateMain
<1>7. /\ cpu' = [k \in Cpus |-> cpu'[k]] /\ IsLocals(cpu'[c])
      /\ cpu'[c].pc = "done" /\ cpu'[c].prog = "invalidate" /\ cpu'[c].op = "invalidate"
      /\ cpu'[c].offset = me.offset
      /\ before' = before
  BY <1>1, <1>2, GoesTo
<1>8. BuffersInv'
  BY <1>1, <1>7 DEF SmpInv, BuffersInv, IsPage, swapVars
<1>9. InvalidateInv(c, cpu[c])'
  BY <1>1, <1>3, <1>7 DEF InvalidateInv, InKept, swapVars
<1>10. SmpInv(c)'
  BY <1>7, <1>8, <1>9 DEF SmpInv
<1>11. /\ ~Flushed /\ ~Removed /\ ~Flushed' /\ Removed'
       /\ Me.offset' = me.offset
  BY <1>1, <1>2, <1>7, Running1 DEF Flushed, Removed
<1>12. /\ Atomic!ID_FROM_OFFSET(me.offset) = id
       /\ ~Atomic!InOutBuffer(me.offset)
  BY <1>3, <1>11, SameHost DEF Atomic!InOutBuffer, InOutBuffer, After
<1>13. Atomic!Forget(me.offset)
  BY <1>1, <1>3, <1>7, <1>11, SameHost DEF Atomic!Forget, After, swapVars
<1>14. Atomic!InvalidateId(id)
  BY <1>6, SameInvalidation
<1>15. Atomic!InvalidateOnDpu(me.offset)
  <2> HIDE DEF id
  <2> QED BY <1>1, <1>3, <1>4, <1>5, <1>11, <1>12, <1>13, <1>14
          DEF Atomic!InvalidateOnDpu, After, swapVars
<1>16. Atomic!Next
  BY <1>3, <1>15 DEF Atomic!Next
<1> QED BY <1>10, <1>16

(* The kernel hears of it.                                                 *)
LEMMA InvalidateDoneStep ==
  ASSUME NEW c, Cpus = {c}, SmpInv(c), InvalidateDone(c), Remember
  PROVE  SmpInv(c)' /\ UNCHANGED Atomic!vars
<1> DEFINE me == cpu[c]
<1>1. /\ me.op = "invalidate" /\ me.pc = "done" /\ Return(c)
      /\ held' = held \ {me.offset}
      /\ dropped' = dropped \ {me.offset}
      /\ written' = [written EXCEPT ![me.offset] = ZeroPage]
      /\ loaded' = NoLoad
      /\ UNCHANGED <<out_buffer, in_buffer, storage, fetched>>
      /\ UNCHANGED <<tableVars, out_buffer_bmp, trans_page, push_data, main, wram_heap, wild>>
  BY DEF InvalidateDone, At, Forget
<1>2. InvalidateInv(c, me)
  BY <1>1 DEF SmpInv
<1>3. push_data = NoBuffer /\ InKept
  BY <1>1, <1>2 DEF InvalidateInv
<1>4. /\ before'.in_buffer = in_buffer' /\ before'.trans_page = trans_page'
      /\ before'.fetched = fetched'
      /\ ~Flushed' /\ ~Removed'
      /\ push_data' = NoBuffer /\ BuffersInv' => SmpInv(c)'
  BY <1>1, Returns
<1>5. BuffersInv'
  BY <1>1, <1>3, <1>4 DEF SmpInv, BuffersInv, IsPage
<1>6. ~Flushed /\ Removed /\ Me = me
  BY <1>1, Running1 DEF Flushed, Removed
<1>7. UNCHANGED Atomic!vars
  BY <1>1, <1>3, <1>4, <1>6
  DEF Atomic!vars, Atomic!tableVars, Atomic!swapVars, tableVars, After, InKept
<1> QED BY <1>1, <1>3, <1>4, <1>5, <1>7

(* The kernel calls a handler.                                             *)
LEMMA BeginStep ==
  ASSUME NEW c, Cpus = {c}, SmpInv(c), NEW op \in {"store", "load", "invalidate"},
         NEW offset \in PgOffs, NEW data, op = "store" => data \in Data,
         Begin(c, op, offset, data), Remember
  PROVE  SmpInv(c)' /\ UNCHANGED Atomic!vars
<1> DEFINE me == [Idle EXCEPT !.pc = "start", !.op = op, !.offset = offset, !.data = data]
<1>1. /\ cpu[c].pc = "idle" /\ cpu' = [cpu EXCEPT ![c] = me]
      /\ op = "store" <=> offset \notin held
      /\ op = "store" => Accepted(offset)
      /\ UNCHANGED <<vars, push_data, main, wram_heap, wild>>
  BY DEF Begin
<1>2. cpu[c].op = "none" /\ IdleInv(cpu[c])
  BY <1>1, WhoRuns DEF SmpInv
<1>3. cpu' = [k \in Cpus |-> cpu'[k]] /\ cpu'[c] = me
  BY <1>1 DEF SmpInv
<1>4. /\ IsLocals(cpu'[c])
      /\ cpu'[c].pc = "start" /\ cpu'[c].op = op
      /\ cpu'[c].offset = offset /\ cpu'[c].data = data
      /\ cpu'[c].prog = "none" /\ cpu'[c].ok = FALSE /\ cpu'[c].from = "in"
  <2>1. /\ IsLocals(Idle)
        /\ Idle.prog = "none" /\ Idle.ok = FALSE /\ Idle.from = "in"
    BY DEF Idle, IsLocals
  <2> QED BY <1>3, <2>1 DEF IsLocals
<1> HIDE DEF me
<1>5. before' = before
  BY <1>3, <1>4, Running1
<1>6. BuffersInv'
  BY <1>1, <1>5, BuffersKept DEF SmpInv
<1>7. ~Flushed /\ ~Removed /\ ~Flushed' /\ ~Removed'
  BY <1>1, <1>3, <1>4, Running1 DEF Flushed, Removed
<1>8. UNCHANGED Atomic!vars
  BY <1>1, <1>5, <1>7, Unseen DEF vars, swapVars
<1>9. push_data' = NoBuffer /\ InKept' /\ trans_page' = before'.trans_page /\ held' = held
  BY <1>1, <1>2, <1>5 DEF IdleInv, InKept, vars, swapVars
<1>10. CASE op = "store"
  <2>1. StoreInv(cpu[c])'
    BY <1>1, <1>3, <1>4, <1>9, <1>10 DEF StoreInv, Accepted
  <2> QED BY <1>3, <1>4, <1>6, <1>8, <1>10, <2>1 DEF SmpInv
<1>11. CASE op = "load"
  <2>1. LoadInv(cpu[c])'
    BY <1>1, <1>3, <1>4, <1>9, <1>11 DEF LoadInv
  <2> QED BY <1>3, <1>4, <1>6, <1>8, <1>11, <2>1 DEF SmpInv
<1>12. CASE op = "invalidate"
  <2>1. InvalidateInv(c, cpu[c])'
    BY <1>1, <1>3, <1>4, <1>9, <1>12 DEF InvalidateInv
  <2> QED BY <1>3, <1>4, <1>6, <1>8, <1>12, <2>1 DEF SmpInv
<1> QED BY <1>10, <1>11, <1>12

(* It is told -ENOSPC.                                                     *)
LEMMA RefuseStep ==
  ASSUME NEW c, Cpus = {c}, SmpInv(c), NEW offset \in PgOffs, Refuse(c, offset), Remember
  PROVE  SmpInv(c)' /\ [Atomic!Next]_(Atomic!vars)
<1>1. /\ cpu[c].pc = "idle"
      /\ UNCHANGED <<cpu, push_data, main, wram_heap, wild>>
      /\ offset \notin held /\ ~Accepted(offset) /\ loaded' = NoLoad
      /\ UNCHANGED <<tableVars, out_buffer, out_buffer_bmp, in_buffer, trans_page,
                     storage, held, written, fetched, dropped>>
  BY DEF Refuse, StoreRejected
<1>2. cpu[c].op = "none" /\ IdleInv(cpu[c])
  BY <1>1, WhoRuns DEF SmpInv
<1>3. before' = Now'
  BY <1>1, Running1
<1>4. /\ before'.in_buffer = in_buffer /\ before'.trans_page = trans_page
      /\ before'.fetched = fetched
      /\ before.in_buffer = in_buffer /\ before.trans_page = trans_page
      /\ before.fetched = fetched /\ push_data = NoBuffer
  BY <1>1, <1>2, <1>3 DEF Now, IdleInv, InKept
<1>5. ~Flushed /\ ~Removed /\ ~Flushed' /\ ~Removed'
  BY <1>1, Running1 DEF Flushed, Removed
<1>6. BuffersInv'
  BY <1>1, <1>4 DEF SmpInv, BuffersInv, IsPage
<1>7. IdleInv(cpu[c])'
  BY <1>1, <1>2, <1>4 DEF IdleInv, InKept
<1>8. SmpInv(c)'
  BY <1>1, <1>2, <1>6, <1>7 DEF SmpInv, IsLocals
<1>9. Atomic!StoreRejected(offset)
  BY <1>1, <1>4, <1>5, SameHost DEF Atomic!StoreRejected, After, Atomic!tableVars, tableVars
<1>10. Atomic!Next
  BY <1>9 DEF Atomic!Next
<1> QED BY <1>8, <1>10

(* Every step of the CPU.                                                  *)
LEMMA SmpStep ==
  ASSUME NEW c, Cpus = {c}, SmpInv(c), [SmpNext]_smpVars
  PROVE  SmpInv(c)' /\ [Atomic!Next]_(Atomic!vars)
<1>1. CASE UNCHANGED smpVars
  <2>1. UNCHANGED <<cpu, push_data, main, wram_heap, wild, before, l1, l2, hash_table, stats,
                    owner, faults, out_buffer, out_buffer_bmp, in_buffer, trans_page, storage,
                    held, written, fetched, dropped, loaded>>
    BY <1>1 DEF smpVars, vars, tableVars, swapVars
  <2>2. UNCHANGED Atomic!vars
    BY <2>1 DEF Atomic!vars, Atomic!tableVars, Atomic!swapVars, After, Flushed, Removed, Me
  <2>3. SmpInv(c)'
    <3>1. LzoDecompressMain(ID_FROM_OFFSET(cpu[c].offset))' =
            LzoDecompressMain(ID_FROM_OFFSET(cpu[c].offset))
      BY <2>1 DEF LzoDecompressMain, LookupHit, ReadPage, Intact
    <3>2. IdleInv(cpu[c])' <=> IdleInv(cpu[c])
      BY <2>1 DEF IdleInv, InKept
    <3>3. StoreInv(cpu[c])' <=> StoreInv(cpu[c])
      BY <2>1 DEF StoreInv, InKept
    <3>4. InvalidateInv(c, cpu[c])' <=> InvalidateInv(c, cpu[c])
      BY <2>1 DEF InvalidateInv, InKept, InOutBuffer
    <3>5. Found(cpu[c])' <=> Found(cpu[c])
      BY <2>1, <3>1 DEF Found
    <3>6. MissInv(cpu[c])' <=> MissInv(cpu[c])
      BY <2>1, <3>5 DEF MissInv, OutBufferHit, LookupHit
    <3>7. LoadInv(cpu[c])' <=> LoadInv(cpu[c])
      BY <2>1, <3>6 DEF LoadInv, InKept, OutBufferHit, InBufferHit
    <3>8. BuffersInv' <=> BuffersInv
      BY <2>1 DEF BuffersInv, IsPage
    <3> QED BY <2>1, <3>2, <3>3, <3>4, <3>7, <3>8 DEF SmpInv, IsLocals
  <2> QED BY <2>2, <2>3
<1>2. ASSUME Call(c), Remember PROVE SmpInv(c)' /\ [Atomic!Next]_(Atomic!vars)
  <2>1. PICK offset \in PgOffs :
          \/ Refuse(c, offset)
          \/ \E data \in Data : Begin(c, "store", offset, data)
          \/ \E op \in {"load", "invalidate"} : Begin(c, op, offset, ZeroPage)
    BY <1>2 DEF Call
  <2>2. CASE Refuse(c, offset)
    BY <1>2, <2>2, RefuseStep
  <2>3. ASSUME NEW data \in Data, Begin(c, "store", offset, data)
        PROVE  SmpInv(c)' /\ [Atomic!Next]_(Atomic!vars)
    BY <1>2, <2>3, BeginStep
  <2>4. ASSUME NEW op \in {"load", "invalidate"}, Begin(c, op, offset, ZeroPage)
        PROVE  SmpInv(c)' /\ [Atomic!Next]_(Atomic!vars)
    BY <1>2, <2>4, BeginStep
  <2> QED BY <2>1, <2>2, <2>3, <2>4
<1>3. ASSUME Step(c), Remember PROVE SmpInv(c)' /\ [Atomic!Next]_(Atomic!vars)
  <2>1. CASE Push(c) \/ Send(c) \/ Sent(c) \/ dpu_load(c) \/ dpu_launch(c)
    BY <1>3, <2>1, PushStep, SendStep, SentStep, LoadStep, LaunchStep
  <2>2. CASE CompressReadId(c) \/ DecompressLookup(c) \/ InvalidateMain(c)
    BY <1>3, <2>2, CompressReadIdStep, DecompressLookupStep, InvalidateMainStep
  <2>3. CASE MemAllocAcquire(c) \/ MemAllocRelease(c)
    BY <1>3, <2>3, MemAllocStep
  <2>4. CASE CompressRest(c) \/ DecompressRest(c)
    BY <1>3, <2>4, CompressRestStep, DecompressRestStep
  <2>5. CASE StoreStart(c) \/ StoreDone(c) \/ StoreBack(c) \/ StoreFill(c)
    BY <1>3, <2>5, StoreStartStep, StoreDoneStep, StoreBackStep, StoreFillStep
  <2>6. CASE LoadStart(c) \/ LoadDone(c) \/ LoadBack(c) \/ LoadCopy(c)
    BY <1>3, <2>6, LoadStartStep, LoadDoneStep, LoadBackStep, LoadCopyStep
  <2>7. CASE InvalidateStart(c) \/ InvalidateDone(c)
    BY <1>3, <2>7, InvalidateStartStep, InvalidateDoneStep
  <2>8. CASE Pull(c) \/ Take(c) \/ Taken(c)
    BY <1>3, <2>8, PullStep, TakeStep, TakenStep
  <2> QED BY <1>3, <2>1, <2>2, <2>3, <2>4, <2>5, <2>6, <2>7, <2>8 DEF Step
<1> QED BY <1>1, <1>2, <1>3 DEF SmpNext

(* The back end starts idle.                                               *)
LEMMA SmpStart ==
  ASSUME NEW c, Cpus = {c}, SmpInit
  PROVE  SmpInv(c) /\ Atomic!Init
<1>1. cpu = [k \in Cpus |-> Idle] /\ cpu[c] = Idle /\ push_data = NoBuffer /\ ~wild
  BY DEF SmpInit
<1>2. /\ before.in_buffer = in_buffer /\ before.trans_page = trans_page
      /\ before.fetched = fetched
  BY DEF SmpInit, Now
<1>3. Idle.pc = "idle" /\ Idle.op = "none" /\ IsLocals(Idle)
  BY DEF Idle, IsLocals
<1>4. IdleInv(cpu[c])
  BY <1>1, <1>2 DEF IdleInv, InKept
<1>5. BuffersInv
  BY <1>1, <1>2 DEF SmpInit, Init, BuffersInv, IsPage
<1>6. SmpInv(c)
  BY <1>1, <1>3, <1>4, <1>5 DEF SmpInv
<1>7. ~Flushed /\ ~Removed
  BY <1>1, <1>3, Running1 DEF Flushed, Removed
<1>8. Atomic!TableInit
  BY SameArithmetic DEF SmpInit, Init, TableInit, Atomic!TableInit, Slots, Atomic!Slots
<1>9. Atomic!Init
  BY <1>2, <1>7, <1>8, SameArithmetic, SameHost DEF SmpInit, Init, Atomic!Init, After
<1> QED BY <1>6, <1>9

-----------------------------------------------------------------------------
(* With one CPU the handlers, one SDK call at a time, implement FrontSwap:  *)
(* whatever the SDK keeps from one call to the next, each has the effect of *)
(* one step.                                                               *)
THEOREM HandlersAreAtomic == OneCpu => (SmpSpec => AtomicSpec)
<1> SUFFICES ASSUME NEW c, Cpus = {c} PROVE SmpSpec => AtomicSpec
  BY DEF OneCpu
<1>1. SmpInit => SmpInv(c) /\ Atomic!Init
  BY SmpStart
<1>2. SmpInv(c) /\ [SmpNext]_smpVars => SmpInv(c)' /\ [Atomic!Next]_(Atomic!vars)
  BY SmpStep
<1> QED BY <1>1, <1>2, PTL DEF SmpSpec, AtomicSpec, Atomic!Spec

-----------------------------------------------------------------------------
(* Prepared buffers, with any number of CPUs.  The handlers do send, fill  *)
(* and forget each other's buffers, and may use one that was forgotten     *)
(* since they tested it, but what they leave in push_data is a buffer of a *)
(* handler that is still to come to the end of a transfer.                 *)
AtTransfer == {"push", "send", "sent", "pull", "take", "taken"}

PreparedAlive ==
  push_data # NoBuffer =>
    push_data.cpu \in Cpus /\ cpu[push_data.cpu].pc \in AtTransfer

CpusTyped == cpu = [k \in Cpus |-> cpu[k]] /\ \A k \in Cpus : IsLocals(cpu[k])

(* What a step of c does to a prepared buffer: it is gone, or c prepared   *)
(* it, or it was left alone by a CPU that is not at a transfer or stays    *)
(* there.                                                                  *)
Prepares(c) ==
  \/ push_data' = NoBuffer
  \/ push_data'.cpu = c /\ cpu'[c].pc \in AtTransfer
  \/ push_data' = push_data /\ (cpu[c].pc \in AtTransfer => cpu'[c].pc \in AtTransfer)

OnlyMoves(c) ==
  /\ cpu' = [k \in Cpus |-> cpu'[k]]
  /\ IsLocals(cpu'[c])
  /\ \A k \in Cpus \ {c} : cpu'[k] = cpu[k]

LEMMA GotoMoves ==
  ASSUME CpusTyped, NEW c \in Cpus, NEW pc, Goto(c, pc)
  PROVE  OnlyMoves(c) /\ cpu'[c].pc = pc
<1>1. /\ cpu'[c] = [cpu[c] EXCEPT !.pc = pc] /\ cpu' = [k \in Cpus |-> cpu'[k]]
      /\ \A k \in Cpus \ {c} : cpu'[k] = cpu[k]
  BY DEF CpusTyped, Goto
<1>2. IsLocals(cpu'[c]) /\ cpu'[c].pc = pc
  BY <1>1 DEF CpusTyped, IsLocals
<1> QED BY <1>1, <1>2 DEF OnlyMoves

LEMMA ReturnMoves ==
  ASSUME CpusTyped, NEW c \in Cpus, Return(c)
  PROVE  OnlyMoves(c)
<1>1. /\ cpu'[c] = Idle /\ cpu' = [k \in Cpus |-> cpu'[k]]
      /\ \A k \in Cpus \ {c} : cpu'[k] = cpu[k]
  BY DEF CpusTyped, Return
<1> QED BY <1>1 DEF OnlyMoves, Idle, IsLocals

(* The steps of the SDK and of the programs: only a transfer touches what  *)
(* was prepared.                                                           *)
LEMMA SdkPrepares ==
  ASSUME CpusTyped, NEW c \in Cpus,
         \/ Push(c) \/ Send(c) \/ Sent(c) \/ Pull(c) \/ Take(c) \/ Taken(c)
         \/ dpu_load(c) \/ dpu_launch(c)
         \/ CompressReadId(c) \/ DecompressLookup(c) \/ InvalidateMain(c)
         \/ MemAllocAcquire(c) \/ MemAllocRelease(c)
         \/ CompressRest(c) \/ DecompressRest(c)
  PROVE  OnlyMoves(c) /\ Prepares(c)
<1> USE DEF AtTransfer
<1>1. CASE Send(c) \/ Take(c)
  BY <1>1, GotoMoves DEF Send, Take, Prepares
<1>2. CASE dpu_load(c)
  BY <1>2, GotoMoves DEF dpu_load, Prepares
<1>3. CASE InvalidateMain(c) \/ CompressRest(c)
  BY <1>3, GotoMoves DEF InvalidateMain, CompressRest, Running, Prepares
<1>4. CASE dpu_launch(c)
  <2>1. /\ cpu'[c] = [cpu[c] EXCEPT !.prog = main, !.pc = "main"]
        /\ cpu' = [k \in Cpus |-> cpu'[k]] /\ \A k \in Cpus \ {c} : cpu'[k] = cpu[k]
    BY <1>4 DEF dpu_launch, CpusTyped
  <2>2. IsLocals(cpu'[c])
    BY <2>1 DEF CpusTyped, IsLocals
  <2> QED BY <1>4, <2>1, <2>2 DEF OnlyMoves, Prepares, dpu_launch
<1>5. CASE CompressReadId(c)
  <2>1. CASE trans_page.id >= PAGE_VALID
    <3>1. /\ cpu'[c] = [cpu[c] EXCEPT !.id = trans_page.id, !.pc = "acquire"]
          /\ cpu' = [k \in Cpus |-> cpu'[k]] /\ \A k \in Cpus \ {c} : cpu'[k] = cpu[k]
      BY <1>5, <2>1 DEF CompressReadId, CpusTyped
    <3>2. IsLocals(cpu'[c])
      BY <3>1 DEF CpusTyped, IsLocals
    <3> QED BY <1>5, <3>1, <3>2 DEF OnlyMoves, Prepares, CompressReadId, Running
  <2>2. CASE ~(trans_page.id >= PAGE_VALID)
    BY <1>5, <2>2, GotoMoves DEF CompressReadId, Running, Prepares
  <2> QED BY <2>1, <2>2
<1>6. CASE DecompressLookup(c)
  <2>1. PICK found, pc :
          cpu' = [cpu EXCEPT ![c].id = trans_page.id, ![c].found = found, ![c].pc = pc]
    BY <1>6 DEF DecompressLookup
  <2>2. /\ cpu'[c] = [cpu[c] EXCEPT !.id = trans_page.id, !.found = found, !.pc = pc]
        /\ cpu' = [k \in Cpus |-> cpu'[k]] /\ \A k \in Cpus \ {c} : cpu'[k] = cpu[k]
    BY <2>1 DEF CpusTyped
  <2>3. IsLocals(cpu'[c])
    BY <2>2 DEF CpusTyped, IsLocals
  <2> QED BY <1>6, <2>2, <2>3 DEF OnlyMoves, Prepares, DecompressLookup, Running
<1>7. CASE MemAllocAcquire(c)
  <2>1. /\ cpu'[c] = [cpu[c] EXCEPT !.pointer = wram_heap, !.pc = "release"]
        /\ cpu' = [k \in Cpus |-> cpu'[k]] /\ \A k \in Cpus \ {c} : cpu'[k] = cpu[k]
    BY <1>7 DEF MemAllocAcquire, CpusTyped
  <2>2. IsLocals(cpu'[c])
    BY <2>1 DEF CpusTyped, IsLocals
  <2> QED BY <1>7, <2>1, <2>2 DEF OnlyMoves, Prepares, MemAllocAcquire
<1>8. CASE MemAllocRelease(c)
  <2>1. PICK wram, pc : cpu' = [cpu EXCEPT ![c].wram = wram, ![c].pc = pc]
    BY <1>8 DEF MemAllocRelease
  <2>2. /\ cpu'[c] = [cpu[c] EXCEPT !.wram = wram, !.pc = pc]
        /\ cpu' = [k \in Cpus |-> cpu'[k]] /\ \A k \in Cpus \ {c} : cpu'[k] = cpu[k]
    BY <2>1 DEF CpusTyped
  <2>3. IsLocals(cpu'[c])
    BY <2>2 DEF CpusTyped, IsLocals
  <2> QED BY <1>8, <2>2, <2>3 DEF OnlyMoves, Prepares, MemAllocRelease
<1>9. CASE DecompressRest(c)
  <2>1. PICK ok : cpu' = [cpu EXCEPT ![c].ok = ok, ![c].pc = "done"]
    BY <1>9 DEF DecompressRest
  <2>2. /\ cpu'[c] = [cpu[c] EXCEPT !.ok = ok, !.pc = "done"]
        /\ cpu' = [k \in Cpus |-> cpu'[k]] /\ \A k \in Cpus \ {c} : cpu'[k] = cpu[k]
    BY <2>1 DEF CpusTyped
  <2>3. IsLocals(cpu'[c])
    BY <2>2 DEF CpusTyped, IsLocals
  <2> QED BY <1>9, <2>2, <2>3 DEF OnlyMoves, Prepares, DecompressRest, Running
<1>10. CASE Push(c) \/ Pull(c)
  <2>1. PICK pc : /\ cpu' = [cpu EXCEPT ![c].buffer = push_data, ![c].pc = pc]
                  /\ push_data = NoBuffer \/ pc \in {"send", "take"}
    BY <1>10 DEF Push, Pull, TestBuffer
  <2>2. /\ cpu'[c] = [cpu[c] EXCEPT !.buffer = push_data, !.pc = pc]
        /\ cpu' = [k \in Cpus |-> cpu'[k]] /\ \A k \in Cpus \ {c} : cpu'[k] = cpu[k]
    BY <2>1 DEF CpusTyped
  <2>3. IsLocals(cpu'[c]) /\ cpu'[c].pc = pc
    BY <2>2 DEF CpusTyped, IsLocals
  <2> QED BY <1>10, <2>1, <2>2, <2>3 DEF OnlyMoves, Prepares, Push, Pull
<1>11. CASE Sent(c) \/ Taken(c)
  <2>1. PICK pc : /\ cpu' = [cpu EXCEPT ![c].buffer = NoBuffer, ![c].pc = pc]
                  /\ push_data' = NoBuffer
    BY <1>11 DEF Sent, Taken, ClearBuffer
  <2>2. /\ cpu'[c] = [cpu[c] EXCEPT !.buffer = NoBuffer, !.pc = pc]
        /\ cpu' = [k \in Cpus |-> cpu'[k]] /\ \A k \in Cpus \ {c} : cpu'[k] = cpu[k]
    BY <2>1 DEF CpusTyped
  <2>3. IsLocals(cpu'[c])
    BY <2>2 DEF CpusTyped, IsLocals
  <2> QED BY <2>1, <2>2, <2>3 DEF OnlyMoves, Prepares
<1> QED BY <1>1, <1>2, <1>3, <1>4, <1>5, <1>6, <1>7, <1>8, <1>9, <1>10, <1>11

(* The steps of the handlers: who prepares a buffer goes to its transfer.  *)
LEMMA HandlerPrepares ==
  ASSUME CpusTyped, NEW c \in Cpus,
         \/ StoreStart(c) \/ StoreDone(c) \/ StoreBack(c) \/ StoreFill(c)
         \/ LoadStart(c) \/ LoadDone(c) \/ LoadBack(c) \/ LoadCopy(c)
         \/ InvalidateStart(c) \/ InvalidateDone(c)
  PROVE  OnlyMoves(c) /\ Prepares(c)
<1> USE DEF AtTransfer
<1>1. CASE StoreStart(c)
  BY <1>1, GotoMoves DEF StoreStart, At, dpu_prepare_xfer, Prepares
<1>2. CASE StoreDone(c) \/ StoreBack(c)
  BY <1>2, GotoMoves DEF StoreDone, StoreBack, At, Prepares
<1>3. CASE StoreFill(c) \/ LoadCopy(c) \/ InvalidateDone(c)
  BY <1>3, ReturnMoves DEF StoreFill, LoadCopy, InvalidateDone, At, Prepares
<1>4. CASE LoadDone(c)
  BY <1>4, GotoMoves DEF LoadDone, dpu_prepare_xfer, Prepares
<1>5. CASE LoadBack(c)
  BY <1>5, GotoMoves, ReturnMoves DEF LoadBack, At, Prepares
<1>6. CASE LoadStart(c)
  <2> DEFINE id == ID_FROM_OFFSET(cpu[c].offset)
  <2>1. CASE OutBufferHit(id) \/ InBufferHit(id)
    <3>1. PICK from : cpu' = [cpu EXCEPT ![c].pc = "copy", ![c].from = from]
      BY <1>6, <2>1 DEF LoadStart
    <3>2. /\ cpu'[c] = [cpu[c] EXCEPT !.pc = "copy", !.from = from]
          /\ cpu' = [k \in Cpus |-> cpu'[k]] /\ \A k \in Cpus \ {c} : cpu'[k] = cpu[k]
      BY <3>1 DEF CpusTyped
    <3>3. IsLocals(cpu'[c])
      BY <3>2 DEF CpusTyped, IsLocals
    <3> QED BY <1>6, <2>1, <3>2, <3>3 DEF OnlyMoves, Prepares, LoadStart, At
  <2>2. CASE ~(OutBufferHit(id) \/ InBufferHit(id))
    BY <1>6, <2>2, GotoMoves DEF LoadStart, dpu_prepare_xfer, Prepares
  <2> QED BY <2>1, <2>2
<1>7. CASE InvalidateStart(c)
  <2>1. CASE InOutBuffer(cpu[c].offset)
    BY <1>7, <2>1, ReturnMoves DEF InvalidateStart, At, Prepares
  <2>2. CASE ~InOutBuffer(cpu[c].offset)
    <3>1. PICK id : /\ cpu' = [cpu EXCEPT ![c].pc = "push", ![c].invalidate_id = id]
                    /\ push_data'.cpu = c
      BY <1>7, <2>2 DEF InvalidateStart, dpu_prepare_xfer
    <3>2. /\ cpu'[c] = [cpu[c] EXCEPT !.pc = "push", !.invalidate_id = id]
          /\ cpu' = [k \in Cpus |-> cpu'[k]] /\ \A k \in Cpus \ {c} : cpu'[k] = cpu[k]
      BY <3>1 DEF CpusTyped
    <3>3. IsLocals(cpu'[c]) /\ cpu'[c].pc = "push"
      BY <3>2 DEF CpusTyped, IsLocals
    <3> QED BY <3>1, <3>2, <3>3 DEF OnlyMoves, Prepares
  <2> QED BY <2>1, <2>2
<1> QED BY <1>1, <1>2, <1>3, <1>4, <1>5, <1>6, <1>7

(* A handler begins idle, which is not at a transfer.                      *)
LEMMA CallPrepares ==
  ASSUME CpusTyped, NEW c \in Cpus, Call(c)
  PROVE  (OnlyMoves(c) /\ Prepares(c)) \/ UNCHANGED <<cpu, push_data>>
<1>1. CASE \E offset \in PgOffs : Refuse(c, offset)
  BY <1>1 DEF Refuse
<1>2. ASSUME NEW op, NEW offset, NEW data, Begin(c, op, offset, data)
      PROVE  OnlyMoves(c) /\ Prepares(c)
  <2>1. /\ cpu'[c] = [Idle EXCEPT !.pc = "start", !.op = op, !.offset = offset, !.data = data]
        /\ cpu' = [k \in Cpus |-> cpu'[k]] /\ \A k \in Cpus \ {c} : cpu'[k] = cpu[k]
    BY <1>2 DEF Begin, CpusTyped
  <2>2. IsLocals(cpu'[c])
    BY <2>1 DEF Idle, IsLocals
  <2> QED BY <1>2, <2>1, <2>2 DEF OnlyMoves, Prepares, Begin, AtTransfer
<1> QED BY <1>1, <1>2 DEF Call

LEMMA PreparedStep ==
  CpusTyped /\ PreparedAlive /\ [SmpNext]_smpVars => CpusTyped' /\ PreparedAlive'
<1> SUFFICES ASSUME CpusTyped, PreparedAlive, [SmpNext]_smpVars
             PROVE  CpusTyped' /\ PreparedAlive'
  OBVIOUS
<1>1. CASE UNCHANGED <<cpu, push_data>>
  BY <1>1 DEF CpusTyped, IsLocals, PreparedAlive, NoBuffer
<1>2. ASSUME NEW c \in Cpus, OnlyMoves(c), Prepares(c)
      PROVE  CpusTyped' /\ PreparedAlive'
  <2>1. CpusTyped'
    <3>1. ASSUME NEW k \in Cpus PROVE IsLocals(cpu'[k])
      <4>1. CASE k = c
        BY <1>2, <4>1 DEF OnlyMoves
      <4>2. CASE k # c
        BY <1>2, <4>2 DEF OnlyMoves, CpusTyped
      <4> QED BY <4>1, <4>2
    <3> QED BY <1>2, <3>1 DEF OnlyMoves, CpusTyped, IsLocals
  <2>2. PreparedAlive'
    BY <1>2 DEF OnlyMoves, Prepares, PreparedAlive, NoBuffer
  <2> QED BY <2>1, <2>2
<1>3. ASSUME NEW c \in Cpus, Step(c)
      PROVE  OnlyMoves(c) /\ Prepares(c)
  BY <1>3, SdkPrepares, HandlerPrepares DEF Step
<1>4. CASE UNCHANGED smpVars
  BY <1>1, <1>4 DEF smpVars
<1>5. CASE SmpNext
  BY <1>1, <1>2, <1>3, <1>5, CallPrepares DEF SmpNext
<1> QED BY <1>4, <1>5

(* With any number of CPUs no buffer is left prepared when all handlers    *)
(* have returned, whatever order the steps of their transfers came in, as  *)
(* long as none of them was wild.  What a transfer uses is another matter. *)
THEOREM NothingStaysPrepared == SmpSpec => []NothingPrepared
<1>1. SmpInit => CpusTyped /\ PreparedAlive
  <2> SUFFICES ASSUME SmpInit PROVE CpusTyped /\ PreparedAlive
    OBVIOUS
  <2>1. cpu = [k \in Cpus |-> Idle] /\ push_data = NoBuffer
    BY DEF SmpInit
  <2>2. IsLocals(Idle)
    BY DEF Idle, IsLocals
  <2> QED BY <2>1, <2>2 DEF CpusTyped, PreparedAlive
<1>2. PreparedAlive => NothingPrepared
  BY DEF PreparedAlive, NothingPrepared, AtTransfer
<1> QED BY <1>1, <1>2, PreparedStep, PTL DEF SmpSpec

-----------------------------------------------------------------------------
(* The WRAM pages that a handler has when it is at pc.                     *)
WramInv(me) ==
  /\ me.pc \in {"idle", "start", "push", "send", "sent", "load", "launch"} => me.wram = <<>>
  /\ me.pc = "main" => me.wram = <<>> /\ wram_heap = 0
  /\ me.pc = "acquire" => \/ me.wram = <<>> /\ wram_heap = 0
                          \/ me.wram = <<0>> /\ wram_heap = 1
  /\ me.pc = "release" => \/ me.wram = <<>> /\ me.pointer = 0
                          \/ me.wram = <<0>> /\ me.pointer = 1
  /\ me.pc = "rest" => me.wram = <<0, 1>>

(* The launch resets the heap pointer, and each mem_alloc moves it on.     *)
LEMMA WramStep ==
  ASSUME NEW c, Cpus = {c}, SmpInv(c), WramInv(cpu[c]), [SmpNext]_smpVars
  PROVE  WramInv(cpu[c])'
<1> DEFINE me == cpu[c]
<1>1. CASE UNCHANGED smpVars
  BY <1>1 DEF smpVars, WramInv
<1>2. ASSUME Return(c) PROVE WramInv(cpu[c])'
  <2>1. cpu'[c] = Idle
    BY <1>2 DEF Return, SmpInv
  <2> QED BY <2>1 DEF Idle, WramInv
<1>3. ASSUME NEW buffer, NEW pc \in {"load", "launch", "push", "send", "sent", "fill", "copy",
                                     "pull", "take", "taken", "back", "done"},
             \/ Goto(c, pc)
             \/ cpu' = [cpu EXCEPT ![c].buffer = buffer, ![c].pc = pc],
             me.wram = <<>> \/ pc \notin {"load", "launch", "push", "send", "sent"}
      PROVE  WramInv(cpu[c])'
  <2>1. \/ cpu'[c] = [me EXCEPT !.pc = pc]
        \/ cpu'[c] = [me EXCEPT !.buffer = buffer, !.pc = pc]
    BY <1>3 DEF Goto, SmpInv
  <2>2. cpu'[c].pc = pc /\ cpu'[c].wram = me.wram
    BY <2>1 DEF SmpInv, IsLocals
  <2> QED BY <1>3, <2>2 DEF WramInv
<1>4. ASSUME Call(c) PROVE WramInv(cpu[c])'
  <2>1. PICK offset \in PgOffs :
          \/ cpu' = cpu /\ me.pc = "idle"
          \/ \E op, data :
               cpu' = [cpu EXCEPT ![c] =
                         [Idle EXCEPT !.pc = "start", !.op = op, !.offset = offset, !.data = data]]
    BY <1>4 DEF Call, Refuse, Begin
  <2>2. CASE cpu' = cpu /\ me.pc = "idle"
    BY <2>2 DEF WramInv
  <2>3. ASSUME NEW op, NEW data,
               cpu' = [cpu EXCEPT ![c] =
                         [Idle EXCEPT !.pc = "start", !.op = op, !.offset = offset, !.data = data]]
        PROVE  WramInv(cpu[c])'
    <3>1. cpu'[c] = [Idle EXCEPT !.pc = "start", !.op = op, !.offset = offset, !.data = data]
      BY <2>3 DEF SmpInv
    <3>2. cpu'[c].pc = "start" /\ cpu'[c].wram = <<>>
      BY <3>1 DEF Idle
    <3> QED BY <3>2 DEF WramInv
  <2> QED BY <2>1, <2>2, <2>3
<1>5. CASE Push(c) \/ Send(c) \/ Sent(c) \/ dpu_load(c)
  BY <1>3, <1>5 DEF Push, TestBuffer, Send, Sent, dpu_load, WramInv
<1>6. CASE dpu_launch(c)
  <2>1. cpu'[c] = [me EXCEPT !.prog = main, !.pc = "main"] /\ wram_heap' = 0
    BY <1>6 DEF dpu_launch, SmpInv
  <2>2. cpu'[c].pc = "main" /\ cpu'[c].wram = me.wram
    BY <2>1 DEF SmpInv, IsLocals
  <2> QED BY <1>6, <2>1, <2>2 DEF dpu_launch, WramInv
<1>7. CASE CompressReadId(c)
  <2>1. me.pc = "main" /\ wram_heap' = wram_heap
    BY <1>7 DEF CompressReadId, Running
  <2>2. CASE trans_page.id >= PAGE_VALID
    <3>1. cpu'[c] = [me EXCEPT !.id = trans_page.id, !.pc = "acquire"]
      BY <1>7, <2>2 DEF CompressReadId, SmpInv
    <3>2. cpu'[c].pc = "acquire" /\ cpu'[c].wram = me.wram
      BY <3>1 DEF SmpInv, IsLocals
    <3> QED BY <2>1, <3>2 DEF WramInv
  <2>3. CASE ~(trans_page.id >= PAGE_VALID)
    BY <1>3, <1>7, <2>3 DEF CompressReadId
  <2> QED BY <2>2, <2>3
<1>8. CASE DecompressLookup(c)
  <2> DEFINE id == trans_page.id
             found == IF LookupHit(id) THEN hash_table[EntryIndex(id)] ELSE NoEntry
             pc == IF LookupHit(id) THEN "acquire" ELSE "done"
  <2>1. me.pc = "main" /\ wram_heap' = wram_heap
    BY <1>8 DEF DecompressLookup, Running
  <2>2. pc \in {"acquire", "done"}
    OBVIOUS
  <2>3. cpu'[c] = [me EXCEPT !.id = id, !.found = found, !.pc = pc]
    BY <1>8 DEF DecompressLookup, SmpInv
  <2> HIDE DEF id, found, pc
  <2>4. cpu'[c].pc = pc /\ cpu'[c].wram = me.wram
    BY <2>3 DEF SmpInv, IsLocals
  <2> QED BY <2>1, <2>2, <2>4 DEF WramInv
<1>9. CASE MemAllocAcquire(c)
  <2>1. /\ me.pc = "acquire" /\ wram_heap' = wram_heap
        /\ cpu'[c] = [me EXCEPT !.pointer = wram_heap, !.pc = "release"]
    BY <1>9 DEF MemAllocAcquire, vars, SmpInv
  <2>2. cpu'[c].pc = "release" /\ cpu'[c].wram = me.wram /\ cpu'[c].pointer = wram_heap
    BY <2>1 DEF SmpInv, IsLocals
  <2> QED BY <2>1, <2>2 DEF WramInv
<1>10. CASE MemAllocRelease(c)
  <2> DEFINE wram == Append(me.wram, me.pointer)
             pc == IF Len(me.wram) = 1 THEN "rest" ELSE "acquire"
  <2>1. /\ me.pc = "release" /\ wram_heap' = me.pointer + 1
        /\ cpu'[c] = [me EXCEPT !.wram = wram, !.pc = pc]
    BY <1>10 DEF MemAllocRelease, SmpInv
  <2>2. cpu'[c].pc = pc /\ cpu'[c].wram = wram
    <3> HIDE DEF wram, pc
    <3> QED BY <2>1 DEF SmpInv, IsLocals
  <2>3. CASE me.wram = <<>> /\ me.pointer = 0
    <3>1. wram = <<0>> /\ pc = "acquire" /\ wram_heap' = 1
      BY <2>1, <2>3
    <3> QED BY <2>2, <3>1 DEF WramInv
  <2>4. CASE me.wram = <<0>> /\ me.pointer = 1
    <3>1. wram = <<0, 1>> /\ pc = "rest"
      <4>1. <<0>> \in Seq(Nat) /\ Len(<<0>>) = 1
        OBVIOUS
      <4>2. wram \in Seq(Nat) /\ Len(wram) = 2 /\ wram[1] = 0 /\ wram[2] = 1 /\ pc = "rest"
        BY <2>4, <4>1
      <4> HIDE DEF wram, pc
      <4> QED BY <4>2
    <3> QED BY <2>2, <3>1 DEF WramInv
  <2> QED BY <2>1, <2>3, <2>4 DEF WramInv
<1>11. CASE CompressRest(c) \/ InvalidateMain(c)
  BY <1>3, <1>11 DEF CompressRest, InvalidateMain
<1>12. CASE DecompressRest(c)
  <2>1. PICK page : cpu'[c] = [me EXCEPT !.ok = (page # Failed), !.pc = "done"]
    BY <1>12 DEF DecompressRest, SmpInv
  <2>2. cpu'[c].pc = "done"
    BY <2>1 DEF SmpInv, IsLocals
  <2> QED BY <2>2 DEF WramInv
<1>13. CASE StoreStart(c) \/ StoreDone(c) \/ StoreBack(c) \/ StoreFill(c)
  BY <1>2, <1>3, <1>13 DEF StoreStart, StoreDone, StoreBack, StoreFill, At, WramInv
<1>14. CASE LoadStart(c)
  <2> DEFINE id == ID_FROM_OFFSET(me.offset)
  <2>1. me.pc = "start"
    BY <1>14 DEF LoadStart, At
  <2>2. CASE OutBufferHit(id) \/ InBufferHit(id)
    <3>1. PICK from : cpu'[c] = [me EXCEPT !.pc = "copy", !.from = from]
      BY <1>14, <2>2 DEF LoadStart, SmpInv
    <3>2. cpu'[c].pc = "copy"
      BY <3>1 DEF SmpInv, IsLocals
    <3> QED BY <3>2 DEF WramInv
  <2>3. CASE ~(OutBufferHit(id) \/ InBufferHit(id))
    BY <1>3, <1>14, <2>1, <2>3 DEF LoadStart, WramInv
  <2> QED BY <2>2, <2>3
<1>15. CASE LoadDone(c) \/ LoadBack(c) \/ LoadCopy(c)
  BY <1>2, <1>3, <1>15 DEF LoadDone, LoadBack, LoadCopy
<1>16. CASE InvalidateStart(c)
  <2>1. CASE InOutBuffer(me.offset)
    BY <1>2, <1>16, <2>1 DEF InvalidateStart
  <2>2. CASE ~InOutBuffer(me.offset)
    <3>1. PICK id : cpu'[c] = [me EXCEPT !.pc = "push", !.invalidate_id = id]
      BY <1>16, <2>2 DEF InvalidateStart, SmpInv
    <3>2. me.pc = "start" /\ cpu'[c].pc = "push" /\ cpu'[c].wram = me.wram
      BY <1>16, <3>1 DEF InvalidateStart, At, SmpInv, IsLocals
    <3> QED BY <3>2 DEF WramInv
  <2> QED BY <2>1, <2>2
<1>17. CASE InvalidateDone(c)
  BY <1>2, <1>17 DEF InvalidateDone
<1>18. CASE Pull(c) \/ Take(c) \/ Taken(c)
  BY <1>3, <1>18 DEF Pull, TestBuffer, Take, Taken
<1> QED
  BY <1>1, <1>4, <1>5, <1>6, <1>7, <1>8, <1>9, <1>10, <1>11, <1>12, <1>13, <1>14, <1>15,
     <1>16, <1>17, <1>18 DEF SmpNext, Step

(* With one CPU two pages of WRAM are enough, however many handlers ran:   *)
(* mem_alloc, which never looks at the size of WRAM, gives each program    *)
(* two different pages that lie in it.                                     *)
THEOREM WramAlwaysSuffices ==
  OneCpu /\ WRAM_PAGES >= 2 => (SmpSpec => []WramSuffices)
<1> SUFFICES ASSUME NEW c, Cpus = {c}, WRAM_PAGES >= 2 PROVE SmpSpec => []WramSuffices
  BY DEF OneCpu
<1>1. SmpInit => SmpInv(c) /\ WramInv(cpu[c])
  <2>1. SmpInit => cpu[c] = Idle
    BY DEF SmpInit
  <2>2. cpu[c] = Idle => WramInv(cpu[c])
    BY DEF Idle, WramInv
  <2> QED BY <2>1, <2>2, SmpStart
<1>2. SmpInv(c) /\ WramInv(cpu[c]) /\ [SmpNext]_smpVars => SmpInv(c)' /\ WramInv(cpu[c])'
  BY SmpStep, WramStep
<1>3. WramInv(cpu[c]) => WramSuffices
  <2> SUFFICES ASSUME WramInv(cpu[c]), cpu[c].pc = "rest"
               PROVE  /\ cpu[c].wram[1] # cpu[c].wram[2]
                      /\ Range(cpu[c].wram) \subseteq 0 .. WRAM_PAGES - 1
    BY DEF WramSuffices
  <2>1. cpu[c].wram = <<0, 1>>
    BY DEF WramInv
  <2>2. Range(cpu[c].wram) = {0, 1}
    BY <2>1 DEF Range
  <2> QED BY <2>1, <2>2, SmpAssumption
<1> QED BY <1>1, <1>2, <1>3, PTL DEF SmpSpec

-----------------------------------------------------------------------------
(* With one CPU the id that the program of a load reads is the one that    *)
(* its load is for; with two another handler's transfer can replace it.    *)

(* No step but the lookup changes what a program has read.                 *)
LEMMA ReadStays ==
  ASSUME NEW c, Cpus = {c}, SmpInv(c), Call(c) \/ Step(c), ~DecompressLookup(c),
         cpu'[c].op = "load", cpu'[c].prog = "decompress", cpu'[c].pc # "main"
  PROVE  /\ cpu[c].op = "load" /\ cpu[c].prog = "decompress" /\ cpu[c].pc # "main"
         /\ cpu'[c].id = cpu[c].id /\ cpu'[c].offset = cpu[c].offset
<1> DEFINE me == cpu[c]
<1>1. IsLocals(me) /\ cpu = [k \in Cpus |-> cpu[k]]
  BY DEF SmpInv
<1>2. Idle.op = "none" /\ Idle.prog = "none"
  BY DEF Idle
<1>3. ASSUME NEW buffer, NEW pc,
             \/ Goto(c, pc)
             \/ cpu' = [cpu EXCEPT ![c].buffer = buffer, ![c].pc = pc],
             me.pc # "main" \/ me.prog # "decompress"
      PROVE  /\ me.op = "load" /\ me.prog = "decompress" /\ me.pc # "main"
             /\ cpu'[c].id = me.id /\ cpu'[c].offset = me.offset
  <2>1. \/ cpu'[c] = [me EXCEPT !.pc = pc]
        \/ cpu'[c] = [me EXCEPT !.buffer = buffer, !.pc = pc]
    BY <1>1, <1>3 DEF Goto
  <2>2. /\ cpu'[c].op = me.op /\ cpu'[c].prog = me.prog
        /\ cpu'[c].id = me.id /\ cpu'[c].offset = me.offset
    BY <1>1, <2>1 DEF IsLocals
  <2> QED BY <1>3, <2>2
<1>4. ~Return(c)
  <2>1. Return(c) => cpu'[c] = Idle
    BY <1>1 DEF Return
  <2> QED BY <1>2, <2>1
<1>5. ~dpu_launch(c)
  <2>1. dpu_launch(c) => cpu'[c] = [me EXCEPT !.prog = main, !.pc = "main"]
    BY <1>1 DEF dpu_launch
  <2>2. [me EXCEPT !.prog = main, !.pc = "main"].pc = "main"
    BY <1>1 DEF IsLocals
  <2> QED BY <2>1, <2>2
<1>6. ~Call(c)
  <2>1. ASSUME NEW op, NEW offset, NEW data, Begin(c, op, offset, data)
        PROVE  FALSE
    <3>1. cpu'[c] = [Idle EXCEPT !.pc = "start", !.op = op, !.offset = offset, !.data = data]
      BY <1>1, <2>1 DEF Begin
    <3>2. cpu'[c].prog = "none"
      BY <3>1 DEF Idle
    <3> QED BY <3>2
  <2>2. ASSUME NEW offset, Refuse(c, offset)
        PROVE  FALSE
    <3>1. me.pc = "idle" /\ cpu' = cpu
      BY <2>2 DEF Refuse
    <3>2. me.op = "none"
      BY <3>1, WhoRuns
    <3> QED BY <3>1, <3>2
  <2> QED BY <2>1, <2>2 DEF Call
<1>7. CASE \/ Push(c) \/ Send(c) \/ Sent(c) \/ Pull(c) \/ Take(c) \/ Taken(c)
           \/ dpu_load(c) \/ InvalidateMain(c) \/ CompressRest(c)
           \/ StoreDone(c) \/ StoreBack(c) \/ LoadDone(c)
  BY <1>3, <1>7 DEF Push, Send, Sent, Pull, Take, Taken, TestBuffer, dpu_load,
     InvalidateMain, CompressRest, StoreDone, StoreBack, LoadDone, At, Running
<1>8. CASE StoreStart(c) \/ LoadBack(c)
  BY <1>3, <1>4, <1>8 DEF StoreStart, LoadBack, At
<1>9. CASE StoreFill(c) \/ LoadCopy(c) \/ InvalidateDone(c)
  BY <1>4, <1>9 DEF StoreFill, LoadCopy, InvalidateDone
<1>10. CASE CompressReadId(c)
  <2>1. me.op = "store"
    BY <1>10, WhoRuns DEF CompressReadId, Running
  <2>2. PICK id, pc : cpu' = [cpu EXCEPT ![c].id = id, ![c].pc = pc] \/ Goto(c, pc)
    BY <1>10 DEF CompressReadId
  <2>3. cpu'[c] = [me EXCEPT !.id = id, !.pc = pc] \/ cpu'[c] = [me EXCEPT !.pc = pc]
    BY <1>1, <2>2 DEF Goto
  <2>4. cpu'[c].op = me.op
    BY <1>1, <2>3 DEF IsLocals
  <2> QED BY <2>1, <2>4
<1>11. CASE MemAllocAcquire(c)
  <2>1. me.pc = "acquire" /\ cpu'[c] = [me EXCEPT !.pointer = wram_heap, !.pc = "release"]
    BY <1>1, <1>11 DEF MemAllocAcquire
  <2> QED BY <1>1, <2>1 DEF IsLocals
<1>12. CASE MemAllocRelease(c)
  <2>1. PICK wram, pc : cpu' = [cpu EXCEPT ![c].wram = wram, ![c].pc = pc]
    BY <1>12 DEF MemAllocRelease
  <2>2. me.pc = "release" /\ cpu'[c] = [me EXCEPT !.wram = wram, !.pc = pc]
    BY <1>1, <1>12, <2>1 DEF MemAllocRelease
  <2> QED BY <1>1, <2>2 DEF IsLocals
<1>13. CASE DecompressRest(c)
  <2>1. PICK ok : cpu' = [cpu EXCEPT ![c].ok = ok, ![c].pc = "done"]
    BY <1>13 DEF DecompressRest
  <2>2. me.pc = "rest" /\ cpu'[c] = [me EXCEPT !.ok = ok, !.pc = "done"]
    BY <1>1, <1>13, <2>1 DEF DecompressRest, Running
  <2> QED BY <1>1, <2>2 DEF IsLocals
<1>14. CASE LoadStart(c)
  <2>1. PICK from, pc : cpu' = [cpu EXCEPT ![c].pc = pc, ![c].from = from] \/ Goto(c, pc)
    BY <1>14 DEF LoadStart
  <2>2. cpu'[c] = [me EXCEPT !.pc = pc, !.from = from] \/ cpu'[c] = [me EXCEPT !.pc = pc]
    BY <1>1, <2>1 DEF Goto
  <2>3. me.pc = "start" /\ cpu'[c].prog = me.prog /\ cpu'[c].op = me.op
        /\ cpu'[c].id = me.id /\ cpu'[c].offset = me.offset
    BY <1>1, <1>14, <2>2 DEF IsLocals, LoadStart, At
  <2> QED BY <2>3
<1>15. CASE InvalidateStart(c)
  <2>1. PICK id : Return(c) \/ cpu' = [cpu EXCEPT ![c].pc = "push", ![c].invalidate_id = id]
    BY <1>15 DEF InvalidateStart
  <2>2. cpu'[c] = [me EXCEPT !.pc = "push", !.invalidate_id = id]
    BY <1>1, <1>4, <2>1
  <2>3. me.op = "invalidate" /\ cpu'[c].op = me.op
    BY <1>1, <1>15, <2>2 DEF IsLocals, InvalidateStart, At
  <2> QED BY <2>3
<1> QED
  BY <1>5, <1>6, <1>7, <1>8, <1>9, <1>10, <1>11, <1>12, <1>13, <1>14, <1>15 DEF Step

LEMMA OwnStep ==
  ASSUME NEW c, Cpus = {c}, SmpInv(c), LooksForItsOwn, [SmpNext]_smpVars
  PROVE  LooksForItsOwn'
<1>1. CASE UNCHANGED smpVars
  BY <1>1 DEF smpVars, LooksForItsOwn
<1>2. CASE DecompressLookup(c)
  <2>1. trans_page.id = ID_FROM_OFFSET(cpu[c].offset)
    <3>1. cpu[c].prog = "decompress" /\ cpu[c].pc = "main"
      BY <1>2 DEF DecompressLookup, Running
    <3>2. trans_page = [data |-> before.trans_page.data,
                        id   |-> ID_FROM_OFFSET(cpu[c].offset)]
      BY <3>1, Asked
    <3> QED BY <3>2
  <2>2. PICK found, pc :
          cpu' = [cpu EXCEPT ![c].id = trans_page.id, ![c].found = found, ![c].pc = pc]
    BY <1>2 DEF DecompressLookup
  <2>3. cpu'[c] = [cpu[c] EXCEPT !.id = trans_page.id, !.found = found, !.pc = pc]
    BY <2>2 DEF SmpInv
  <2>4. cpu'[c].id = ID_FROM_OFFSET(cpu[c].offset) /\ cpu'[c].offset = cpu[c].offset
    BY <2>1, <2>3 DEF SmpInv, IsLocals
  <2> QED BY <2>4 DEF LooksForItsOwn
<1>3. ASSUME Call(c) \/ Step(c), ~DecompressLookup(c),
             cpu'[c].op = "load", cpu'[c].prog = "decompress", cpu'[c].pc # "main"
      PROVE  cpu'[c].id = ID_FROM_OFFSET(cpu'[c].offset)
  BY <1>3, ReadStays DEF LooksForItsOwn
<1> QED BY <1>1, <1>2, <1>3 DEF SmpNext, LooksForItsOwn

(* "set the page id that we are looking for" holds of handlers that run    *)
(* one at a time, although programs and transfers share one place for ids. *)
THEOREM AloneLooksForItsOwn == OneCpu => (SmpSpec => []LooksForItsOwn)
<1> SUFFICES ASSUME NEW c, Cpus = {c} PROVE SmpSpec => []LooksForItsOwn
  BY DEF OneCpu
<1>1. SmpInit => SmpInv(c) /\ LooksForItsOwn
  <2>1. SmpInit => cpu[c] = Idle
    BY DEF SmpInit
  <2>2. cpu[c] = Idle => LooksForItsOwn
    BY DEF Idle, LooksForItsOwn
  <2> QED BY <2>1, <2>2, SmpStart
<1>2. SmpInv(c) /\ LooksForItsOwn /\ [SmpNext]_smpVars => SmpInv(c)' /\ LooksForItsOwn'
  BY SmpStep, OwnStep
<1> QED BY <1>1, <1>2, PTL DEF SmpSpec

-----------------------------------------------------------------------------
(* What was proved of FrontSwap, of the handlers one SDK call at a time.   *)

Proved == INSTANCE FrontSwapProofs WITH
  out_buffer     <- After([data |-> Me.data, id |-> ID_FROM_OFFSET(Me.offset) + PAGE_VALID],
                          out_buffer, out_buffer),
  out_buffer_bmp <- After(TRUE, out_buffer_bmp, out_buffer_bmp),
  in_buffer      <- before.in_buffer,
  trans_page     <- After(trans_page, trans_page, before.trans_page),
  held           <- After(held \cup {Me.offset}, held \ {Me.offset}, held),
  written        <- After([written EXCEPT ![Me.offset] = Me.data],
                          [written EXCEPT ![Me.offset] = ZeroPage], written),
  fetched        <- before.fetched,
  dropped        <- After(dropped, dropped \ {Me.offset}, dropped),
  loaded         <- After(NoLoad, NoLoad, loaded)

(* The theorems of the instance are about its own copy of FrontSwap, which *)
(* is that of Atomic: the tables, ...                                      *)
LEMMA SameTables ==
  /\ \A id, length, block :
       Atomic!AllocPageStatic(id, length, block) <=> Proved!AllocPageStatic(id, length, block)
  /\ \A id : Atomic!InvalidateId(id) <=> Proved!InvalidateId(id)
<1>1. \A id, length, block :
        Atomic!AllocPageStatic(id, length, block) <=> Proved!AllocPageStatic(id, length, block)
  BY DEF Proved!AllocPageStatic, Atomic!AllocPageStatic, Proved!AllocFound,
     Atomic!AllocFound, Proved!AllocFull, Atomic!AllocFull, Proved!AllocUninit,
     Atomic!AllocUninit, Proved!RecordPage, Atomic!RecordPage,
     Proved!InsertIndexHash, Atomic!InsertIndexHash, Proved!InsertRefused,
     Atomic!InsertRefused, Proved!FindFreeBlocksL2, Atomic!FindFreeBlocksL2,
     Proved!IsRun, Atomic!IsRun, Proved!Visited, Atomic!Visited,
     Proved!EntryFull, Atomic!EntryFull, Proved!HasRun, Atomic!HasRun,
     Proved!MarkedBlocks, Atomic!MarkedBlocks, Proved!UpdateL1, Atomic!UpdateL1,
     Proved!NumBlocks, Atomic!NumBlocks, Proved!EntryIndex, Atomic!EntryIndex,
     Proved!TAG_FROM_ID, Atomic!TAG_FROM_ID, Proved!tableVars, Atomic!tableVars,
     Proved!L2_SECTION_FROM_BLOCK, Atomic!L2_SECTION_FROM_BLOCK,
     Proved!OFFSET_FROM_BLOCK, Atomic!OFFSET_FROM_BLOCK,
     Proved!L1_ENTRY_FROM_SECTION, Atomic!L1_ENTRY_FROM_SECTION, Proved!Sections,
     Atomic!Sections, Proved!Offsets, Atomic!Offsets, Proved!Cardinality,
     Atomic!Cardinality, Proved!Blocks, Atomic!Blocks, Proved!NUM_STORAGE_BLOCKS,
     Atomic!NUM_STORAGE_BLOCKS, Proved!NUM_L2_SECTIONS, Atomic!NUM_L2_SECTIONS,
     Proved!BLOCKS_PER_SECTION, Atomic!BLOCKS_PER_SECTION
<1>2. \A id : Atomic!InvalidateId(id) <=> Proved!InvalidateId(id)
  BY DEF Proved!InvalidateId, Atomic!InvalidateId, Proved!FreePageStatic,
     Atomic!FreePageStatic, Proved!FreeBlocksL2, Atomic!FreeBlocksL2,
     Proved!InsertIndexHash, Atomic!InsertIndexHash, Proved!InsertRefused,
     Atomic!InsertRefused, Proved!NumBlocks, Atomic!NumBlocks, Proved!tableVars,
     Atomic!tableVars, Proved!L2_SECTION_FROM_BLOCK,
     Atomic!L2_SECTION_FROM_BLOCK, Proved!OFFSET_FROM_BLOCK,
     Atomic!OFFSET_FROM_BLOCK, Proved!BLOCKS_PER_SECTION,
     Atomic!BLOCKS_PER_SECTION, Proved!LookupHit, Atomic!LookupHit,
     Proved!EntryIndex, Atomic!EntryIndex, Proved!TAG_FROM_ID, Atomic!TAG_FROM_ID
<1> QED BY <1>1, <1>2

(* ... the handlers, ...                                                   *)
LEMMA SameHandlers == Atomic!Spec => Proved!Spec
<1>1. Atomic!Init => Proved!Init
  BY DEF Proved!Init, Atomic!Init, Proved!TableInit, Atomic!TableInit,
     Proved!Sections, Atomic!Sections, Proved!Slots, Atomic!Slots, Proved!NoLoad,
     Atomic!NoLoad, Proved!Blocks, Atomic!Blocks, Proved!NUM_STORAGE_BLOCKS,
     Atomic!NUM_STORAGE_BLOCKS, Proved!NUM_L2_SECTIONS, Atomic!NUM_L2_SECTIONS,
     Proved!BLOCKS_PER_SECTION, Atomic!BLOCKS_PER_SECTION
<1>2. ASSUME NEW offset, NEW data, Atomic!StoreBuffered(offset, data)
      PROVE  Proved!StoreBuffered(offset, data)
  BY <1>2
  DEF Proved!StoreBuffered, Atomic!StoreBuffered, Proved!FillOutBuffer,
      Atomic!FillOutBuffer, Proved!NoLoad, Atomic!NoLoad, Proved!tableVars,
      Atomic!tableVars, Proved!ID_FROM_OFFSET, Atomic!ID_FROM_OFFSET,
      Proved!Accepted, Atomic!Accepted, Proved!RANK_INDEX_FROM_OFFSET,
      Atomic!RANK_INDEX_FROM_OFFSET, Proved!DPU_INDEX_FROM_OFFSET,
      Atomic!DPU_INDEX_FROM_OFFSET
<1>3. ASSUME NEW offset, NEW data, Atomic!StoreFlushed(offset, data)
      PROVE  Proved!StoreFlushed(offset, data)
  BY <1>3, SameTables
  DEF Proved!StoreFlushed, Atomic!StoreFlushed, Proved!FillOutBuffer,
      Atomic!FillOutBuffer, Proved!NoLoad, Atomic!NoLoad, Proved!tableVars,
      Atomic!tableVars, Proved!ID_FROM_OFFSET, Atomic!ID_FROM_OFFSET,
      Proved!Accepted, Atomic!Accepted, Proved!RANK_INDEX_FROM_OFFSET,
      Atomic!RANK_INDEX_FROM_OFFSET, Proved!DPU_INDEX_FROM_OFFSET,
      Atomic!DPU_INDEX_FROM_OFFSET, Proved!LzoCompressMain,
      Atomic!LzoCompressMain, Proved!StoredLength, Atomic!StoredLength,
      Proved!WritePage, Atomic!WritePage, Proved!NumBlocks, Atomic!NumBlocks,
      Proved!STATUS_OK, Atomic!STATUS_OK, Proved!STATUS_ERROR_STORE_NO_SPACE,
      Atomic!STATUS_ERROR_STORE_NO_SPACE, Proved!Blocks, Atomic!Blocks,
      Proved!NUM_STORAGE_BLOCKS, Atomic!NUM_STORAGE_BLOCKS,
      Proved!NUM_L2_SECTIONS, Atomic!NUM_L2_SECTIONS, Proved!BLOCKS_PER_SECTION,
      Atomic!BLOCKS_PER_SECTION
<1>4. ASSUME NEW offset, Atomic!StoreRejected(offset)
      PROVE  Proved!StoreRejected(offset)
  BY <1>4
  DEF Proved!StoreRejected, Atomic!StoreRejected, Proved!FillOutBuffer,
      Atomic!FillOutBuffer, Proved!NoLoad, Atomic!NoLoad, Proved!tableVars,
      Atomic!tableVars, Proved!ID_FROM_OFFSET, Atomic!ID_FROM_OFFSET,
      Proved!Accepted, Atomic!Accepted, Proved!RANK_INDEX_FROM_OFFSET,
      Atomic!RANK_INDEX_FROM_OFFSET, Proved!DPU_INDEX_FROM_OFFSET,
      Atomic!DPU_INDEX_FROM_OFFSET
<1>5. ASSUME NEW offset, Atomic!LoadFromBuffer(offset) \/ Atomic!LoadFromDpu(offset)
      PROVE  Proved!LoadFromBuffer(offset) \/ Proved!LoadFromDpu(offset)
  BY <1>5
  DEF Proved!LoadFromBuffer, Atomic!LoadFromBuffer, Proved!LoadFromDpu,
      Atomic!LoadFromDpu, Proved!OutBufferHit, Atomic!OutBufferHit,
      Proved!InBufferHit, Atomic!InBufferHit, Proved!LzoDecompressMain,
      Atomic!LzoDecompressMain, Proved!ReadPage, Atomic!ReadPage, Proved!Intact,
      Atomic!Intact, Proved!StoredLength, Atomic!StoredLength, Proved!NumBlocks,
      Atomic!NumBlocks, Proved!ID_FROM_OFFSET, Atomic!ID_FROM_OFFSET,
      Proved!tableVars, Atomic!tableVars, Proved!LookupHit, Atomic!LookupHit,
      Proved!EntryIndex, Atomic!EntryIndex, Proved!TAG_FROM_ID,
      Atomic!TAG_FROM_ID, Proved!Blocks, Atomic!Blocks, Proved!NUM_STORAGE_BLOCKS,
      Atomic!NUM_STORAGE_BLOCKS, Proved!NUM_L2_SECTIONS, Atomic!NUM_L2_SECTIONS,
      Proved!BLOCKS_PER_SECTION, Atomic!BLOCKS_PER_SECTION
<1>6. ASSUME NEW offset, Atomic!InvalidateBuffered(offset) \/ Atomic!InvalidateOnDpu(offset)
      PROVE  Proved!InvalidateBuffered(offset) \/ Proved!InvalidateOnDpu(offset)
  BY <1>6, SameTables
  DEF Proved!InvalidateBuffered, Atomic!InvalidateBuffered,
      Proved!InvalidateOnDpu, Atomic!InvalidateOnDpu, Proved!Forget,
      Atomic!Forget, Proved!InOutBuffer, Atomic!InOutBuffer,
      Proved!ID_FROM_OFFSET, Atomic!ID_FROM_OFFSET, Proved!NoLoad, Atomic!NoLoad,
      Proved!tableVars, Atomic!tableVars
<1>7. Atomic!Next => Proved!Next
  BY <1>2, <1>3, <1>4, <1>5, <1>6 DEF Atomic!Next, Proved!Next
<1>8. [Atomic!Next]_Atomic!vars => [Proved!Next]_Proved!vars
  BY <1>7
  DEF Proved!vars, Atomic!vars, Proved!swapVars, Atomic!swapVars,
      Proved!tableVars, Atomic!tableVars
<1> QED BY <1>1, <1>8, PTL DEF Atomic!Spec, Proved!Spec

(* ... and the cache.                                                      *)
LEMMA SameCache == Proved!CacheSpec => Atomic!CacheSpec
<1>1. Proved!Cache!Init => Atomic!Cache!Init
  BY DEF Proved!Cache!Init, Atomic!Cache!Init, Proved!Pages, Atomic!Pages,
     Proved!Waiting, Atomic!Waiting, Proved!Lost, Atomic!Lost,
     Proved!InOutBuffer, Atomic!InOutBuffer, Proved!ID_FROM_OFFSET,
     Atomic!ID_FROM_OFFSET, Proved!LookupHit, Atomic!LookupHit,
     Proved!EntryIndex, Atomic!EntryIndex, Proved!TAG_FROM_ID,
     Atomic!TAG_FROM_ID, Proved!NoLoad, Atomic!NoLoad
<1>2. /\ Proved!Pages = Atomic!Pages /\ Proved!Pages' = Atomic!Pages'
      /\ Proved!Waiting = Atomic!Waiting /\ Proved!Waiting' = Atomic!Waiting'
      /\ Proved!Lost = Atomic!Lost /\ Proved!Lost' = Atomic!Lost'
  BY DEF Proved!Pages, Atomic!Pages, Proved!Waiting, Atomic!Waiting, Proved!Lost,
     Atomic!Lost, Proved!InOutBuffer, Atomic!InOutBuffer, Proved!ID_FROM_OFFSET,
     Atomic!ID_FROM_OFFSET, Proved!LookupHit, Atomic!LookupHit,
     Proved!EntryIndex, Atomic!EntryIndex, Proved!TAG_FROM_ID, Atomic!TAG_FROM_ID
<1>3. ASSUME NEW offset, NEW data
      PROVE  Proved!Cache!Store(offset, data) <=> Atomic!Cache!Store(offset, data)
  BY <1>2
  DEF Proved!Cache!Store, Atomic!Cache!Store, Proved!Cache!SendOff,
      Atomic!Cache!SendOff, Proved!Cache!held, Atomic!Cache!held,
      Proved!EntryIndex, Atomic!EntryIndex, Proved!NoLoad, Atomic!NoLoad,
      Proved!ID_FROM_OFFSET, Atomic!ID_FROM_OFFSET, Proved!Accepted,
      Atomic!Accepted, Proved!RANK_INDEX_FROM_OFFSET,
      Atomic!RANK_INDEX_FROM_OFFSET, Proved!DPU_INDEX_FROM_OFFSET,
      Atomic!DPU_INDEX_FROM_OFFSET
<1>4. ASSUME Proved!Cache!Refuse
      PROVE  Atomic!Cache!Refuse
  BY <1>2, <1>4
  DEF Proved!Cache!Refuse, Atomic!Cache!Refuse, Proved!NoLoad, Atomic!NoLoad
<1>5. ASSUME NEW offset, Proved!Cache!LoadRecent(offset)
      PROVE  Atomic!Cache!LoadRecent(offset)
  BY <1>2, <1>5
  DEF Proved!Cache!LoadRecent, Atomic!Cache!LoadRecent, Proved!Cache!Answer,
      Atomic!Cache!Answer, Proved!Cache!held, Atomic!Cache!held,
      Proved!EntryIndex, Atomic!EntryIndex, Proved!NoLoad, Atomic!NoLoad,
      Proved!ID_FROM_OFFSET, Atomic!ID_FROM_OFFSET, Proved!Accepted,
      Atomic!Accepted, Proved!RANK_INDEX_FROM_OFFSET,
      Atomic!RANK_INDEX_FROM_OFFSET, Proved!DPU_INDEX_FROM_OFFSET,
      Atomic!DPU_INDEX_FROM_OFFSET
<1>6. ASSUME NEW offset, Proved!Cache!LoadFound(offset)
      PROVE  Atomic!Cache!LoadFound(offset)
  BY <1>2, <1>6
  DEF Proved!Cache!LoadFound, Atomic!Cache!LoadFound, Proved!Cache!LoadTransfer,
      Atomic!Cache!LoadTransfer, Proved!Cache!Answer, Atomic!Cache!Answer,
      Proved!Cache!held, Atomic!Cache!held, Proved!EntryIndex, Atomic!EntryIndex,
      Proved!NoLoad, Atomic!NoLoad, Proved!ID_FROM_OFFSET, Atomic!ID_FROM_OFFSET,
      Proved!Accepted, Atomic!Accepted, Proved!RANK_INDEX_FROM_OFFSET,
      Atomic!RANK_INDEX_FROM_OFFSET, Proved!DPU_INDEX_FROM_OFFSET,
      Atomic!DPU_INDEX_FROM_OFFSET, Proved!PageContents, Atomic!PageContents
<1>7. ASSUME NEW offset, Proved!Cache!LoadMissed(offset)
      PROVE  Atomic!Cache!LoadMissed(offset)
  BY <1>2, <1>7
  DEF Proved!Cache!LoadMissed, Atomic!Cache!LoadMissed, Proved!Cache!LoadTransfer,
      Atomic!Cache!LoadTransfer, Proved!Cache!Answer, Atomic!Cache!Answer,
      Proved!Cache!held, Atomic!Cache!held, Proved!EntryIndex, Atomic!EntryIndex,
      Proved!NoLoad, Atomic!NoLoad, Proved!ID_FROM_OFFSET, Atomic!ID_FROM_OFFSET,
      Proved!Accepted, Atomic!Accepted, Proved!RANK_INDEX_FROM_OFFSET,
      Atomic!RANK_INDEX_FROM_OFFSET, Proved!DPU_INDEX_FROM_OFFSET,
      Atomic!DPU_INDEX_FROM_OFFSET
<1>8. ASSUME NEW offset, Proved!Cache!Drop(offset)
      PROVE  Atomic!Cache!Drop(offset)
  BY <1>2, <1>8
  DEF Proved!Cache!Drop, Atomic!Cache!Drop, Proved!Cache!held, Atomic!Cache!held,
      Proved!EntryIndex, Atomic!EntryIndex, Proved!NoLoad, Atomic!NoLoad,
      Proved!ID_FROM_OFFSET, Atomic!ID_FROM_OFFSET, Proved!Accepted,
      Atomic!Accepted, Proved!RANK_INDEX_FROM_OFFSET,
      Atomic!RANK_INDEX_FROM_OFFSET, Proved!DPU_INDEX_FROM_OFFSET,
      Atomic!DPU_INDEX_FROM_OFFSET
<1>9. Proved!Cache!Next => Atomic!Cache!Next
  BY <1>3, <1>4, <1>5, <1>6, <1>7, <1>8
  DEF Proved!Cache!Next, Atomic!Cache!Next, Proved!ID_FROM_OFFSET,
      Atomic!ID_FROM_OFFSET, Proved!Accepted, Atomic!Accepted,
      Proved!RANK_INDEX_FROM_OFFSET, Atomic!RANK_INDEX_FROM_OFFSET,
      Proved!DPU_INDEX_FROM_OFFSET, Atomic!DPU_INDEX_FROM_OFFSET
<1>10. [Proved!Cache!Next]_Proved!Cache!vars => [Atomic!Cache!Next]_Atomic!Cache!vars
  BY <1>2, <1>9
  DEF Proved!Cache!vars, Atomic!Cache!vars
<1> QED
  BY <1>1, <1>10, PTL
  DEF Proved!CacheSpec, Atomic!CacheSpec, Proved!Cache!Spec, Atomic!Cache!Spec

(* The assumptions of FrontSwap and the offsets are the same, too.         *)
LEMMA SameOffsets == OffsetsApart => Proved!OffsetsApart
  BY DEF OffsetsApart, Proved!OffsetsApart, NoAlias, Proved!NoAlias, DistinctIds,
     Proved!DistinctIds, ID_FROM_OFFSET, Proved!ID_FROM_OFFSET, Accepted, Proved!Accepted,
     EntryIndex, Proved!EntryIndex, TAG_FROM_ID, Proved!TAG_FROM_ID,
     RANK_INDEX_FROM_OFFSET, Proved!RANK_INDEX_FROM_OFFSET,
     DPU_INDEX_FROM_OFFSET, Proved!DPU_INDEX_FROM_OFFSET

(* With one CPU the handlers, one SDK call at a time, implement the cache  *)
(* of pages: what a caller sees of the state that the SDK keeps between    *)
(* calls is nothing, and of the DPU only which pages are found.            *)
THEOREM OneCpuIsCache ==
  OneCpu /\ OffsetsApart => (SmpSpec => Atomic!CacheSpec)
<1>1. Proved!OffsetsApart => (Proved!Spec => Proved!CacheSpec)
  BY GeometryAssumption, InputAssumption, SwapAssumption, Proved!BackEndIsCache
  DEF Proved!StoredLength, StoredLength, Proved!ID_FROM_OFFSET, ID_FROM_OFFSET,
      Proved!Blocks, Blocks, Proved!NUM_STORAGE_BLOCKS, NUM_STORAGE_BLOCKS,
      Proved!NUM_L2_SECTIONS, NUM_L2_SECTIONS, Proved!BLOCKS_PER_SECTION, BLOCKS_PER_SECTION
<1> QED
  BY <1>1, HandlersAreAtomic, SameHandlers, SameCache, SameOffsets, PTL DEF AtomicSpec

(* With one CPU the programs use the tables as the allocator expects, so   *)
(* what holds of the allocator on its own holds under the handlers.        *)
THEOREM OneCpuUsesTable == OneCpu => (SmpSpec => TableSpec)
<1>1. Proved!Spec => Proved!TableSpec
  BY GeometryAssumption, InputAssumption, SwapAssumption, Proved!BackEndUsesTable
  DEF Proved!StoredLength, StoredLength, Proved!ID_FROM_OFFSET, ID_FROM_OFFSET,
      Proved!Blocks, Blocks, Proved!NUM_STORAGE_BLOCKS, NUM_STORAGE_BLOCKS,
      Proved!NUM_L2_SECTIONS, NUM_L2_SECTIONS, Proved!BLOCKS_PER_SECTION, BLOCKS_PER_SECTION
<1>2. Proved!TableInit => TableInit
  BY DEF Proved!TableInit, TableInit, Proved!Sections, Sections, Proved!Slots, Slots,
     Proved!Blocks, Blocks, Proved!NUM_STORAGE_BLOCKS, NUM_STORAGE_BLOCKS,
     Proved!NUM_L2_SECTIONS, NUM_L2_SECTIONS, Proved!BLOCKS_PER_SECTION,
     BLOCKS_PER_SECTION
<1>3. \A id, length, block :
        Proved!AllocPageStatic(id, length, block) <=> AllocPageStatic(id, length, block)
  BY DEF Proved!AllocPageStatic, AllocPageStatic, Proved!AllocFound, AllocFound,
     Proved!AllocFull, AllocFull, Proved!AllocUninit, AllocUninit,
     Proved!RecordPage, RecordPage, Proved!InsertIndexHash, InsertIndexHash,
     Proved!InsertRefused, InsertRefused, Proved!FindFreeBlocksL2,
     FindFreeBlocksL2, Proved!IsRun, IsRun, Proved!Visited, Visited,
     Proved!EntryFull, EntryFull, Proved!HasRun, HasRun, Proved!MarkedBlocks,
     MarkedBlocks, Proved!UpdateL1, UpdateL1, Proved!NumBlocks, NumBlocks,
     Proved!EntryIndex, EntryIndex, Proved!TAG_FROM_ID, TAG_FROM_ID,
     Proved!tableVars, tableVars, Proved!L2_SECTION_FROM_BLOCK,
     L2_SECTION_FROM_BLOCK, Proved!OFFSET_FROM_BLOCK, OFFSET_FROM_BLOCK,
     Proved!L1_ENTRY_FROM_SECTION, L1_ENTRY_FROM_SECTION, Proved!Sections,
     Sections, Proved!Offsets, Offsets, Proved!Cardinality, Cardinality,
     Proved!Blocks, Blocks, Proved!NUM_STORAGE_BLOCKS, NUM_STORAGE_BLOCKS,
     Proved!NUM_L2_SECTIONS, NUM_L2_SECTIONS, Proved!BLOCKS_PER_SECTION,
     BLOCKS_PER_SECTION
<1>4. \A id : Proved!InvalidateId(id) <=> InvalidateId(id)
  BY DEF Proved!InvalidateId, InvalidateId, Proved!FreePageStatic, FreePageStatic,
     Proved!FreeBlocksL2, FreeBlocksL2, Proved!InsertIndexHash, InsertIndexHash,
     Proved!InsertRefused, InsertRefused, Proved!NumBlocks, NumBlocks,
     Proved!tableVars, tableVars, Proved!L2_SECTION_FROM_BLOCK,
     L2_SECTION_FROM_BLOCK, Proved!OFFSET_FROM_BLOCK, OFFSET_FROM_BLOCK,
     Proved!BLOCKS_PER_SECTION, BLOCKS_PER_SECTION, Proved!LookupHit, LookupHit,
     Proved!EntryIndex, EntryIndex, Proved!TAG_FROM_ID, TAG_FROM_ID
<1>5. [Proved!TableNext]_Proved!tableVars => [TableNext]_tableVars
  BY <1>3, <1>4
  DEF Proved!TableNext, TableNext, Proved!tableVars, tableVars, Proved!Blocks,
      Blocks, Proved!NUM_STORAGE_BLOCKS, NUM_STORAGE_BLOCKS,
      Proved!NUM_L2_SECTIONS, NUM_L2_SECTIONS, Proved!BLOCKS_PER_SECTION,
      BLOCKS_PER_SECTION
<1>6. Proved!TableSpec => TableSpec
  BY <1>2, <1>5, PTL DEF Proved!TableSpec, TableSpec
<1> QED BY <1>1, <1>6, HandlersAreAtomic, SameHandlers, PTL DEF AtomicSpec
=============================================================================
