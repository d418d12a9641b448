------------------------------ MODULE SmpSwap -------------------------------
(***************************************************************************)
(* The handlers of FrontSwap one SDK call at a time: dpu_prepare_xfer,     *)
(* dpu_push_xfer, dpu_load, dpu_launch and mem_alloc of module/dpu.c, run  *)
(* by several CPUs.  The kernel serialises the operations on one offset;   *)
(* the handlers take no lock, so operations on different offsets           *)
(* interleave and share the host buffers, the prepared transfer, the       *)
(* program, the WRAM heap and the MRAM of DPU 0.                           *)
(***************************************************************************)
EXTENDS FrontSwap, Sequences, Functions

CONSTANTS
  Cpus,
  WRAM_PAGES  \* WRAM_SIZE / PAGE_SIZE: 16

ASSUME SmpAssumption == WRAM_PAGES \in Nat \ {0}

VARIABLES
  cpu,        \* for each CPU, where it is in which handler, and its locals
  push_data,  \* the buffer prepared for the next transfer
  main,       \* the program of the DPU
  wram_heap,  \* the WRAM heap pointer of the DPU, in pages
  wild,       \* a transfer used a pointer that was not set for it, or is gone
  before      \* history: what handlers overwrite, when last none of them ran

smpVars == <<vars, cpu, push_data, main, wram_heap, wild, before>>

NoEntry == [block |-> 0, tag |-> 0, length |-> 0]

(* A pointer to a buffer, of the handler that prepared it.  A pointer to   *)
(* the stack is one into the call on that CPU for that offset.             *)
NoBuffer == [buf |-> "null", cpu |-> 0, offset |-> 0]

(* data: the page to store; invalidate_id, id, pointer: the locals of these *)
(* names; buffer: the pointer that a transfer has tested; from: the buffer *)
(* that retrieved points to; ok: what the program returned; found: the     *)
(* index entry it looked up; wram: its WRAM pages.                         *)
Idle == [pc |-> "idle", op |-> "none", offset |-> 0, data |-> ZeroPage,
         invalidate_id |-> 0, buffer |-> NoBuffer, from |-> "in", ok |-> FALSE,
         prog |-> "none", id |-> 0, found |-> NoEntry, pointer |-> 0, wram |-> <<>>]

Now == [in_buffer |-> in_buffer, trans_page |-> trans_page, fetched |-> fetched]

-----------------------------------------------------------------------------
(* One step of CPU c, at pc; every step ends by keeping the history.       *)

At(c, op, pc) == ~wild /\ cpu[c].op = op /\ cpu[c].pc = pc

Goto(c, pc) == cpu' = [cpu EXCEPT ![c].pc = pc]

Return(c) == cpu' = [cpu EXCEPT ![c] = Idle]

Remember ==
  before' = IF \A c \in Cpus : cpu'[c].pc = "idle" THEN Now' ELSE before

-----------------------------------------------------------------------------
(* The SDK.  A transfer tests push_data, copies and clears it, each in a    *)
(* step of its own: no lock keeps other CPUs from preparing, using or      *)
(* clearing the buffer in between.  The copy itself is one step.           *)

dpu_prepare_xfer(c, buffer) ==
  push_data' = [buf |-> buffer, cpu |-> c, offset |-> cpu[c].offset]

(* Without a buffer there is nothing to copy and nothing to clear.         *)
TestBuffer(c, copy, skip) ==
  cpu' = [cpu EXCEPT ![c].buffer = push_data,
                     ![c].pc = IF push_data = NoBuffer THEN skip ELSE copy]

(* The copy reads push_data again, or uses what the compiler kept of it.   *)
CopyBuffer(c) == {cpu[c].buffer, push_data}

(* Whether the invalidation whose invalidate_id b points to still runs.    *)
OnStack(b) ==
  /\ b.buf = "stack"
  /\ cpu[b.cpu].op = "invalidate" /\ cpu[b.cpu].pc # "start"
  /\ cpu[b.cpu].offset = b.offset

(* The copy of b to the DPU: of a whole page descriptor, or of an id to    *)
(* behind the transfer page.  If b is null, gone or of the other kind, so  *)
(* that the bytes behind an id are sent for a page or those of a page for  *)
(* an id, what follows is not modelled.                                    *)
Pushed(b, whole) ==
  /\ trans_page' =
       CASE whole /\ b.buf = "out" -> out_buffer
         [] whole /\ b.buf = "in" -> in_buffer
         [] ~whole /\ b.buf = "in_id" -> [trans_page EXCEPT !.id = in_buffer.id]
         [] ~whole /\ OnStack(b) -> [trans_page EXCEPT !.id = cpu[b.cpu].invalidate_id]
         [] OTHER -> trans_page
  /\ wild' = ~(IF whole THEN b.buf \in {"out", "in"} ELSE b.buf = "in_id" \/ OnStack(b))

(* What the buffer called buf holds after the copy of a whole page         *)
(* descriptor from the DPU to b.                                           *)
Pulled(b, buf, content) == IF b.buf = buf THEN trans_page ELSE content

(* Mutant: the prepared buffer is not forgotten after the transfer.        *)
KeepBuffer == UNCHANGED push_data

ClearBuffer == push_data' = NoBuffer

-----------------------------------------------------------------------------
(* A handler begins: the kernel's conditions on the offset.                *)

Begin(c, op, offset, data) ==
  /\ ~wild
  /\ cpu[c].pc = "idle"
  /\ \A k \in Cpus : cpu[k].offset # offset
  /\ op = "store" <=> offset \notin held
  /\ op = "store" => Accepted(offset) /\ stats.pages < MaxPages
  /\ cpu' = [cpu EXCEPT ![c] =
               [Idle EXCEPT !.pc = "start", !.op = op, !.offset = offset, !.data = data]]
  /\ UNCHANGED <<vars, push_data, main, wram_heap, wild>>

Refuse(c, offset) ==
  /\ ~wild
  /\ cpu[c].pc = "idle"
  /\ StoreRejected(offset)
  /\ UNCHANGED <<cpu, push_data, main, wram_heap, wild>>

(* The program each handler loads.                                         *)
Program(op) ==
  CASE op = "store" -> "compress"
    [] op = "load" -> "decompress"
    [] op = "invalidate" -> "invalidate"

(* The calls that all handlers make between their start and their end.     *)
Push(c) ==
  /\ ~wild /\ cpu[c].pc = "push"
  /\ TestBuffer(c, "send", "load")
  /\ UNCHANGED <<vars, push_data, main, wram_heap, wild>>

Send(c) ==
  /\ ~wild /\ cpu[c].pc = "send"
  /\ \E b \in CopyBuffer(c) : Pushed(b, cpu[c].op = "store")
  /\ Goto(c, "sent")
  /\ UNCHANGED <<tableVars, out_buffer, out_buffer_bmp, in_buffer, storage, held,
                 written, fetched, dropped, loaded, push_data, main, wram_heap>>

Sent(c) ==
  /\ ~wild /\ cpu[c].pc = "sent"
  /\ ClearBuffer
  /\ cpu' = [cpu EXCEPT ![c].buffer = NoBuffer, ![c].pc = "load"]
  /\ UNCHANGED <<vars, main, wram_heap, wild>>

dpu_load(c) ==
  /\ ~wild /\ cpu[c].pc = "load"
  /\ main' = Program(cpu[c].op)
  /\ Goto(c, "launch")
  /\ UNCHANGED <<vars, push_data, wram_heap, wild>>

(* Mutant: the WRAM heap is not reset for the program.                     *)
LaunchKeepsHeap(c) ==
  /\ ~wild /\ cpu[c].pc = "launch"
  /\ cpu' = [cpu EXCEPT ![c].prog = main, ![c].pc = "main"]
  /\ UNCHANGED <<vars, push_data, main, wram_heap, wild>>

dpu_launch(c) ==
  /\ ~wild /\ cpu[c].pc = "launch"
  /\ wram_heap' = 0
  /\ cpu' = [cpu EXCEPT ![c].prog = main, ![c].pc = "main"]
  /\ UNCHANGED <<vars, push_data, main, wild>>

-----------------------------------------------------------------------------
(* The programs: each reads the id behind the transfer page, two of them   *)
(* then allocate two pages of WRAM and do the rest.                        *)

Running(c, prog, pc) == ~wild /\ cpu[c].prog = prog /\ cpu[c].pc = pc

CompressReadId(c) ==
  /\ Running(c, "compress", "main")
  /\ IF trans_page.id >= PAGE_VALID
     THEN /\ cpu' = [cpu EXCEPT ![c].id = trans_page.id, ![c].pc = "acquire"]
          /\ UNCHANGED trans_page
     ELSE /\ trans_page' = [trans_page EXCEPT !.id = STATUS_OK]
          /\ Goto(c, "done")
  /\ UNCHANGED <<tableVars, out_buffer, out_buffer_bmp, in_buffer, storage, held,
                 written, fetched, dropped, loaded, push_data, main, wram_heap, wild>>

DecompressLookup(c) ==
  LET id == trans_page.id
  IN  /\ Running(c, "decompress", "main")
      /\ cpu' = [cpu EXCEPT
           ![c].id = id,
           ![c].found = IF LookupHit(id) THEN hash_table[EntryIndex(id)] ELSE NoEntry,
           ![c].pc = IF LookupHit(id) THEN "acquire" ELSE "done"]
      /\ UNCHANGED <<vars, push_data, main, wram_heap, wild>>

InvalidateMain(c) ==
  /\ Running(c, "invalidate", "main")
  /\ IF trans_page.id >= PAGE_VALID
     THEN InvalidateId(trans_page.id % PAGE_VALID)
     ELSE UNCHANGED tableVars
  /\ Goto(c, "done")
  /\ UNCHANGED <<swapVars, push_data, main, wram_heap, wild>>

(* mem_alloc between its two comments: the heap pointer is read ...        *)
MemAllocAcquire(c) ==
  /\ ~wild /\ cpu[c].pc = "acquire"
  /\ cpu' = [cpu EXCEPT ![c].pointer = wram_heap, ![c].pc = "release"]
  /\ UNCHANGED <<vars, push_data, main, wram_heap, wild>>

(* ... and written back, one page further.                                 *)
MemAllocRelease(c) ==
  /\ ~wild /\ cpu[c].pc = "release"
  /\ wram_heap' = cpu[c].pointer + 1
  /\ cpu' = [cpu EXCEPT ![c].wram = Append(@, cpu[c].pointer),
                        ![c].pc = IF Len(cpu[c].wram) = 1 THEN "rest" ELSE "acquire"]
  /\ UNCHANGED <<vars, push_data, main, wild>>

CompressRest(c) ==
  /\ Running(c, "compress", "rest")
  /\ LzoCompressMain([data |-> trans_page.data, id |-> cpu[c].id])
  /\ Goto(c, "done")
  /\ UNCHANGED <<out_buffer, out_buffer_bmp, in_buffer, held, written, fetched,
                 loaded, push_data, main, wram_heap, wild>>

DecompressRest(c) ==
  /\ Running(c, "decompress", "rest")
  /\ \E page \in ReadPage(cpu[c].found.block, cpu[c].found.length) :
       /\ trans_page' =
            [trans_page EXCEPT !.data = IF page = Failed THEN @ ELSE page]
       /\ cpu' = [cpu EXCEPT ![c].ok = (page # Failed), ![c].pc = "done"]
  /\ UNCHANGED <<tableVars, out_buffer, out_buffer_bmp, in_buffer, storage, held,
                 written, fetched, dropped, loaded, push_data, main, wram_heap, wild>>

-----------------------------------------------------------------------------
(* The transfer back of a store or a load.                                 *)

Pull(c) ==
  /\ ~wild /\ cpu[c].pc = "pull"
  /\ TestBuffer(c, "take", "back")
  /\ UNCHANGED <<vars, push_data, main, wram_heap, wild>>

Take(c) ==
  /\ ~wild /\ cpu[c].pc = "take"
  /\ \E b \in CopyBuffer(c) :
       /\ in_buffer' = Pulled(b, "in", in_buffer)
       /\ out_buffer' = Pulled(b, "out", out_buffer)
       /\ fetched' = IF b.buf = "in" THEN cpu[c].ok ELSE fetched
       /\ wild' = (b.buf \notin {"in", "out"})
  /\ Goto(c, "taken")
  /\ UNCHANGED <<tableVars, out_buffer_bmp, trans_page, storage, held, written,
                 dropped, loaded, push_data, main, wram_heap>>

Taken(c) ==
  /\ ~wild /\ cpu[c].pc = "taken"
  /\ ClearBuffer
  /\ cpu' = [cpu EXCEPT ![c].buffer = NoBuffer, ![c].pc = "back"]
  /\ UNCHANGED <<vars, main, wram_heap, wild>>

-----------------------------------------------------------------------------
(* pimswap_frontswap_store_old.                                            *)

StoreStart(c) ==
  /\ At(c, "store", "start")
  /\ IF out_buffer_bmp
     THEN dpu_prepare_xfer(c, "out") /\ Goto(c, "push")
     ELSE Goto(c, "fill") /\ UNCHANGED push_data
  /\ UNCHANGED <<vars, main, wram_heap, wild>>

StoreDone(c) ==
  /\ At(c, "store", "done")
  /\ out_buffer_bmp' = FALSE
  /\ Goto(c, "pull")
  /\ UNCHANGED <<tableVars, out_buffer, in_buffer, trans_page, storage, held, written,
                 fetched, dropped, loaded, push_data, main, wram_heap, wild>>

(* The transfer back had no buffer, unless another CPU prepared one.       *)
StoreBack(c) ==
  /\ At(c, "store", "back")
  /\ out_buffer' = [out_buffer EXCEPT !.id = 0]
  /\ Goto(c, "fill")
  /\ UNCHANGED <<tableVars, out_buffer_bmp, in_buffer, trans_page, storage, held, written,
                 fetched, dropped, loaded, push_data, main, wram_heap, wild>>

StoreFill(c) ==
  /\ At(c, "store", "fill")
  /\ FillOutBuffer(cpu[c].offset, cpu[c].data)
  /\ Return(c)
  /\ UNCHANGED <<tableVars, trans_page, storage, dropped, push_data, main,
                 wram_heap, wild>>

-----------------------------------------------------------------------------
(* pimswap_frontswap_load.                                                 *)

LoadStart(c) ==
  LET id == ID_FROM_OFFSET(cpu[c].offset)
  IN  /\ At(c, "load", "start")
      /\ IF OutBufferHit(id) \/ InBufferHit(id)
         THEN /\ cpu' = [cpu EXCEPT ![c].pc = "copy",
                           ![c].from = IF OutBufferHit(id) THEN "out" ELSE "in"]
              /\ UNCHANGED <<in_buffer, push_data>>
         ELSE /\ in_buffer' = [in_buffer EXCEPT !.id = id]
              /\ dpu_prepare_xfer(c, "in_id")
              /\ Goto(c, "push")
      /\ UNCHANGED <<tableVars, out_buffer, out_buffer_bmp, trans_page, storage, held,
                     written, fetched, dropped, loaded, main, wram_heap, wild>>

(* Mutant: the in buffer is not prepared for the result.                   *)
LoadDoneUnprepared(c) ==
  /\ At(c, "load", "done")
  /\ Goto(c, "pull")
  /\ UNCHANGED <<vars, push_data, main, wram_heap, wild>>

LoadDone(c) ==
  /\ At(c, "load", "done")
  /\ dpu_prepare_xfer(c, "in")
  /\ Goto(c, "pull")
  /\ UNCHANGED <<vars, main, wram_heap, wild>>

LoadBack(c) ==
  LET offset == cpu[c].offset
  IN  /\ At(c, "load", "back")
      /\ IF in_buffer.id = ID_FROM_OFFSET(offset)
         THEN Goto(c, "copy") /\ UNCHANGED loaded
         ELSE /\ Return(c)
              /\ loaded' = [ret |-> -1, ok |-> fetched, offset |-> offset,
                            data |-> in_buffer.data]
      /\ UNCHANGED <<tableVars, out_buffer, out_buffer_bmp, in_buffer, trans_page, storage,
                     held, written, fetched, dropped, push_data, main, wram_heap, wild>>

LoadCopy(c) ==
  LET out == cpu[c].from = "out"
  IN  /\ At(c, "load", "copy")
      /\ loaded' = [ret |-> 0, ok |-> out \/ fetched, offset |-> cpu[c].offset,
                    data |-> (IF out THEN out_buffer ELSE in_buffer).data]
      /\ Return(c)
      /\ UNCHANGED <<tableVars, out_buffer, out_buffer_bmp, in_buffer, trans_page,
                     storage, held, written, fetched, dropped, push_data, main,
                     wram_heap, wild>>

-----------------------------------------------------------------------------
(* pimswap_frontswap_invalidate_page.                                      *)

InvalidateStart(c) ==
  LET offset == cpu[c].offset
  IN  /\ At(c, "invalidate", "start")
      /\ IF InOutBuffer(offset)
         THEN /\ out_buffer_bmp' = FALSE
              /\ Forget(offset)
              /\ Return(c)
              /\ UNCHANGED push_data
         ELSE /\ dpu_prepare_xfer(c, "stack")
              /\ cpu' = [cpu EXCEPT ![c].pc = "push",
                                    ![c].invalidate_id = ID_FROM_OFFSET(offset) + PAGE_VALID]
              /\ UNCHANGED swapVars
      /\ UNCHANGED <<tableVars, trans_page, main, wram_heap, wild>>

InvalidateDone(c) ==
  /\ At(c, "invalidate", "done")
  /\ Forget(cpu[c].offset)
  /\ Return(c)
  /\ UNCHANGED <<tableVars, out_buffer_bmp, trans_page, push_data, main, wram_heap, wild>>

-----------------------------------------------------------------------------
SmpInit ==
  /\ Init
  /\ cpu = [c \in Cpus |-> Idle]
  /\ push_data = NoBuffer
  /\ main = "none"
  /\ wram_heap = 0
  /\ wild = FALSE
  /\ before = Now

Step(c) ==
  \/ Push(c) \/ Send(c) \/ Sent(c) \/ Pull(c) \/ Take(c) \/ Taken(c)
  \/ dpu_load(c) \/ dpu_launch(c)
  \/ CompressReadId(c) \/ DecompressLookup(c) \/ InvalidateMain(c)
  \/ MemAllocAcquire(c) \/ MemAllocRelease(c)
  \/ CompressRest(c) \/ DecompressRest(c)
  \/ StoreStart(c) \/ StoreDone(c) \/ StoreBack(c) \/ StoreFill(c)
  \/ LoadStart(c) \/ LoadDone(c) \/ LoadBack(c) \/ LoadCopy(c)
  \/ InvalidateStart(c) \/ InvalidateDone(c)

Call(c) ==
  \E offset \in PgOffs :
    \/ Refuse(c, offset)
    \/ \E data \in Data : Begin(c, "store", offset, data)
    \/ \E op \in {"load", "invalidate"} : Begin(c, op, offset, ZeroPage)

SmpNext == \E c \in Cpus : (Call(c) \/ Step(c)) /\ Remember

SmpSpec == SmpInit /\ [][SmpNext]_smpVars

-----------------------------------------------------------------------------
(* The step of FrontSwap that a handler takes.  With one CPU, a store that  *)
(* has to flush the out buffer takes it where its program has compressed   *)
(* the page, an invalidation where its program has removed the page, and   *)
(* every other handler where it returns.                                   *)

Me == cpu[CHOOSE c \in Cpus : TRUE]

Flushed ==
  /\ Me.op = "store" /\ Me.prog = "compress"
  /\ Me.pc \in {"done", "pull", "take", "taken", "back", "fill"}

Removed == Me.op = "invalidate" /\ Me.pc = "done"

(* What FrontSwap has in a variable, if the handler still has to set it.   *)
After(flushed, removed, otherwise) ==
  IF Flushed THEN flushed ELSE IF Removed THEN removed ELSE otherwise

Atomic == INSTANCE FrontSwap WITH
  out_buffer     <- After([data |-> Me.data, id |-> ID_FROM_OFFSET(Me.offset) + PAGE_VALID],
                          out_buffer, out_buffer),
  out_buffer_bmp <- After(TRUE, out_buffer_bmp, out_buffer_bmp),
  in_buffer      <- before.in_buffer,
  trans_page     <- After(trans_page, trans_page, before.trans_page),
  held           <- After(held \cup {Me.offset}, held \ {Me.offset}, held),
  written        <- After([written EXCEPT ![Me.offset] = Me.data],
                          [written EXCEPT ![Me.offset] = ZeroPage], written),
  fetched        <- before.fetched,
  dropped        <- After(dropped, dropped \ {Me.offset}, dropped),
  loaded         <- After(NoLoad, NoLoad, loaded)

(* The handlers, run one at a time, implement FrontSwap: in spite of the   *)
(* state that the SDK keeps from one call to the next, a handler with all  *)
(* its calls has the effect of one step.                                   *)
AtomicSpec == Atomic!Spec

(* No prepared buffer is left behind when a handler returns: among them    *)
(* are pointers to the stack of invalidate_page.  It holds until a transfer *)
(* is wild, which needs two CPUs.                                          *)
NothingPrepared == (\A c \in Cpus : cpu[c].pc = "idle") => push_data = NoBuffer

(* mem_alloc does not look at the size of WRAM: however many handlers ran   *)
(* before, a program gets two different pages that lie in it.              *)
WramSuffices ==
  \A c \in Cpus :
    cpu[c].pc = "rest" =>
      /\ cpu[c].wram[1] # cpu[c].wram[2]
      /\ Range(cpu[c].wram) \subseteq 0 .. WRAM_PAGES - 1

-----------------------------------------------------------------------------
(* A statement made in the source that handlers running at once break.     *)

(* "set the page id that we are looking for": the program that a load runs *)
(* looks up the id of the page to load.                                    *)
LooksForItsOwn ==
  \A c \in Cpus :
    cpu[c].op = "load" /\ cpu[c].prog = "decompress" /\ cpu[c].pc # "main"
      => cpu[c].id = ID_FROM_OFFSET(cpu[c].offset)
=============================================================================
