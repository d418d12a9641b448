----------------------------- MODULE FrontSwap ------------------------------
(***************************************************************************)
(* The frontswap back end of module/swap.c: the handlers the kernel calls  *)
(* (store, load, invalidate_page), the buffers they keep on the host, and  *)
(* the DPU programs they launch (lzo_compress_main, lzo_decompress_main,   *)
(* dpu_invalidate_main) over the directory of AllocTable.                  *)
(*                                                                         *)
(* All handlers refuse or ignore the pages of DPUs other than 0, so only   *)
(* DPU 0 is modelled: the others are only ever sent the id 0, which each   *)
(* program ignores.  A handler runs to its end before the next one starts. *)
(***************************************************************************)
EXTENDS AllocTable

CONSTANTS
  PgOffs,         \* swap offsets (pgoff_t) the kernel uses
  Data,           \* contents of a page
  LzoLength,      \* for each content, the length the LZO compressor makes of it
  PAGE_SIZE,      \* 4096
  DPUS_PER_RANK,  \* 4
  RANK_OFFSETS,   \* 2^24, the offsets before the next rank index
  PAGE_VALID,     \* 2^31, the flag in an id
  ZeroPage,       \* the content of a buffer that was never written
  Garbage,        \* the content of a page that was not read back as written
  Failed          \* the result of a DPU program that returned -1

DPU_INDEX_FROM_OFFSET(offset)  == offset % DPUS_PER_RANK
ID_FROM_OFFSET(offset)         == (offset \div DPUS_PER_RANK) % PAGE_VALID
RANK_INDEX_FROM_OFFSET(offset) == (offset \div RANK_OFFSETS) % 256

(* The length a page is stored with.  One that does not save a block is    *)
(* stored as it is; a compression that fails is the length PAGE_SIZE.      *)
StoredLength(data) ==
  IF LzoLength[data] > PAGE_SIZE - STORAGE_BLOCK_SIZE
  THEN PAGE_SIZE
  ELSE LzoLength[data]

(* Slot 0 of a swap device is its header: the kernel never stores it.      *)
ASSUME SwapAssumption ==
  /\ PgOffs \subseteq Nat \ {0}
  /\ {PAGE_SIZE, DPUS_PER_RANK, RANK_OFFSETS, PAGE_VALID} \subseteq Nat \ {0}
  /\ LzoLength \in [Data -> Nat \ {0}]
  /\ {ID_FROM_OFFSET(o) : o \in PgOffs} \subseteq Ids
  /\ {StoredLength(d) : d \in Data} \subseteq Lengths
  /\ {ZeroPage, Garbage, Failed} \cap Data = {}

VARIABLES
  out_buffer,      \* the page waiting to be sent to the DPU: data and id
  out_buffer_bmp,  \* bit 0 of the bitmap: out_buffer is in use
  in_buffer,       \* the page last received from the DPU
  trans_page,      \* the transfer page in MRAM, with the id that follows it
  storage,         \* for each storage block, the piece of a page it holds
  held,            \* external: the kernel's frontswap_map
  written,         \* history: for each offset held, the content last stored
  fetched,         \* history: in_buffer is what a program that succeeded left
  dropped,         \* history: offsets whose page found no room on the DPU
  loaded           \* what the last step gave back to the kernel, if a load

swapVars  == <<out_buffer, out_buffer_bmp, in_buffer, trans_page, storage,
               held, written, fetched, dropped, loaded>>
vars      == <<tableVars, swapVars>>

STATUS_OK == 0
STATUS_ERROR_STORE_NO_SPACE == 2

NoLoad == [ret |-> 0, ok |-> FALSE, offset |-> 0, data |-> ZeroPage]

-----------------------------------------------------------------------------
(* Pages in the storage area.  Block i of the representation of data is    *)
(* the piece <<data, i>>.                                                  *)

(* Mutant: the page is written one block too long.                         *)
WritePageLong(block, data) ==
  [b \in Blocks |->
     IF b \in block .. (block + NumBlocks(StoredLength(data)))
     THEN <<data, b - block>>
     ELSE storage[b]]

WritePage(block, data) ==
  [b \in Blocks |->
     IF b \in block .. (block + NumBlocks(StoredLength(data)) - 1)
     THEN <<data, b - block>>
     ELSE storage[b]]

Intact(block, length, data) ==
  /\ length = StoredLength(data)
  /\ \A i \in 0 .. NumBlocks(length) - 1 :
       /\ block + i \in Blocks
       /\ storage[block + i] = <<data, i>>

(* What reading a page of that length at block can give.  A page that was  *)
(* written over in part reads as garbage; the decompressor may notice.     *)
ReadPage(block, length) ==
  IF \E data \in Data : Intact(block, length, data)
  THEN {data \in Data : Intact(block, length, data)}
  ELSE IF length = PAGE_SIZE THEN {Garbage} ELSE {Garbage, Failed}

-----------------------------------------------------------------------------
(* The DPU programs.                                                       *)

(* lzo_compress_main on the page just transferred.  The status it writes   *)
(* lands on the id, which follows the transfer page.                       *)
LzoCompressMain(page) ==
  \E block \in Blocks \cup {NULL} :
    /\ AllocPageStatic(page.id % PAGE_VALID, StoredLength(page.data), block)
    /\ storage' = IF block = NULL THEN storage ELSE WritePage(block, page.data)
    /\ trans_page' =
         [data |-> page.data,
          id   |-> IF block = NULL THEN STATUS_ERROR_STORE_NO_SPACE ELSE STATUS_OK]
    /\ dropped' =
         IF block = NULL
         THEN dropped \cup {o \in held : ID_FROM_OFFSET(o) = page.id % PAGE_VALID}
         ELSE dropped

(* Mutant: the entry is used without comparing its tag.                    *)
LzoDecompressUntagged(id) ==
  LET entry == hash_table[EntryIndex(id)]
  IN  IF entry.length # 0 THEN ReadPage(entry.block, entry.length) ELSE {Failed}

(* lzo_decompress_main: the page it finds under id, or Failed.             *)
LzoDecompressMain(id) ==
  LET entry == hash_table[EntryIndex(id)]
  IN  IF LookupHit(id) THEN ReadPage(entry.block, entry.length) ELSE {Failed}

-----------------------------------------------------------------------------
(* The handlers.  The kernel stores an offset it does not hold (for one it *)
(* holds it calls invalidate_page first), and loads and invalidates only   *)
(* offsets it holds.                                                       *)

Accepted(offset) ==
  RANK_INDEX_FROM_OFFSET(offset) = 0 /\ DPU_INDEX_FROM_OFFSET(offset) = 0

FillOutBuffer(offset, data) ==
  /\ out_buffer' = [data |-> data, id |-> ID_FROM_OFFSET(offset) + PAGE_VALID]
  /\ out_buffer_bmp' = TRUE
  /\ held' = held \cup {offset}
  /\ written' = [written EXCEPT ![offset] = data]
  /\ loaded' = NoLoad
  /\ UNCHANGED <<in_buffer, fetched>>

(* -ENOSPC: the page is for another rank or DPU.                           *)
StoreRejected(offset) ==
  /\ offset \notin held
  /\ ~Accepted(offset)
  /\ loaded' = NoLoad
  /\ UNCHANGED <<tableVars, out_buffer, out_buffer_bmp, in_buffer, trans_page,
                 storage, held, written, fetched, dropped>>

(* The out buffer is free.                                                 *)
StoreBuffered(offset, data) ==
  /\ offset \notin held
  /\ Accepted(offset)
  /\ ~out_buffer_bmp
  /\ FillOutBuffer(offset, data)
  /\ UNCHANGED <<tableVars, trans_page, storage, dropped>>

(* The out buffer is taken: its page goes to the DPU first.  Nothing is    *)
(* read back: no buffer is prepared for the transfer from the DPU.         *)
StoreFlushed(offset, data) ==
  /\ offset \notin held
  /\ Accepted(offset)
  /\ out_buffer_bmp
  /\ LzoCompressMain(out_buffer)
  /\ FillOutBuffer(offset, data)

OutBufferHit(id) == out_buffer_bmp /\ out_buffer.id = id
InBufferHit(id)  == in_buffer.id = id

LoadFromBuffer(offset) ==
  LET id  == ID_FROM_OFFSET(offset)
      hit == IF OutBufferHit(id) THEN out_buffer ELSE in_buffer
  IN  /\ offset \in held
      /\ OutBufferHit(id) \/ InBufferHit(id)
      /\ loaded' = [ret |-> 0, ok |-> OutBufferHit(id) \/ fetched,
                    offset |-> offset, data |-> hit.data]
      /\ UNCHANGED <<tableVars, out_buffer, out_buffer_bmp, in_buffer, trans_page,
                     storage, held, written, fetched, dropped>>

(* The id goes to the DPU behind the transfer page; a program that fails   *)
(* leaves the page as it was.  Both come back into the in buffer.          *)
LoadFromDpu(offset) ==
  LET id == ID_FROM_OFFSET(offset)
  IN  /\ offset \in held
      /\ ~OutBufferHit(id) /\ ~InBufferHit(id)
      /\ \E page \in LzoDecompressMain(id) :
           /\ trans_page' =
                [data |-> IF page = Failed THEN trans_page.data ELSE page, id |-> id]
           /\ in_buffer' = trans_page'
           /\ fetched' = (page # Failed)
           /\ loaded' = [ret    |-> IF in_buffer'.id = id THEN 0 ELSE -1,
                         ok     |-> fetched',
                         offset |-> offset,
                         data   |-> in_buffer'.data]
      /\ UNCHANGED <<tableVars, out_buffer, out_buffer_bmp, storage, held,
                     written, dropped>>

InOutBuffer(offset) ==
  out_buffer_bmp /\ out_buffer.id % PAGE_VALID = ID_FROM_OFFSET(offset)

Forget(offset) ==
  /\ held' = held \ {offset}
  /\ dropped' = dropped \ {offset}
  /\ written' = [written EXCEPT ![offset] = ZeroPage]
  /\ loaded' = NoLoad
  /\ UNCHANGED <<out_buffer, in_buffer, storage, fetched>>

InvalidateBuffered(offset) ==
  /\ offset \in held
  /\ InOutBuffer(offset)
  /\ out_buffer_bmp' = FALSE
  /\ Forget(offset)
  /\ UNCHANGED <<tableVars, trans_page>>

InvalidateOnDpu(offset) ==
  /\ offset \in held
  /\ ~InOutBuffer(offset)
  /\ trans_page' = [trans_page EXCEPT !.id = ID_FROM_OFFSET(offset) + PAGE_VALID]
  /\ InvalidateId(trans_page'.id % PAGE_VALID)
  /\ Forget(offset)
  /\ UNCHANGED out_buffer_bmp

-----------------------------------------------------------------------------
Init ==
  /\ TableInit
  /\ out_buffer = [data |-> ZeroPage, id |-> 0]
  /\ out_buffer_bmp = FALSE
  /\ in_buffer = [data |-> ZeroPage, id |-> 0]
  /\ trans_page = [data |-> ZeroPage, id |-> 0]
  /\ storage = [b \in Blocks |-> <<ZeroPage, 0>>]
  /\ held = {}
  /\ written = [o \in PgOffs |-> ZeroPage]
  /\ fetched = FALSE
  /\ dropped = {}
  /\ loaded = NoLoad

Next ==
  \E offset \in PgOffs :
    \/ StoreRejected(offset)
    \/ \E data \in Data : StoreBuffered(offset, data) \/ StoreFlushed(offset, data)
    \/ LoadFromBuffer(offset)
    \/ LoadFromDpu(offset)
    \/ InvalidateBuffered(offset)
    \/ InvalidateOnDpu(offset)

Spec == Init /\ [][Next]_vars

-----------------------------------------------------------------------------
(* What the back end has to guarantee.                                     *)

PageContents == Data \cup {ZeroPage, Garbage}
Descriptor == [data : PageContents, id : Nat]

(* Every variable of the back end has its type, and the kernel holds only  *)
(* offsets the store handler accepts.                                      *)
TypeOK ==
  /\ TableTypeOK
  /\ {out_buffer, in_buffer, trans_page} \subseteq Descriptor
  /\ {out_buffer_bmp, fetched} \subseteq BOOLEAN
  /\ storage \in [Blocks -> (Data \cup {ZeroPage}) \X Nat]
  /\ held \subseteq {o \in PgOffs : Accepted(o)}
  /\ written \in [PgOffs -> Data \cup {ZeroPage}]
  /\ dropped \subseteq held
  /\ loaded \in [ret : {0, -1}, ok : BOOLEAN, offset : Nat, data : PageContents]

(* A page the kernel was told is stored is in exactly one place: waiting   *)
(* in the out buffer or in the index of the DPU - or its compression ran   *)
(* out of room, or it lost its hash slot to another page.                  *)
Placement ==
  \A o \in held :
    LET id == ID_FROM_OFFSET(o)
    IN  /\ ~(InOutBuffer(o) /\ LookupHit(id))
        /\ o \in dropped => ~InOutBuffer(o)
        /\ faults = {} => InOutBuffer(o) \/ LookupHit(id) \/ o \in dropped

(* Nothing outlives its invalidation: a page in the out buffer or in the   *)
(* index belongs to an offset the kernel still holds.                      *)
NoOrphans ==
  /\ out_buffer_bmp => \E o \in held : InOutBuffer(o)
  /\ \A i \in Slots : Live(i) => \E o \in held : ID_FROM_OFFSET(o) = owner[i]

(* Across any number of stores, flushes and invalidations the storage      *)
(* blocks of a page in the index hold the content last stored for it, even *)
(* after another page lost its hash slot.                                  *)
StorageCurrent ==
  faults \subseteq {"slot"} =>
    \A o \in held :
      LET id == ID_FROM_OFFSET(o)
          entry == hash_table[EntryIndex(id)]
      IN  LookupHit(id) => Intact(entry.block, entry.length, written[o])

(* A load for which lzo_decompress_main runs and succeeded gives the kernel *)
(* the content it last stored.                                             *)
FetchCurrent ==
  [][\A o \in PgOffs :
       loaded'.ok /\ LoadFromDpu(o) /\ faults \subseteq {"slot"}
         => loaded'.data = written[o]]_vars

-----------------------------------------------------------------------------
(* The handlers, the buffers and the index together are a cache that keeps *)
(* most pages: through any sequence of stores, loads and invalidations     *)
(* they do nothing that SwapCache does not say.                            *)

Pages   == [o \in held |-> written[o]]
Waiting == {o \in held : InOutBuffer(o)}
Lost    == {o \in held : ~InOutBuffer(o) /\ ~LookupHit(ID_FROM_OFFSET(o))}

Cache == INSTANCE SwapCache WITH
  PgOffs   <- {o \in PgOffs : Accepted(o)},
  PageId   <- [o \in PgOffs |-> ID_FROM_OFFSET(o)],
  Slot     <- [o \in PgOffs |-> EntryIndex(ID_FROM_OFFSET(o))],
  NoAnswer <- NoLoad,
  pages    <- Pages,
  waiting  <- Waiting,
  lost     <- Lost,
  sound    <- faults \subseteq {"slot"},
  transfer <- trans_page.data,
  recent   <- [id |-> in_buffer.id, data |-> in_buffer.data, ok |-> fetched],
  answer   <- loaded

CacheSpec == Cache!Spec

-----------------------------------------------------------------------------
(* Statements made in the source that the handlers do not keep.            *)

Loaded == loaded # NoLoad /\ loaded.ret = 0

(* "return -1 on entry not found or error": a load that returns 0 found    *)
(* the page in a buffer or ran a DPU program that found it.                *)
ErrorsReported == Loaded => loaded.ok

(* "frees an entry in zswap": no content that was invalidated is loaded    *)
(* again.  A page that was decompressed without error is the page that is  *)
(* in the index.                                                           *)
LoadCurrent ==
  Loaded /\ loaded.ok /\ LookupHit(ID_FROM_OFFSET(loaded.offset)) /\ faults = {}
    => loaded.data = written[loaded.offset]
=============================================================================
