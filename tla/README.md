# PIM-swap in TLA+

PIM-swap is a Linux kernel module that keeps swapped-out pages, compressed, in
the memory of UPMEM DPUs (processing-in-memory chips). The kernel hands pages to
the module through the frontswap interface; the module sends them to a DPU,
where a program compresses them and puts them in the DPU's 64 MB of MRAM. In this
repository the DPUs are simulated by the host (`module/dpu.c`).

This directory holds TLA+ modules that model the module, the TLC configurations
that check them on small instances, and TLAPS proofs, for every instance, of the main
properties of the allocator, of its loops, of the back end over it, of its handlers one
SDK call at a time, of overlapping launches, of the loading of the module and of the
Snappy compressor that is kept beside it.

## The system

| Part | State | Operations |
|---|---|---|
| Static page allocator, `alloc_static.c` | two-level bitmap (one bit per 64-byte block, one bit per section of 512 blocks), hash table from page id to block and length, statistics | alloc, free, lookup, insert |
| DPU programs, `swap.c` | the transfer page, the id and the status behind it, the storage area | compress, decompress, invalidate |
| Frontswap handlers, `swap.c` | one outgoing and one incoming page buffer per DPU, a bitmap of the outgoing ones | store, load, invalidate_page, invalidate_area |
| DPU simulation, `dpu.c` | prepared transfer buffers, the program of each DPU, the current DPU, a WRAM heap | prepare, push, load, launch, mem_alloc, alloc, free |
| Life cycle, `swap.c`, `dpu.c` | memory of the DPUs, the compressor handle, the registered ops | init_pim_swap, exit_pim_swap |
| Kernel (external) | which offsets frontswap holds | calls the handlers |
| Snappy compressor, `snappy_compress.c`, `snappy_task.c` | table of words seen, position in the block, append window of the output | dpu_compress: blocks, search, copies, literals (not linked into the module) |
| Sequential reader, `seqread.c` | two pages of MRAM in WRAM, a pointer into the first | init, seek, tell |

A store puts its page in the out buffer of the page's DPU. If that buffer is
taken, the page in it is first sent to the DPU, where `lzo_compress_main`
compresses and stores it. A load looks in the two buffers, then sends the id to
the DPU, runs `lzo_decompress_main` and reads the page back. An invalidation
drops the page from the out buffer or runs `dpu_invalidate_main`. All pages that
do not belong to DPU 0 are refused ("TEMPORARY" in the source).

What makes it hard: a store is acknowledged before the page is stored, so every
later failure hits a page that the kernel counts on; the allocator summarises
its bitmap in a second one; the id, the status and the page of three programs
share one transfer area; two host buffers act as caches; ids are hashed and
truncated; and no handler takes a lock. The Snappy compressor reads its input in
two ways, by address and as a sequence, which have to stay in step, and builds its
output in a window that goes to MRAM whenever it is full.

What would make each part correct: the allocator gives every page blocks of its own,
gives back all of them, finds room if there is room, and its loops end; a page that the
kernel was told is stored is in one place and comes back as it was stored, or the
failure is reported; transfers use the buffers prepared for them; memory is
released, and once; what Snappy writes decompresses to its input, reaches MRAM whole, and is finished.

## Modules

| Module | Models | Kind |
|---|---|---|
| `AllocTable` | the allocator and its index | specification |
| `AllocTableProofs` | theorems about `AllocTable`: its bitmaps, its index and its statistics | proofs |
| `AllocScan` | the loops of the allocator, one turn at a time; extends `AllocTable` and implements it | specification |
| `AllocScanProofs` | the facts about runs and bits, the invariants of the loops and the refinement | proofs |
| `SwapCache` | what the back end is to the kernel, a cache of pages | abstract specification |
| `FrontSwap` | handlers, buffers and DPU programs; extends `AllocTable` and implements `SwapCache` | specification |
| `FrontSwapProofs` | theorems about `FrontSwap` and its use of the allocator | proofs |
| `SmpSwap` | the same handlers one SDK call at a time, on several CPUs; extends `FrontSwap` and, for one CPU, implements it | specification |
| `SmpSwapProofs` | theorems about `SmpSwap`, most of them with one CPU | proofs |
| `Launch` | load, launch and `mem_alloc` on all DPUs of a rank, on several CPUs | specification |
| `LaunchProofs` | theorems about `Launch` | proofs |
| `Lifecycle` | loading and unloading of the module | specification |
| `LifecycleProofs` | two theorems about `Lifecycle` | proofs |
| `Snappy` | the Snappy compressor with the sequential reader | specification |
| `SnappyProofs`, `SnappyRoundTrip` | the invariant of the compressor; that its output decompresses to its input | proofs |
| `MCAllocTable`, `MCFrontSwap`, `MCSmpSwap`, `MCSnappy` | the instances for TLC (`AllocScan`, `Launch` and `Lifecycle` need none) | |

### AllocTable

A bitmap is the set of its one bits. `l2[s]` holds the used offsets of section
`s`, `l1` the sections marked full. `hash_table` has one record per value of a
`uint16_t`: the code reduces an id modulo `NUM_HASH_ENTRIES` and then stores the
result in 16 bits, and `EntryIndex` does both.

The search of `find_free_blocks_l2` is one step. `IsRun(bits, n, a, b)` says that
from the free bit `a` to the free bit `b` the loop meets `n` free bits and no used
one, where it does not look into entries that are 0xFF; `FindFreeBlocksL2` picks
the run that ends first, which is where the loop stops. `MarkedBlocks` are the `n`
bits up to `b` that the code marks backwards, and `UpdateL1` is the shortcut that
decides whether L1 is written.

`pimswap_alloc_page_static` is `AllocPageStatic`. Its three disjuncts are: a
section with a run gives the storage (`AllocFound`); there is none (`AllocFull`);
the first L1 entry is 0xFF, so that `first_block` is compared with `UINT_MAX`
before anything was assigned to it, and an arbitrary value is used
(`AllocUninit`). The arbitrary value ranges over the block numbers of the storage
area, the outcomes after which the allocator goes on working.
`InvalidateId` is `dpu_invalidate_main`: free, look up again, remove the entry.

Two history variables are not in the code. `owner` remembers for which id an
entry was written. `faults` remembers that one of three things happened:
`"carry"`, a run was counted across a full entry; `"uninit"`, an uninitialised
block was used; `"slot"`, storage was given to an id whose slot was in use.
The properties say what holds until such a fault and which parts hold in
spite of it.

The client of `TableSpec` may store and invalidate any id at any time, which is
more than the kernel does; `FrontSwap` restricts it to the kernel's protocol.

### AllocScan

`pc` is the loop that runs and the other variables are the locals of the source:
`l2_entry` and `bit` are the two counters, `found` and `first` those of the search,
`l2_entries` the WRAM copy of the section, which is written back when the call ends.

    StartAlloc  (L1BitSet | L1BitClear search NotFound | L1BitClear search mark check Found)*
      Compare  ReturnBlock | ReturnNull
        search:  (SkipFull | EnterEntry (BitFree | BitUsed)*)*
        mark:    Mark*  MarkDone
        check:   CheckEntry*
    StartInvalidate  Clear*  ClearDone

`Compare` is the comparison of `first_block` that follows the bits of an L1 entry; a
`first_block` that was never assigned is any block, or `UINT_MAX`. Nothing is written
to MRAM before the last step of a call, so each call is a sequence of stutters of
`TableSpec` and one step of it, and no refinement mapping is needed beyond the
variables that the modules share.

### FrontSwap

Only DPU 0 is modelled: the others are only ever sent the id 0, which their
programs ignore. `out_buffer`, `out_buffer_bmp` and `in_buffer` are the host's
buffers, `trans_page` the transfer page with the word behind it, which is the id
for the host and, after a compression, the status. The flag `PAGE_VALID` is
kept as a number added to an id, so that a comparison that forgets it fails as
it does in the code. A stored page is a sequence of pieces, one per storage
block; a page reads back only if all its pieces are in place.

`StoreBuffered` and `StoreFlushed` are the two paths of
`pimswap_frontswap_store_old`. The ops table names
`pimswap_frontswap_store_kernel` instead, an unfinished function that does not
compile yet; `store_old` is the store that the other handlers were written for.
`LoadFromBuffer` and `LoadFromDpu`, `InvalidateBuffered` and `InvalidateOnDpu`
are the paths of the other handlers. Huge pages are refused by the store, as
are other DPUs and ranks: `StoreRejected`. `invalidate_area` only logs.

The kernel (external) stores only offsets it does not hold - for one it holds it
first calls `invalidate_page` - and loads and invalidates only what it holds.
Offset 0 is the header of the swap device and never used. One swap device is
modelled; the handlers ignore its number.

`LzoLength` is the length that LZO makes of each content. A length that does not
save a block means that the page is stored as it is; so does a failed
compression. Reading blocks of which some were written over gives garbage or,
for a compressed page, perhaps an error.

History variables: `written`, `dropped`, `fetched` (whether the in buffer is the
result of a program that succeeded) and `loaded` (what the last step returned).

### SwapCache

What is left of the back end if the DPU, its allocator, the transfers and the index are
left out: the contents that were last stored (`pages`), and which of them can be had
back. It says how far the comments above the handlers hold:

- one page waits and is not found by a load until the next store sends it off;
- sending it off may lose one page, the one that waits (no room, or its slot is taken) or
  the page that is in its slot; no other page is lost by anything but its invalidation;
- a load that finds its page gives the content that was last stored, unless pages were
  stored over each other (`sound`; these are the faults `"carry"` and `"uninit"`);
- a load that does not find it gives the content of the last transfer, whatever page
  that was, and returns 0;
- the page loaded last is given again without asking the DPU, also if it was invalidated
  or stored anew since, and also if it was such a content.

The refinement mapping is at the end of `FrontSwap`: a page waits if it is in the out
buffer (`Waiting`); it is lost if it is held but neither there nor found in the index
(`Lost`); `transfer` is the transfer page and `recent` the in buffer. `Slot` is the hash slot of an offset,
which the cache need not compute. Operations of `SwapCache` are handlers of `FrontSwap`, except
that it does not tell apart why a page is lost.

### SmpSwap

`cpu[c]` is where CPU `c` is in which handler, with its locals. `push_data`,
`main` and `wram_heap` are the variables of `dpu.c` with these names, for DPU 0.
A step is an SDK call, or the part of a handler or of a program before, between
or after such calls:

    StoreStart  Push  Send  Sent  dpu_load  dpu_launch  CompressReadId
      MemAllocAcquire  MemAllocRelease  (twice)  CompressRest
      StoreDone  Pull  (Take  Taken)  StoreBack  StoreFill
    LoadStart  Push  Send  Sent  dpu_load  dpu_launch  DecompressLookup
      MemAllocAcquire  MemAllocRelease  (twice)  DecompressRest
      LoadDone  Pull  Take  Taken  LoadBack  LoadCopy
    InvalidateStart  Push  Send  Sent  dpu_load  dpu_launch  InvalidateMain  InvalidateDone

`__dpu_push_xfer` is three steps, since it takes no lock: it tests `push_data` (`Push`,
`Pull`), copies (`Send`, `Take`) and clears it (`Sent`, `Taken`), and another CPU may do
anything in between. The copy uses the pointer that was tested or the one that is there
now, as the compiler has it (`CopyBuffer`); the `memcpy` itself is one step. Without a
buffer the transfer copies and clears nothing, which with one CPU is always so for the
transfer back of a store.

A program reads the id once and keeps it (`cpu[c].id`), looks up the page before
it allocates WRAM (`cpu[c].found`), and reads the page it compresses at its end.
`push_data` records which kind of buffer was prepared: the out buffer, the in
buffer, the id in it, or the `invalidate_id` on the stack of a CPU, and for which call. A
copy that finds a null pointer, one of the wrong kind for its length, or one into the
stack of an invalidation that has returned (`OnStack`) sets `wild`, and the model stops:
with several CPUs it says what can go wrong first, not all that follows. In the
same spirit the body of a program between its allocations and its end is one
step. The kernel (external) never runs two operations on one offset at once;
nothing else is serialised, since the handlers take no lock.

The refinement mapping of `AtomicSpec` says where each handler, run alone, takes its
step of `FrontSwap`. A store that has to flush the out buffer takes it when its program
has compressed the page (`CompressRest`), an invalidation when its program has removed
the page (`InvalidateMain`): from there on (`Flushed`, `Removed`) the mapping gives the
abstract back end what the handler still has to do, such as to fill the out buffer. Every
other handler takes its step when it returns. Until then it may have changed the in
buffer, the transfer page or `fetched`; `before`, a history variable, keeps what these
were when no handler was running. The directory and the storage are the same in both.

### Launch

What `SmpSwap` leaves out of `dpu.c`: the DPUs 1 to 3, and what the launches of all CPUs
share, which is `current_dpu` and the fields `main`, `current_tasklet` and `wram_heap` of
`dpus[]`. There is a step for each of the accesses to them in `dpu_load`, `dpu_launch` and
`mem_alloc`:

    Call  dpu_load (for each DPU)
      (StartDpu  FirstTasklet
        (ResetHeap  CallMain  ReadId  (MemAllocAcquire  MemAllocRelease)*  Rest
         NextTasklet)*)*
    Return

`dpu_id` is a local of the launch; a program knows its DPU from `current_dpu` only. A
program allocates WRAM if the DPU that is current was sent an id, which only DPU 0 is
(`PageDpu`), and otherwise ends at once. A load launches its program on the DPU of its
page alone (`LastDpu`), the other handlers on all DPUs. What else the programs do is
`SmpSwap`'s subject.

The accesses are data races, so what the compiler keeps in a register matters. The
first test of the loop over the tasklets follows a store of 0 to the variable it tests,
and is decided when the module is built; `FirstTasklet` therefore does not test. The
program is called through a pointer, so after it `current_tasklet` is read again;
`NextTasklet` tests the sum that it stores. `mem_alloc` takes `current_dpu` once when it
reads the heap pointer and once when it writes it.

`wram_heap` counts in pages and has 16 bits, which is exactly the size of WRAM
(`Advanced`). `ran` is a history variable.

### Snappy

`dpu_compress` cuts the input into blocks; `compress_block` searches each for words
that the table has seen, and emits a literal for what lies between matches and copies
for the matches; `write_output_buffer` and `copy_output_buffer` append to a window of
the output. `StartBlock` and `Finish` are the two ends of the loop over the blocks;
`Begin`, `Scan` and `Copy` the two nested loops of `compress_block`; `EmitCopy`,
`EmitLiteral`, `WriteOutputBuffer` and `CopyOutputBuffer` one turn of the loops below
them; `Emitted` and `Return` the way back.

`input.curr` is the place the code believes the reader is at, and
`input.mram_addr + input.ptr` the place it is at. `read_uint32` takes a word from the
two pages in the cache if the four bytes are near, and from MRAM otherwise. Data are
bytes of a small set; a tag is as many elements of the output as the code gives it
bytes, each carrying the tag's values reduced to the bits they are kept in
(`CopyTag`). `__builtin_ctz(0)`, which the comparison of words calls at the end of a
block, may return anything. The hash function is a constant: the comment above
`hash` says that any will do.

`buffer`, the output in MRAM, has the bytes that were ever written to it; the code writes
the length of a block back with the bytes around it, which do not change. `decoded` is a
history variable: what a decompressor makes of the tags and literals of
the block emitted so far. `stream` is another: all bytes of the output in order, with
the four bytes of a length standing for themselves where the window had gone to MRAM
before the length was known, and reserved elsewhere.

The compressor is not linked into the module: `snappy_task.c` calls the stub
`kernel_compress`. `Snappy` uses addresses as a DPU has them. The port to the kernel
uses offsets into WRAM and pointers for the same variables, which is not modelled, nor
is the preparation of several tasklets (`NR_TASKLETS` is 1).

Two things the code does that its model shows and the properties are written around:
a block shorter than `input_margin_bytes` is not consumed, so the loop over the
blocks goes on reserving lengths for it; and the length of a block goes to MRAM alone,
so that it is lost when its four bytes were still in the window, which is written over
them later.

### Lifecycle

One action for each allocation of `dpu_alloc` and `init_pim_swap` and one for its
failure, with the undo loop that the failure runs. Memory is a set of chunks,
told apart by kind, DPU and load. The code gets it from `vmalloc` (`dpu.c:73`, `90`) and
hands it to `kfree` (`80`, `96`, `115`), which is not its release, and what `kfree` does
with such an address is undefined. So no chunk ever leaves `chunks`; `kfreed` holds
what was handed to `kfree`, and `freed_twice` what was handed over again. The
model goes on after such a call as if it had done nothing. Besides, `dpu_free`
leaves out the WRAM, and `init_pim_swap` calls nothing when it finds no compressor
(`swap.c:575`); `UndoReachesAll` says so. The static variables of the module start afresh with each
load.

## Runs

Passing runs, with deadlock checking:

| Run | Checks | Bounds |
|---|---|---|
| `alloc` | `TableTypeOK`, `L1Exact`, `NoOverlap`, `NoLeak`, `NoFalseFull`, `StatsExact`, `LookupSound` | 2 sections of 3 entries of 2 bits, pages of 1, 2 and 6 blocks (a section), 3 ids of which two share a slot, 3 pages at a time |
| `alloc_scan` | `LoopInv`, `TableSpec`, `CallsReturn` | the same tables; pages of 2 and 3 blocks, 2 ids, 3 pages at a time |
| `frontswap` | `TypeOK`, `Placement`, `NoOrphans`, `StorageCurrent`, `FetchCurrent`, `CacheSpec` | 3 offsets of DPU 0 (two share a hash slot) and one of rank 1 (one of DPU 1 is in `smp_one_cpu`); a page of one block and one of two; a storage of four blocks |
| `smp_one_cpu` | `NothingPrepared`, `WramSuffices`, `AtomicSpec` | 1 CPU, 4 pages of WRAM; 3 offsets of DPU 0 (two share a slot), one of DPU 1; one content of two blocks, which fill the storage |
| `launch` | `RunsOnce`, `InsideWram`, `LaunchReturns` | 2 CPUs, 2 DPUs, one tasklet as in the source, 3 pages of WRAM; the invalidation, a program that never allocates, does nothing that a compression that finds no page does not do |
| `lifecycle` | `UndoReachesAll`, `OpsBacked` | 3 DPUs, 3 loads; the module may stay unloaded, so a deadlock is no error |
| `snappy` | `SnappyTypeOK`, `ReaderInStep`, `MatchBehind`, `RoundTrip`, `OutputStored`, `Completes` | pages and window of 16 bytes; 16 table entries of 70 values; copies of two bytes up to 16 back; see below; the program ends, so a deadlock is no error |

Three entries per section are the smallest section with a full entry between two
free ones; one section per L1 entry lets the first L1 entry fill up. With three
pages two are on the DPU while one waits in the out buffer. `LookupSound` holds for
ids below 65536; two ids 65536 apart have the same slot and the same tag, since
the slot number is cut to the 16 bits that make the tag. `MaxPages` bounds
`stats.current_pages`, which grows without limit only when pages lose their
slots.

In `alloc_scan` two pages of three blocks fill a section, and a page of two freed
beside one of two leaves a full entry to search across.

The inputs of `snappy` begin with bytes in no order (none, 20 or 70) and go on with a
period of 1, 3 or 5, and have 15 (the shortest that is compressed), 46, 68 or 90 bytes; they start at a page or inside one; the
blocks have 23, 45, 70 or 100 bytes, so that some end in a short block, and one of
them is longer than a table entry can count (70). Three hash functions tell many words
apart, few, or none. That gives literals and matches across several pages and windows,
matches longer than 64 that are cut, matches that overlap what they copy, and
matches that end with the block. `MaxOut` is longer than the output of every input
without a short block, and stops those with one.

Runs that end in a counterexample, each against a sentence of the source:

| Run | Sentence | What happens |
|---|---|---|
| `alloc_carry` | "look for 'num_blocks' consecutive bits" (`alloc_static.c:206`) | pages of 2 and 2 blocks, the first is freed, a page of 3: the search counts blocks 0 and 1, passes over the full entry of 2 and 3, and counts 4. The page is stored from block 0 on, so that it writes over block 2 of the other page; the blocks marked for it are 4, 3 and 2, so that 0 and 1 stay free |
| `load_errors` | "return -1 on entry not found or error" (`swap.c:403`) | store, load: the page waits in the out buffer and is not recognised, since its id there carries `PAGE_VALID`; the DPU does not have it, its program fails, and the load returns 0 with the old transfer page, which the in buffer then serves again |
| `load_stale` | "frees an entry in zswap" (`swap.c:484`) | load, invalidate, store anew, flush, load: the old content |
| `smp_load` | "set the page id that we are looking for" (`swap.c:444`) | between a load's transfer and its program another handler's transfer replaces the id |
| `lifecycle_undo` | "undo!" (`dpu.c:95`) | no WRAM for DPU i: its MRAM is handed to `kfree` before the loop and in the loop |

Faults without a run of their own. A page for which the DPU has no room is dropped
after its store was acknowledged, since under "check return status" (`swap.c:338`) no
status is looked at: `dropped` in `FrontSwap` records such pages, which `frontswap` and
`smp_one_cpu` reach and `Placement` allows for, and a load of one is the failure of
`load_errors`. Launches that overlap move `current_dpu` under a running program
(`OwnDpu` in `Launch` does not hold with two CPUs, whatever the comment "currently
executing dpu" at `dpu.c:16` says), and two calls of `mem_alloc` that overlap read the
same heap pointer and give the same page. Once the first 4096 blocks are in use (all bits
of the first L1 entry are set), the next page is given the value of an
uninitialised variable as its block (`alloc_static.c:308`). It is the fault `"uninit"`,
which `alloc` reaches and which `TableSpec` and `LoopInv` in `alloc_scan` follow
through the loops.

`smp_load` has two CPUs, two offsets of DPU 0 and two contents. In `smp_one_cpu` a
storage that one page fills reaches lost slots, refused pages and uninitialised
blocks with a single content; that pages are not confused is left to `frontswap`,
which has two. `MaxPages` stops new stores in `SmpSwap` and never a handler that
runs on one CPU.

### Fairness

`AllocScan` has weak fairness of `ScanStep`, the steps of a program that is running:
a launched program is a function call on the host, or a tasklet that is alone on its
DPU, and it waits for nothing. `StartAlloc` and `StartInvalidate` have none: the
kernel need not call. `CallsReturn` says that each call of the allocator returns.
`Launch` has weak fairness of `Step` for each CPU, a handler that runs, and none of
`Call`: handlers are kernel code that takes no lock and is not kept from running, so
that `LaunchReturns` must hold against another CPU that launches again and again.
`Snappy` has weak fairness of `Next` for the same reason, and `Completes` says that
`dpu_compress` returns unless there is a short block. No handler of `FrontSwap` waits
for anything, so there is nothing more to promise there.

## Proofs

All theorems hold for every value of the constants that satisfies the named
assumptions of the modules.

`AllocTableProofs` proves, for every geometry of the tables, every set of ids
and every set of lengths (`GeometryAssumption`, `InputAssumption`: sizes and
lengths are positive, `NULL` is not a block):

- `TableTypeCorrect`: `TableSpec => []TableTypeOK`. Every block that reaches the
  index is in the storage area, and the marking loop stays in its section. It
  rests on `BlockDecode` (a block number splits into a section and an offset in
  range) and on `b - a + 1 >= n` for a run.
- `L1AlwaysExact`: `TableSpec => []L1Exact`. `L1Exact` is inductive together
  with the types. The point is `UpdateL1Exact`: for a section that was not full,
  checking all entries only if one turned 0xFF gives the same answer as checking
  always, because the last bit marked completes its entry if the section is
  full.
- `NeverFalselyFull`: `TableSpec => []NoFalseFull`. A run of free blocks
  is never hidden by the skipping of full entries (`FreeRunIsFound`), nor by L1
  (`L1Exact`).
- `PagesNeverOverlap`: `TableSpec => []NoOverlap`. Needed with the types:
  disjointness alone is not inductive, since a new page is disjoint from the
  others only if their blocks are marked (`Reserved`), and freeing keeps
  `Reserved` only because pages are disjoint. A run as long as the distance
  between its ends consists of free blocks (`PlainRunIsFree`, by a cardinality
  argument), which is what the fault `"carry"` breaks.

The same module relates the parts of the directory to each other:

- `LookupAlwaysSound`: a lookup that succeeds finds the entry written for that id, if
  no two ids have the same slot and the same tag (`NoAlias`). Ids below 65536 never do
  (`SmallIdsNeverAlias`). The invariant, `OwnerInv`, is that an entry in use has the
  slot and the tag of its owner.
- `NothingLeaks`: `TableSpec => []NoLeak`. An allocation marks no more than the blocks of
  its page (`AllocKeepsOwned`), and an invalidation frees exactly those of the entry that
  it removes.
- `StatsAlwaysExact`: `TableSpec => []StatsExact`. The blocks that are marked were free
  and the blocks that are freed were marked, which is `PagesNeverOverlap`, so that both
  counts are cardinalities.

`FrontSwapProofs` proves, for every set of offsets and contents, every compressor and
every geometry:

- `BackEndTypeCorrect`: `Spec => []TypeOK`. The types alone are not inductive: that a
  flush asks the allocator for an id and a length that it takes needs `OutInv`, what waits
  in the out buffer is what was last stored at an offset that is held.
- `BackEndUsesTable`: `Spec => TableSpec`. Each handler is at most one step of the
  allocator, so that the theorems above hold of the directory in the back end.
- `PagesArePlaced` and `NothingOutlives`: `Placement` and `NoOrphans`. Neither is
  inductive without the other (`PlaceInv`): a page stored anew is not in the index
  only because its offset was not held and the index holds nothing else, and an
  invalidation leaves nothing in the index only because the page is in one place.
- `StorageAlwaysCurrent`: `StorageCurrent`, from these and `PagesNeverOverlap`. A flush
  writes blocks that were free (`AllocFresh`) and so none of another page
  (`FlushedStaysCurrent`).
- `FetchAlwaysCurrent`: `FetchCurrent`. What can be read of an intact page is that page.
- `BackEndIsCache`: `Spec => CacheSpec`, the refinement of `SwapCache`. The invariant is the
  conjunction of `PlaceInv` and `StorageCurrent` with the types. The store that flushes is the
  point (`FlushLoses`): the allocator may refuse the page that waited, or give it a slot
  that another page had, and every other page is found as before. A load that finds its
  page reads what `pages` says (`LoadDpuCached`) since the storage is current.

The last five assume `OffsetsApart`: no two ids alias, and no two offsets that the store
accepts have the same id. Offsets below `DPUS_PER_RANK * PAGE_VALID` have different ids
(`SmallDevice`).

`SmpSwapProofs` proves, for one CPU (`OneCpu`) and every geometry, set of offsets and
contents and compressor:

- `HandlersAreAtomic`: `SmpSpec => AtomicSpec`, the refinement of `FrontSwap` that the
  run `smp_one_cpu` checks on one instance. The invariant, `SmpInv`, says for each handler
  and each place in it which buffer is prepared, what the transfer page holds, which
  program is loaded and what the program has read (`StoreInv`, `LoadInv`, `MissInv`,
  `InvalidateInv`). There is a lemma for each step: most leave what `FrontSwap` sees
  unchanged (`Unseen`), the others are one of its steps. The lemmas `SameArithmetic` to
  `SameHost` show that an operator of `FrontSwap` means the same under the mapping.
- `AloneLooksForItsOwn`: `SmpSpec => []LooksForItsOwn`, which `smp_load` refutes for two
  CPUs. `SmpInv` gives that the id behind the transfer page is that of the load when its
  program reads it; no other step changes what was read (`ReadStays`).
- `WramAlwaysSuffices`: `SmpSpec => []WramSuffices` if WRAM has two pages. `WramInv` is
  the heap pointer and the pages that a program has at each place; it depends on the
  launch resetting the pointer.
- `OneCpuIsCache`: `SmpSpec => Atomic!CacheSpec`, so that the cache is also what the handlers
  are one SDK call at a time, and `OneCpuUsesTable`: `SmpSpec => TableSpec`. Both are
  theorems of `FrontSwapProofs`, instantiated with the refinement mapping; `SameTables`,
  `SameHandlers` and `SameCache` say that the instance is `AtomicSpec`. The first assumes
  `OffsetsApart`.

For any number of CPUs it proves `NothingStaysPrepared`: `SmpSpec => []NothingPrepared`.
Handlers that interleave send, fill and clear each other's buffers, but a buffer that is
prepared always belongs to a handler that has not cleared it yet (`AtTransfer`): only
that handler's own steps take it past its transfer, and the last of them clears
`push_data`, whoever set it. This is about handlers none of which went `wild`. It does not
say that a transfer uses a buffer of a handler that still runs: a push that tested a pointer
to the stack of an invalidation may use it after the invalidation has pushed and returned.
The model has that behaviour, as `wild`.

`LaunchProofs` proves, for every number of CPUs and DPUs (`LaunchAssumption`):

- `RunsAlwaysOnce`: `LaunchSpec => []RunsOnce` with one tasklet: on each DPU that the
  launch has passed, its last (a load's only one) included when it is done, its program
  ran once, and on the DPUs behind its set never. `Counted` says how
  often a launch has called a program on the DPUs before, at and after its own. What
  other CPUs store in the tasklet is never negative, so that the sum that ends the
  loop is at least one; with two tasklets a launch can be sent round again by a reset.
- `AlwaysInsideWram`: `LaunchSpec => []InsideWram`, from the types alone
  (`LaunchTypeOK`), of which the width of the heap pointer is the point: launches that
  overlap drive the pointer up without end.
- `AloneOnItsDpu`: `LaunchSpec => []OwnDpu` for one CPU.

`LifecycleProofs` proves, for every number of DPUs and of loads
(`LifecycleAssumption`):

- `UndoAlwaysReachesAll`: `LifeSpec => []UndoReachesAll`. A `dpu_alloc` that fails has handed
  to `kfree` what it allocated and nothing else; that this releases it is not claimed.
- `OpsAlwaysBacked`: `LifeSpec => []OpsBacked`.

Both rest on `LifeInv`: what the load in progress has allocated is exactly the
memory of the DPUs before `i` and, between the two allocations of an
iteration, the MRAM of DPU `i` (`Present`, `Known`). `UndoReachesAll` alone is not
inductive: that the undo loop reaches all there is needs the upper bound `Known`, that
it hands over nothing else, and that a loaded module has all it needs, the lower
bound `Present`.

`AllocScanProofs` proves for every geometry:

- `LoopsCorrect`: `ScanSpec => [](TableTypeOK /\ LoopInv)`. `LoopInv` is inductive
  together with the types. Its parts say what each loop has done of the work that the
  operators of `AllocTable` define in one step: the search (`RunSoFar`) has met no
  run and holds the longest one that reaches back from where it is; the marking has
  marked what it counted last (`MarkInv`), the check has seen full entries only
  (`MarkedInv`), the sections passed over have no run (`PassedInv`).
- `ScanImplements`: `ScanSpec => TableSpec`. When a call ends, `LoopInv` turns its last
  step into `AllocFound`, `AllocFull`, `AllocUninit` or `InvalidateId`; every other
  step leaves the tables alone.
- `LoopsNeverOverlap`: `ScanSpec => []NoOverlap`, from `PagesNeverOverlap` through the
  refinement.

`SnappyProofs` proves, for every page size, table size, input, address, block size and
hash function (`SnappyAssumption`):

- `SnappyTypeCorrect`, `ReaderAlwaysInStep` and `MatchesBehind`: `Spec => []` of
  `SnappyTypeOK`, `ReaderInStep` and `MatchBehind`. They rest on `SInv`. The reader is in step because a
  seek reaches its target on whatever page it is (`SeekReaches`) and every match and
  literal moves it by its length. A match is behind because table entries lead only
  to places already passed (`TableBehind`), which includes a place cut to 16 bits,
  since that is never larger. The output stays in its window because
  a tag or a byte is written only after room was made, also right after the four
  bytes of a length went over the end of the window (`WindowInv`).
- `OutputAlwaysStored`: `Spec => []OutputStored`, all output is in MRAM at the end, but for
  the length fields. The invariant (`StoredInv`) is that the bytes of `stream` before the
  window are in MRAM, those from its start on are in the window, and those past its
  end are reserved for a length.

`SnappyRoundTrip` proves:

- `AnyHashRoundTrips`: `Spec => []RoundTrip`, the comment of the source that any hash
  function gives a valid stream. The invariant (`RoundInv`) adds to `SInv` what is
  still to be emitted of a match, and that those bytes repeat `offset` bytes back
  (`Pending`). `MatchLength` and `MatchRepeats` show that the comparison of words
  stops at equal bytes only, `Periodic` that a copy that overlaps its source gives
  the input, `CopyTagExact` and `ChunkLeaves` that no tag loses bits of its
  offset or length: in a block that is not longer than 65536 the offset fits, and
  the cut into 64 and 60 never leaves one to three bytes.

Only model-checked: liveness (`CallsReturn`, `LaunchReturns`, `Completes`), which under
fairness is out of the prover's reach. Of several CPUs in `SmpSwap` nothing is proved
beyond `NothingStaysPrepared`. No module uses a recursive operator.

## Plan

1. (done) `AllocTable`, its runs and its theorems; `FrontSwap` and its runs.
2. (done) `SmpSwap`, the handlers one SDK call at a time, which implement
   `FrontSwap` with one CPU; `Launch` and its theorems, the other DPUs and
   `current_dpu`, which another CPU's launch changes under a running program.
3. (done) `Lifecycle` and its theorems.
4. (done) `AllocScan`, the loops of the allocator, their invariants, refinement and
   termination.
5. (done) `Snappy` with the sequential reader, and the proof of its round trip.
6. (done) `SwapCache`, which `FrontSwap` implements, and the theorem.
7. (done) The theorems about `FrontSwap`, about `SmpSwap` with one CPU and about
   `OutputStored`: every invariant that a run checks is a theorem, and so is every
   refinement.
8. (done) The prepared buffers in `SmpSwap` with several CPUs, each transfer three steps. (left) The statement that a
   directory without faults is a plain set of disjoint pages, which `AllocTable`
   implements.

## Not modelled

The B-tree index (never compiled, incomplete), the debug dumps, the scripts and the
build configuration, and the MRAM layout: its offsets are constants fixed at compile
time, of which the last area ends four bytes after the MRAM does (`alloc_static.h:62`
makes room for the id and not for the status).

`dpu_copy_to`, which nothing calls. The place LZO writes to: on an incompressible page it
can write past its WRAM page, into the input page behind it; the compressor is not
part of the repository. What `kfree` does with the memory of
`vmalloc` that `dpu.c` hands it. What two
programs do to each other that were given the same WRAM pages because `mem_alloc`
takes no lock, whatever its comments say. Calls of the handlers after the module was
unloaded, which have no behaviour in the source.

Of Snappy: the kernel's mixture of WRAM offsets and pointers, the preparation of
several tasklets, and `seqread_alloc`'s alignment of the cache.
