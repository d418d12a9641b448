----------------------------- MODULE AllocTable -----------------------------
(***************************************************************************)
(* The static page allocator of module/alloc_static.c, as it runs on one   *)
(* DPU.  The MRAM "directory" holds                                        *)
(*   - dir_level2: one bit per storage block, cut into sections,           *)
(*   - dir_level1: one bit per section, meant to say "section is full",    *)
(*   - hash_table: one entry per hash of a page id.                        *)
(*                                                                         *)
(* A bitmap is the set of its one bits.  The bits of the second level are  *)
(* kept per section: l2[s] is the set of used block offsets of section s.  *)
(***************************************************************************)
EXTENDS Integers, FiniteSets

CONSTANTS
  L1_ENTRIES,              \* ALLOC_TABLE_L1_ENTRIES, bytes of level 1
  L1_BITS_PER_ENTRY,       \* 8
  L2_ENTRIES_PER_SECTION,  \* ALLOC_TABLE_L2_ENTRIES_PER_SECTION, 64
  L2_BITS_PER_ENTRY,       \* 8
  STORAGE_BLOCK_SIZE,      \* 64
  NUM_HASH_ENTRIES,        \* 377313
  UINT16,                  \* 2^16, the number of values of a uint16_t
  Ids,                     \* the page ids that are used
  Lengths,                 \* the lengths of the pages to store
  NULL,                    \* the result of an allocation that found no room
  MaxPages                 \* bound: no allocation once stats.current_pages is here

NUM_L2_SECTIONS    == L1_ENTRIES * L1_BITS_PER_ENTRY
BLOCKS_PER_SECTION == L2_ENTRIES_PER_SECTION * L2_BITS_PER_ENTRY
NUM_STORAGE_BLOCKS == NUM_L2_SECTIONS * BLOCKS_PER_SECTION

Sections == 0 .. NUM_L2_SECTIONS - 1
Offsets  == 0 .. BLOCKS_PER_SECTION - 1
Blocks   == 0 .. NUM_STORAGE_BLOCKS - 1
Slots    == 0 .. UINT16 - 1

ASSUME GeometryAssumption ==
  /\ {L1_ENTRIES, L1_BITS_PER_ENTRY, L2_ENTRIES_PER_SECTION,
      L2_BITS_PER_ENTRY, STORAGE_BLOCK_SIZE} \subseteq Nat \ {0}
  /\ {NUM_HASH_ENTRIES, UINT16, MaxPages} \subseteq Nat \ {0}

ASSUME InputAssumption ==
  /\ Ids \subseteq Nat
  /\ Lengths \subseteq Nat \ {0}
  /\ NULL \notin Blocks

VARIABLES
  l1,          \* dir_level1: the sections marked full
  l2,          \* dir_level2: for each section, the offsets of its used blocks
  hash_table,  \* for each slot, a struct pim_hash_entry
  stats,       \* struct statistics: what is in use now
  owner,       \* history: for each slot, the id the entry was written for
  faults       \* history: which of the three hazards below has been met

tableVars == <<l1, l2, hash_table, stats, owner, faults>>

(***************************************************************************)
(* "carry"  a run of free blocks was counted across a full L2 entry;       *)
(* "uninit" first_block was read before anything was assigned to it;       *)
(* "slot"   an id was given storage while its hash slot was in use.        *)
(***************************************************************************)
FaultKinds == {"carry", "uninit", "slot"}

-----------------------------------------------------------------------------
(* Arithmetic of block numbers, ids and lengths.                           *)

L2_SECTION_FROM_BLOCK(b) == b \div BLOCKS_PER_SECTION
OFFSET_FROM_BLOCK(b)     == b % BLOCKS_PER_SECTION
L1_ENTRY_FROM_SECTION(s) == s \div L1_BITS_PER_ENTRY

NumBlocks(length) == (length + (STORAGE_BLOCK_SIZE - 1)) \div STORAGE_BLOCK_SIZE

(* The hash of an id is kept in a uint16_t: it is taken modulo the size of *)
(* the table first and cut to 16 bits by the assignment.                   *)
EntryIndex(id) == (id % NUM_HASH_ENTRIES) % UINT16

(* Mutant: the tag is not cut to 16 bits.                                  *)
TagUncut(id) == id

TAG_FROM_ID(id) == id % UINT16

-----------------------------------------------------------------------------
(* The search for free blocks inside one section, whose used bits are bits.*)

(* The L2 entry (byte) that holds offset o is 0xFF.                        *)
EntryFull(bits, o) ==
  \A p \in Offsets :
    p \div L2_BITS_PER_ENTRY = o \div L2_BITS_PER_ENTRY => p \in bits

(* The offsets of a..b that the search looks at: full entries are skipped. *)
Visited(bits, a, b) == {o \in a .. b : ~EntryFull(bits, o)}

(* From a to b the search meets n free bits and no used one.               *)
IsRun(bits, n, a, b) ==
  /\ a \notin bits
  /\ b \notin bits
  /\ b - a + 1 >= n
  /\ Visited(bits, a, b) \cap bits = {}
  /\ Cardinality(Visited(bits, a, b)) = n

HasRun(bits, n) == \E b \in Offsets : \E a \in 0 .. b : IsRun(bits, n, a, b)

(* find_free_blocks_l2 stops at the first bit that completes a run: a is   *)
(* the block it returns, b the bit it stops at.                            *)
FindFreeBlocksL2(bits, n, a, b) ==
  /\ IsRun(bits, n, a, b)
  /\ \A d \in 0 .. b - 1 : \A c \in 0 .. d : ~IsRun(bits, n, c, d)

(* Mutant: the marking loop stops one block short.                         *)
MarkedShort(n, b) == (b - n + 2) .. b

(* It marks n bits from b downwards, whatever a is.                        *)
MarkedBlocks(n, b) == (b - n + 1) .. b

(* Mutant: a full L2 entry is taken for a full section.                    *)
UpdateL1Eager(bits, marked) ==
  \E o \in marked : EntryFull(bits \cup {p \in marked : p >= o}, o)

(* *update_l1: some entry turned 0xFF while marking, and now all are.      *)
UpdateL1(bits, marked) ==
  /\ \E o \in marked : EntryFull(bits \cup {p \in marked : p >= o}, o)
  /\ \A o \in Offsets : o \in bits \cup marked

-----------------------------------------------------------------------------
(* The hash index.                                                         *)

(* Mutant: any entry in use is a hit.                                      *)
LookupUntagged(id) == hash_table[EntryIndex(id)].length # 0

LookupHit(id) ==
  /\ hash_table[EntryIndex(id)].length # 0
  /\ hash_table[EntryIndex(id)].tag = TAG_FROM_ID(id)

(* Mutant: the removal of an entry is not recognised.                      *)
InsertRefusedAlways(id, block, length) == hash_table[EntryIndex(id)].length # 0

InsertRefused(id, block, length) ==
  block # 0 /\ length # 0 /\ hash_table[EntryIndex(id)].length # 0

InsertIndexHash(id, block, length) ==
  IF InsertRefused(id, block, length)
  THEN UNCHANGED <<hash_table, owner>>
  ELSE /\ hash_table' = [hash_table EXCEPT ![EntryIndex(id)] =
             [block |-> block, tag |-> TAG_FROM_ID(id), length |-> length]]
       /\ owner' = [owner EXCEPT ![EntryIndex(id)] = id]

-----------------------------------------------------------------------------
(* pimswap_alloc_page_static(id, length), which returns block (the model   *)
(* of the address of that storage block) or NULL.                          *)

(* The bookkeeping every successful allocation ends with.                  *)
RecordPage(id, length, block, met) ==
  /\ stats' = [pages  |-> stats.pages + 1,
               blocks |-> stats.blocks + NumBlocks(length),
               bytes  |-> stats.bytes + length]
  /\ InsertIndexHash(id, block, length)
  /\ faults' = faults \cup met \cup
       (IF hash_table[EntryIndex(id)].length # 0 THEN {"slot"} ELSE {})

(* The first section, in order, that L1 does not rule out and that has a   *)
(* run of n blocks gives the storage.                                      *)
AllocFound(id, length, block) ==
  LET n == NumBlocks(length)
      s == L2_SECTION_FROM_BLOCK(block)
      a == OFFSET_FROM_BLOCK(block)
  IN  /\ s \notin l1
      /\ a \notin l2[s]
      /\ \A t \in Sections \ l1 : t < s => ~HasRun(l2[t], n)
      /\ \E b \in Offsets :
           /\ FindFreeBlocksL2(l2[s], n, a, b)
           /\ l2' = [l2 EXCEPT ![s] = @ \cup MarkedBlocks(n, b)]
           /\ l1' = IF UpdateL1(l2[s], MarkedBlocks(n, b)) THEN l1 \cup {s} ELSE l1
           /\ RecordPage(id, length, block,
                         IF b - a + 1 # n THEN {"carry"} ELSE {})

(* No section has a run: NULL.                                             *)
AllocFull(length, block) ==
  /\ \A s \in Sections \ l1 : ~HasRun(l2[s], NumBlocks(length))
  /\ block = NULL
  /\ UNCHANGED tableVars

(* When every bit of the first L1 entry is set the loop body has assigned  *)
(* nothing to first_block by the time it is compared with UINT_MAX.  A     *)
(* value other than UINT_MAX ends the loop and is used as the block; the   *)
(* L1 bit that is then set again lies in an entry that is 0xFF already.    *)
(* (UINT_MAX itself continues the loop: AllocFound or AllocFull.)          *)
AllocUninit(id, length, block) ==
  /\ \A s \in Sections : L1_ENTRY_FROM_SECTION(s) = 0 => s \in l1
  /\ UNCHANGED <<l1, l2>>
  /\ RecordPage(id, length, block, {"uninit"})

AllocPageStatic(id, length, block) ==
  /\ stats.pages < MaxPages
  /\ \/ block \in Blocks /\ AllocFound(id, length, block)
     \/ AllocFull(length, block)
     \/ block \in Blocks /\ AllocUninit(id, length, block)

-----------------------------------------------------------------------------
(* pimswap_free_page_static and the index removal that follows it.         *)

(* Mutant: the clearing loop stops one block short.                        *)
FreeBlocksShort(bits, n, a) == {o \in bits : ~(a <= o /\ o < a + n - 1)}

(* free_blocks_l2 clears n bits from offset a; it stops at the end of the  *)
(* section it has read.                                                    *)
FreeBlocksL2(bits, n, a) == {o \in bits : ~(a <= o /\ o < a + n)}

FreePageStatic(id) ==
  LET e == hash_table[EntryIndex(id)]
      s == L2_SECTION_FROM_BLOCK(e.block)
  IN  /\ l2' = [l2 EXCEPT ![s] =
                  FreeBlocksL2(@, NumBlocks(e.length), OFFSET_FROM_BLOCK(e.block))]
      /\ l1' = l1 \ {s}
      /\ stats' = [pages  |-> stats.pages - 1,
                   blocks |-> stats.blocks - NumBlocks(e.length),
                   bytes  |-> stats.bytes - e.length]

(* Mutant: the page is freed and stays in the index.                       *)
InvalidateKeepsEntry(id) ==
  IF LookupHit(id)
  THEN FreePageStatic(id) /\ UNCHANGED <<hash_table, owner, faults>>
  ELSE UNCHANGED tableVars

(* What dpu_invalidate_main does with the id it is given.  block = 0 and   *)
(* length = 0 removes the entry.                                           *)
InvalidateId(id) ==
  IF LookupHit(id)
  THEN /\ FreePageStatic(id)
       /\ InsertIndexHash(id, 0, 0)
       /\ UNCHANGED faults
  ELSE UNCHANGED tableVars

-----------------------------------------------------------------------------
(* MRAM starts as zeroes (dpu_alloc).                                      *)
TableInit ==
  /\ l1 = {}
  /\ l2 = [s \in Sections |-> {}]
  /\ hash_table = [i \in Slots |-> [block |-> 0, tag |-> 0, length |-> 0]]
  /\ stats = [pages |-> 0, blocks |-> 0, bytes |-> 0]
  /\ owner = [i \in Slots |-> 0]
  /\ faults = {}

(* The allocator on its own, under a client that may store and invalidate  *)
(* any id at any time.                                                     *)
TableNext ==
  \/ \E id \in Ids, length \in Lengths, block \in Blocks \cup {NULL} :
       AllocPageStatic(id, length, block)
  \/ \E id \in Ids : InvalidateId(id)

TableSpec == TableInit /\ [][TableNext]_tableVars

-----------------------------------------------------------------------------
(* What the allocator has to guarantee.                                    *)

HashEntry == [block : Blocks, tag : Slots, length : Lengths \cup {0}]

(* Every variable of the directory has its type.                           *)
TableTypeOK ==
  /\ l1 \subseteq Sections
  /\ l2 \in [Sections -> SUBSET Offsets]
  /\ hash_table \in [Slots -> HashEntry]
  /\ stats \in [pages : Int, blocks : Int, bytes : Int]
  /\ owner \in [Slots -> Nat]
  /\ faults \subseteq FaultKinds

(* The L1 bit of a section is set exactly when all blocks of the section   *)
(* are in use: pimswap_alloc_page_static sets it only through update_l1,   *)
(* an optimisation that looks at the section only if an entry turned 0xFF, *)
(* and pimswap_free_page_static clears it.  It holds whatever faults are   *)
(* met.                                                                    *)
L1Exact == \A s \in Sections : s \in l1 <=> l2[s] = Offsets

Live(i) == hash_table[i].length # 0
SlotSection(i) == L2_SECTION_FROM_BLOCK(hash_table[i].block)
SlotFirst(i) == OFFSET_FROM_BLOCK(hash_table[i].block)
SlotOffsets(i) ==
  SlotFirst(i) .. (SlotFirst(i) + NumBlocks(hash_table[i].length) - 1)

(* Two pages in the index have no storage block in common ...              *)
Disjoint ==
  \A i, j \in Slots :
    /\ i # j /\ Live(i) /\ Live(j)
    /\ SlotSection(i) = SlotSection(j)
    => SlotOffsets(i) \cap SlotOffsets(j) = {}

(* ... and all their blocks are marked used.                               *)
Reserved ==
  \A i \in Slots : Live(i) => SlotOffsets(i) \subseteq l2[SlotSection(i)]

(* As long as no run was counted across a full entry and no uninitialised  *)
(* first_block was used, pages never share a block and a block that        *)
(* belongs to a page is never handed out again.                            *)
NoOverlap == faults \subseteq {"slot"} => Disjoint /\ Reserved

(* As long as no fault is met, a block that is marked used belongs to a    *)
(* page of the index: an invalidation gives back all of the page.          *)
NoLeak ==
  faults = {} =>
    \A s \in Sections : \A o \in l2[s] :
      \E i \in Slots : Live(i) /\ SlotSection(i) = s /\ o \in SlotOffsets(i)

(* n consecutive free blocks in one section.                               *)
FreeRun(s, n) == \E a \in Offsets : a + n - 1 \in Offsets /\ (a .. a + n - 1) \cap l2[s] = {}

(* The allocator reports "FULL" only when no section has enough            *)
(* consecutive free blocks: neither a stale L1 bit nor the skipping of     *)
(* full L2 entries hides room.                                             *)
NoFalseFull ==
  \A length \in Lengths :
    (\A s \in Sections \ l1 : ~HasRun(l2[s], NumBlocks(length)))
      => \A s \in Sections : ~FreeRun(s, NumBlocks(length))

(* The "blocks" statistic that is printed after each operation is the      *)
(* number of blocks marked used.                                           *)
StatsExact ==
  faults \subseteq {"slot"} =>
    stats.blocks = Cardinality({x \in Sections \X Offsets : x[2] \in l2[x[1]]})

(* A lookup that succeeds finds the entry that was written for that id.    *)
LookupSound ==
  \A id \in Ids : LookupHit(id) => owner[EntryIndex(id)] = id

-----------------------------------------------------------------------------
(* Statements made in the source that the allocator does not keep.         *)

(* "look for 'num_blocks' consecutive bits in this section": pages whose   *)
(* storage came from the search of find_free_blocks_l2 share no block.     *)
ConsecutiveBits == "uninit" \notin faults => Disjoint
=============================================================================
