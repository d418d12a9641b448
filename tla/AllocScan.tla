----------------------------- MODULE AllocScan ------------------------------
(***************************************************************************)
(* The loops of module/alloc_static.c one turn at a time: the walk over    *)
(* the level 1 bits in pimswap_alloc_page_static, the search, the marking  *)
(* and the check of find_free_blocks_l2, and the clearing of               *)
(* free_blocks_l2.  The loops work on a WRAM copy of one section.          *)
(*                                                                         *)
(* The program is alone on its DPU, and no loop reads MRAM once the copy   *)
(* is made: all MRAM writes of a call are made in its last step.           *)
(***************************************************************************)
EXTENDS AllocTable

CONSTANT UINT_MAX  \* 2^32 - 1, which is not a block

ASSUME ScanAssumption == UINT_MAX \in Nat /\ UINT_MAX \notin Blocks \cup {NULL}

VARIABLES
  pc,           \* "idle": no program runs; else the loop that is running
  call,         \* the arguments of the running call
  section,      \* the level 1 bit looked at, then the section copied to WRAM
  first_block,  \* of pimswap_alloc_page_static; NULL: never assigned
  update_l1,    \* whether the level 1 bit is to be set
  l2_entries,   \* the copy of the section: the offsets of its used blocks
  l2_entry,     \* entry and ...
  bit,          \* ... bit that a loop looks at
  found,        \* free bits found, then bits left to mark; in free_blocks_l2
                \* the blocks that are cleared
  first,        \* first_block of find_free_blocks_l2, as an offset
  check_l2,     \* an entry turned 0xFF
  met           \* history: the faults this call has met

loopVars == <<l2_entries, l2_entry, bit, found, first, check_l2>>
callVars == <<pc, call, section, first_block, update_l1, loopVars, met>>
scanVars == <<tableVars, callVars>>

Position(e, b) == e * L2_BITS_PER_ENTRY + b
Here == Position(l2_entry, bit)
Full(e) == EntryFull(l2_entries, Position(e, 0))
num_blocks == NumBlocks(call.length)

-----------------------------------------------------------------------------
(* pimswap_alloc_page_static: the walk over level 1.                       *)

StartAlloc(id, length) ==
  /\ pc = "idle"
  /\ stats.pages < MaxPages
  /\ pc' = "l1"
  /\ call' = [id |-> id, length |-> length]
  /\ section' = 0
  /\ first_block' = NULL
  /\ update_l1' = TRUE
  /\ met' = {}
  /\ UNCHANGED <<tableVars, loopVars>>

(* The bits of an L1 entry end with the comparison that follows them.      *)
NextL1Bit ==
  IF (section + 1) % L1_BITS_PER_ENTRY = 0
  THEN pc' = "compare" /\ UNCHANGED section
  ELSE pc' = "l1" /\ section' = section + 1

L1BitSet ==
  /\ pc = "l1"
  /\ section \in l1
  /\ NextL1Bit
  /\ UNCHANGED <<tableVars, call, first_block, update_l1, loopVars, met>>

(* find_free_blocks_l2 begins.                                             *)
L1BitClear ==
  /\ pc = "l1"
  /\ section \notin l1
  /\ pc' = "entry"
  /\ l2_entries' = l2[section]
  /\ l2_entry' = 0
  /\ bit' = 0
  /\ found' = 0
  /\ check_l2' = FALSE
  /\ UNCHANGED <<tableVars, call, section, first_block, update_l1, first, met>>

(* first_block is compared with UINT_MAX.  If it was never assigned it may *)
(* have any value, which it then keeps.                                    *)
Compare ==
  /\ pc = "compare"
  /\ first_block' \in IF first_block = NULL
                      THEN Blocks \cup {UINT_MAX} ELSE {first_block}
  /\ IF first_block' # UINT_MAX
     THEN /\ pc' = "return"
          /\ met' = IF first_block = NULL THEN {"uninit"} ELSE met
          /\ UNCHANGED section
     ELSE /\ IF section + 1 \in Sections
             THEN pc' = "l1" /\ section' = section + 1
             ELSE pc' = "full" /\ UNCHANGED section
          /\ UNCHANGED met
  /\ UNCHANGED <<tableVars, call, update_l1, loopVars>>

ReturnNull ==
  /\ pc = "full"
  /\ pc' = "idle"
  /\ UNCHANGED <<tableVars, call, section, first_block, update_l1, loopVars, met>>

(* The section is written (if there was a search: an uninitialised         *)
(* first_block comes with a level 1 bit that is set already), the L1 bit   *)
(* is set, the page is recorded.                                           *)
ReturnBlock ==
  /\ pc = "return"
  /\ pc' = "idle"
  /\ l2' = IF "uninit" \in met THEN l2 ELSE [l2 EXCEPT ![section] = l2_entries]
  /\ l1' = IF update_l1 THEN l1 \cup {section} ELSE l1
  /\ RecordPage(call.id, call.length, first_block, met)
  /\ UNCHANGED <<call, section, first_block, update_l1, loopVars, met>>

-----------------------------------------------------------------------------
(* find_free_blocks_l2: the search.                                        *)

NextBit ==
  IF bit + 1 = L2_BITS_PER_ENTRY
  THEN pc' = "entry" /\ l2_entry' = l2_entry + 1 /\ bit' = 0
  ELSE pc' = "bit" /\ l2_entry' = l2_entry /\ bit' = bit + 1

(* Mutant: a full entry is looked at again and again.                      *)
SkipFullForgets ==
  /\ pc = "entry"
  /\ l2_entry < L2_ENTRIES_PER_SECTION
  /\ Full(l2_entry)
  /\ UNCHANGED scanVars

(* found is kept across a full entry.                                      *)
SkipFull ==
  /\ pc = "entry"
  /\ l2_entry < L2_ENTRIES_PER_SECTION
  /\ Full(l2_entry)
  /\ l2_entry' = l2_entry + 1
  /\ UNCHANGED <<tableVars, pc, call, section, first_block, update_l1, l2_entries,
                 bit, found, first, check_l2, met>>

EnterEntry ==
  /\ pc = "entry"
  /\ l2_entry < L2_ENTRIES_PER_SECTION
  /\ ~Full(l2_entry)
  /\ pc' = "bit"
  /\ UNCHANGED <<tableVars, call, section, first_block, update_l1, loopVars, met>>

BitFree ==
  /\ pc = "bit"
  /\ Here \notin l2_entries
  /\ first' = IF found = 0 THEN Here ELSE first
  /\ found' = found + 1
  /\ IF found + 1 = num_blocks
     THEN pc' = "mark" /\ UNCHANGED <<l2_entry, bit>>
     ELSE NextBit
  /\ UNCHANGED <<tableVars, call, section, first_block, update_l1, l2_entries,
                 check_l2, met>>

(* Mutant: a used bit does not break the sequence.                         *)
BitUsedKeeps ==
  /\ pc = "bit"
  /\ Here \in l2_entries
  /\ NextBit
  /\ UNCHANGED <<tableVars, call, section, first_block, update_l1, l2_entries, found,
                 first, check_l2, met>>

BitUsed ==
  /\ pc = "bit"
  /\ Here \in l2_entries
  /\ found' = 0
  /\ NextBit
  /\ UNCHANGED <<tableVars, call, section, first_block, update_l1, l2_entries,
                 first, check_l2, met>>

(* All entries are searched: UINT_MAX.                                     *)
NotFound ==
  /\ pc = "entry"
  /\ l2_entry = L2_ENTRIES_PER_SECTION
  /\ first_block' = UINT_MAX
  /\ NextL1Bit
  /\ UNCHANGED <<tableVars, call, update_l1, loopVars, met>>

-----------------------------------------------------------------------------
(* find_free_blocks_l2: marking backwards, then the check for a full       *)
(* section.                                                                *)

Mark ==
  /\ pc = "mark"
  /\ found > 0
  /\ found' = found - 1
  /\ l2_entries' = l2_entries \cup {Here}
  /\ check_l2' = (check_l2 \/ EntryFull(l2_entries', Here))
  /\ l2_entry' = IF bit = 0 THEN l2_entry - 1 ELSE l2_entry
  /\ bit' = IF bit = 0 THEN L2_BITS_PER_ENTRY - 1 ELSE bit - 1
  /\ UNCHANGED <<tableVars, pc, call, section, first_block, update_l1, first, met>>

(* Mutant: an entry that turned 0xFF is taken for a full section.          *)
MarkDoneUnchecked ==
  /\ pc = "mark"
  /\ found = 0
  /\ met' = IF Here + 1 # first THEN {"carry"} ELSE {}
  /\ update_l1' = check_l2
  /\ pc' = "found"
  /\ UNCHANGED <<tableVars, call, section, first_block, loopVars>>

(* The run that was marked begins elsewhere than the one that was found if *)
(* that one was counted across a full entry.                               *)
MarkDone ==
  /\ pc = "mark"
  /\ found = 0
  /\ met' = IF Here + 1 # first THEN {"carry"} ELSE {}
  /\ update_l1' = FALSE
  /\ pc' = IF check_l2 THEN "check" ELSE "found"
  /\ l2_entry' = 0
  /\ UNCHANGED <<tableVars, call, section, first_block, l2_entries, bit, found, first,
                 check_l2>>

CheckEntry ==
  /\ pc = "check"
  /\ IF l2_entry = L2_ENTRIES_PER_SECTION
     THEN pc' = "found" /\ update_l1' = TRUE /\ UNCHANGED l2_entry
     ELSE /\ IF Full(l2_entry)
             THEN l2_entry' = l2_entry + 1 /\ UNCHANGED pc
             ELSE pc' = "found" /\ UNCHANGED l2_entry
          /\ UNCHANGED update_l1
  /\ UNCHANGED <<tableVars, call, section, first_block, l2_entries, bit, found, first,
                 check_l2, met>>

(* The block is returned; the caller leaves the loop over the bits.        *)
Found ==
  /\ pc = "found"
  /\ pc' = "compare"
  /\ first_block' = section * BLOCKS_PER_SECTION + first
  /\ UNCHANGED <<tableVars, call, section, update_l1, loopVars, met>>

-----------------------------------------------------------------------------
(* dpu_invalidate_main with an id it finds: free_blocks_l2, then the L1    *)
(* bit, the statistics and the entry of the index.                         *)

StartInvalidate(id) ==
  LET e == hash_table[EntryIndex(id)]
      o == OFFSET_FROM_BLOCK(e.block)
  IN  /\ pc = "idle"
      /\ LookupHit(id)
      /\ pc' = "clear"
      /\ call' = [id |-> id, length |-> e.length]
      /\ section' = L2_SECTION_FROM_BLOCK(e.block)
      /\ l2_entries' = l2[section']
      /\ l2_entry' = o \div L2_BITS_PER_ENTRY
      /\ bit' = o % L2_BITS_PER_ENTRY
      /\ found' = 0
      /\ met' = {}
      /\ UNCHANGED <<tableVars, first_block, update_l1, first, check_l2>>

Clear ==
  /\ pc = "clear"
  /\ found < num_blocks
  /\ l2_entry < L2_ENTRIES_PER_SECTION
  /\ found' = found + 1
  /\ l2_entries' = l2_entries \ {Here}
  /\ IF bit + 1 = L2_BITS_PER_ENTRY
     THEN l2_entry' = l2_entry + 1 /\ bit' = 0
     ELSE l2_entry' = l2_entry /\ bit' = bit + 1
  /\ UNCHANGED <<tableVars, pc, call, section, first_block, update_l1, first,
                 check_l2, met>>

ClearDone ==
  /\ pc = "clear"
  /\ found = num_blocks \/ l2_entry = L2_ENTRIES_PER_SECTION
  /\ pc' = "idle"
  /\ l2' = [l2 EXCEPT ![section] = l2_entries]
  /\ l1' = l1 \ {section}
  /\ stats' = [pages  |-> stats.pages - 1,
               blocks |-> stats.blocks - num_blocks,
               bytes  |-> stats.bytes - call.length]
  /\ InsertIndexHash(call.id, 0, 0)
  /\ UNCHANGED <<faults, call, section, first_block, update_l1, loopVars, met>>

-----------------------------------------------------------------------------
ScanInit ==
  /\ TableInit
  /\ pc = "idle"
  /\ call = [id |-> 0, length |-> 0]
  /\ section = 0
  /\ first_block = NULL
  /\ update_l1 = FALSE
  /\ l2_entries = {}
  /\ l2_entry = 0
  /\ bit = 0
  /\ found = 0
  /\ first = 0
  /\ check_l2 = FALSE
  /\ met = {}

(* The steps of the program, once it is launched.                          *)
ScanStep ==
  \/ L1BitSet \/ L1BitClear \/ Compare \/ ReturnNull \/ ReturnBlock
  \/ SkipFull \/ EnterEntry \/ BitFree \/ BitUsed \/ NotFound
  \/ Mark \/ MarkDone \/ CheckEntry \/ Found
  \/ Clear \/ ClearDone

ScanNext ==
  \/ \E id \in Ids, length \in Lengths : StartAlloc(id, length)
  \/ \E id \in Ids : StartInvalidate(id)
  \/ ScanStep

(* A launched program runs: nothing can preempt it and it never waits.     *)
ScanSpec == ScanInit /\ [][ScanNext]_scanVars /\ WF_scanVars(ScanStep)

-----------------------------------------------------------------------------
(* Loop invariants.                                                        *)

Walking    == pc \in {"l1", "entry", "bit", "mark", "check", "found"}
Searching  == pc \in {"entry", "bit"}
Allocating == Walking \/ pc \in {"compare", "return", "full"}

(* A run was found in the section, and its block is to be returned.        *)
HasBlock ==
  \/ pc \in {"check", "found"}
  \/ pc \in {"compare", "return"} /\ first_block \in Blocks /\ met # {"uninit"}

ScanTypeOK ==
  /\ pc = "idle" \/ pc = "clear" \/ Allocating
  /\ pc # "idle" => call \in [id : Ids, length : Lengths]
  /\ section \in Sections
  /\ first_block \in Blocks \cup {UINT_MAX, NULL}
  /\ update_l1 \in BOOLEAN
  /\ l2_entries \subseteq Offsets
  /\ l2_entry \in -1 .. L2_ENTRIES_PER_SECTION
  /\ bit \in 0 .. L2_BITS_PER_ENTRY - 1
  /\ found \in Nat
  /\ first \in Nat
  /\ check_l2 \in BOOLEAN
  /\ met \subseteq FaultKinds

(* What each place in the program knows of the locals.                     *)
ControlInv ==
  /\ Allocating => stats.pages < MaxPages
  /\ Walking => first_block \in {UINT_MAX, NULL}
  /\ (Walking /\ pc # "l1") \/ HasBlock => section \notin l1
  /\ (Walking /\ ~HasBlock) \/ (pc = "compare" /\ first_block \notin Blocks) => met = {}
  /\ pc = "compare" => met # {"uninit"}
  /\ pc = "compare" /\ first_block \notin Blocks => (section + 1) % L1_BITS_PER_ENTRY = 0
  /\ pc \in {"compare", "return"} /\ HasBlock =>
       first_block = section * BLOCKS_PER_SECTION + first
  /\ pc = "return" => first_block \in Blocks
  /\ pc = "return" /\ met = {"uninit"} =>
       section \in l1 /\ \A s \in Sections : L1_ENTRY_FROM_SECTION(s) = 0 => s \in l1
  /\ pc = "full" => section + 1 \notin Sections
  /\ pc \in {"entry", "bit", "check", "clear"} => l2_entry >= 0
  /\ pc = "bit" => l2_entry < L2_ENTRIES_PER_SECTION /\ ~Full(l2_entry)
  /\ pc = "entry" \/ (pc = "clear" /\ l2_entry = L2_ENTRIES_PER_SECTION) => bit = 0

(* A search for n blocks that has come to p has met no run that ends       *)
(* before p, and the count free blocks it has are those of the longest run *)
(* that reaches back from p: it begins at a.                               *)
RunSoFar(bits, n, p, count, a) ==
  /\ \A d \in 0 .. p - 1 : \A c \in 0 .. d : ~IsRun(bits, n, c, d)
  /\ \A c \in 0 .. p - 1 :
       c \notin bits /\ Visited(bits, c, p - 1) \cap bits = {} => count > 0 /\ a <= c
  /\ count > 0 =>
       /\ a \in (0 .. p - 1) \ bits
       /\ Visited(bits, a, p - 1) \cap bits = {}
       /\ Cardinality(Visited(bits, a, p - 1)) = count

SearchInv ==
  Searching =>
    /\ l2_entries = l2[section]
    /\ found < num_blocks
    /\ ~check_l2
    /\ RunSoFar(l2_entries, num_blocks, Here, found, first)

(* Marking the blocks of marked, backwards, made an entry 0xFF.            *)
TurnedFull(bits, marked) ==
  \E o \in marked : EntryFull(bits \cup {p \in marked : p >= o}, o)

(* What is marked so far of the run that ends at b.                        *)
MarkInv ==
  pc = "mark" =>
    LET b == Here + num_blocks - found
    IN  /\ b \in Offsets
        /\ found <= num_blocks
        /\ FindFreeBlocksL2(l2[section], num_blocks, first, b)
        /\ l2_entries = l2[section] \cup (Here + 1 .. b)
        /\ check_l2 <=> TurnedFull(l2[section], Here + 1 .. b)

(* The run that ends at b was found and marked.                            *)
Marked(b) ==
  LET marked == MarkedBlocks(num_blocks, b)
  IN  /\ FindFreeBlocksL2(l2[section], num_blocks, first, b)
      /\ l2_entries = l2[section] \cup marked
      /\ met = IF b - first + 1 # num_blocks THEN {"carry"} ELSE {}
      /\ pc = "check" =>
           /\ TurnedFull(l2[section], marked)
           /\ \A e \in 0 .. l2_entry - 1 : Full(e)
           /\ ~update_l1
      /\ pc # "check" => (update_l1 <=> UpdateL1(l2[section], marked))

MarkedInv == HasBlock => \E b \in Offsets : Marked(b)

(* The sections that were passed over have no run; while first_block is    *)
(* unassigned they are those of the first L1 entry, and all are marked.    *)
Passed == IF pc \in {"compare", "full"} /\ first_block \notin Blocks
          THEN 0 .. section ELSE 0 .. section - 1

PassedInv ==
  /\ Allocating => \A t \in Passed \ l1 : ~HasRun(l2[t], num_blocks)
  /\ Allocating /\ first_block = NULL =>
       /\ Passed \subseteq l1
       /\ L1_ENTRY_FROM_SECTION(section) = 0

(* What is cleared so far of the blocks of a page.                         *)
ClearInv ==
  LET e == hash_table[EntryIndex(call.id)]
  IN  pc = "clear" =>
        /\ LookupHit(call.id)
        /\ call.length = e.length
        /\ section = L2_SECTION_FROM_BLOCK(e.block)
        /\ Here = OFFSET_FROM_BLOCK(e.block) + found
        /\ found <= num_blocks
        /\ l2_entries = FreeBlocksL2(l2[section], found, OFFSET_FROM_BLOCK(e.block))

(* Each loop, after every turn, has done the part of its work that the     *)
(* operators of AllocTable define for the blocks it has passed: the search *)
(* stops at the first run, what is marked backwards is what it counted     *)
(* last, and *update_l1 tells that the copy is full.                       *)
LoopInv ==
  ScanTypeOK /\ ControlInv /\ SearchInv /\ MarkInv /\ MarkedInv /\ PassedInv /\ ClearInv

(* Every call of the allocator returns: no search, marking, check or       *)
(* clearing runs on, whatever is in the bitmaps.                           *)
CallsReturn == pc # "idle" ~> pc = "idle"
=============================================================================
