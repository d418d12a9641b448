-------------------------- MODULE AllocTableProofs --------------------------
(***************************************************************************)
(* Theorems about AllocTable, for every geometry of the tables, every set  *)
(* of ids and every set of lengths: first about each of its parts, then    *)
(* about the index and the ids it was written for, the bitmaps and the     *)
(* index, the statistics and the bitmaps.                                  *)
(***************************************************************************)
EXTENDS AllocTable, TLAPS, FiniteSetTheorems

-----------------------------------------------------------------------------
(* Arithmetic.                                                             *)

(* The sizes of the tables are positive.                                   *)
LEMMA Sizes ==
  /\ L1_BITS_PER_ENTRY \in Nat \ {0}
  /\ L2_BITS_PER_ENTRY \in Nat \ {0}
  /\ STORAGE_BLOCK_SIZE \in Nat \ {0}
  /\ NUM_HASH_ENTRIES \in Nat \ {0}
  /\ UINT16 \in Nat \ {0}
  /\ NUM_L2_SECTIONS \in Nat \ {0}
  /\ BLOCKS_PER_SECTION \in Nat \ {0}
  /\ NUM_STORAGE_BLOCKS = NUM_L2_SECTIONS * BLOCKS_PER_SECTION
<1>1. ASSUME NEW x \in Nat \ {0}, NEW y \in Nat \ {0}
      PROVE  x * y \in Nat \ {0}
  <2>1. x * y \in Nat
    OBVIOUS
  <2>2. x * y # 0
    OBVIOUS
  <2> QED BY <2>1, <2>2
<1>2. /\ L1_ENTRIES \in Nat \ {0}
      /\ L1_BITS_PER_ENTRY \in Nat \ {0}
      /\ L2_ENTRIES_PER_SECTION \in Nat \ {0}
      /\ L2_BITS_PER_ENTRY \in Nat \ {0}
      /\ STORAGE_BLOCK_SIZE \in Nat \ {0}
      /\ NUM_HASH_ENTRIES \in Nat \ {0}
      /\ UINT16 \in Nat \ {0}
  BY GeometryAssumption
<1>3. NUM_L2_SECTIONS \in Nat \ {0}
  BY <1>1, <1>2 DEF NUM_L2_SECTIONS
<1>4. BLOCKS_PER_SECTION \in Nat \ {0}
  BY <1>1, <1>2 DEF BLOCKS_PER_SECTION
<1> QED
  BY <1>2, <1>3, <1>4 DEF NUM_STORAGE_BLOCKS

(* Euclidean division.                                                     *)
LEMMA Division ==
  ASSUME NEW x \in Nat, NEW y \in Nat \ {0}
  PROVE  /\ x \div y \in Nat
         /\ x % y \in 0 .. y - 1
         /\ x = y * (x \div y) + (x % y)
  OBVIOUS

(* The quotient of a division is determined by its remainder's range.      *)
LEMMA Quotient ==
  ASSUME NEW y \in Nat \ {0}, NEW q \in Nat, NEW r \in 0 .. y - 1
  PROVE  (q * y + r) \div y = q /\ (q * y + r) % y = r
<1> DEFINE x == q * y + r
           p == x \div y
<1>1. x \in Nat
  OBVIOUS
<1>2. p \in Nat /\ x % y \in 0 .. y - 1 /\ x = y * p + (x % y)
  BY <1>1, Division
<1>3. ~(p >= q + 1)
  <2> SUFFICES ASSUME p >= q + 1 PROVE FALSE
    OBVIOUS
  <2>1. y * p >= y * (q + 1)
    <3> HIDE DEF p
    <3> QED BY <1>2
  <2> HIDE DEF p
  <2> QED BY <1>2, <2>1
<1>4. ~(q >= p + 1)
  <2> SUFFICES ASSUME q >= p + 1 PROVE FALSE
    OBVIOUS
  <2>1. y * q >= y * (p + 1)
    <3> HIDE DEF p
    <3> QED BY <1>2
  <2> HIDE DEF p
  <2> QED BY <1>2, <2>1
<1>5. p = q
  <2> HIDE DEF p
  <2> QED BY <1>2, <1>3, <1>4
<1> QED BY <1>2, <1>5

(* A block number splits into a section and an offset in it.               *)
LEMMA BlockDecode ==
  ASSUME NEW b \in Blocks
  PROVE  /\ L2_SECTION_FROM_BLOCK(b) \in Sections
         /\ OFFSET_FROM_BLOCK(b) \in Offsets
<1> DEFINE P == BLOCKS_PER_SECTION
           S == NUM_L2_SECTIONS
           q == b \div P
<1>1. P \in Nat \ {0} /\ S \in Nat \ {0} /\ b \in Nat /\ b < S * P
  BY Sizes DEF Blocks
<1>2. q \in Nat /\ b % P \in 0 .. P - 1 /\ b = P * q + (b % P)
  BY <1>1, Division
<1>3. q < S
  <2> SUFFICES ASSUME q >= S PROVE FALSE
    BY <1>1, <1>2
  <2>1. P * q >= S * P
    <3> HIDE DEF P, S, q
    <3> QED BY <1>1, <1>2
  <2> QED BY <2>1, <1>1, <1>2
<1> QED
  BY <1>1, <1>2, <1>3 DEF Sections, Offsets, L2_SECTION_FROM_BLOCK, OFFSET_FROM_BLOCK

(* A section and an offset in it make a block number.                      *)
LEMMA BlockEncode ==
  ASSUME NEW s \in Sections, NEW o \in Offsets
  PROVE  /\ s * BLOCKS_PER_SECTION + o \in Blocks
         /\ L2_SECTION_FROM_BLOCK(s * BLOCKS_PER_SECTION + o) = s
         /\ OFFSET_FROM_BLOCK(s * BLOCKS_PER_SECTION + o) = o
<1> DEFINE P == BLOCKS_PER_SECTION
           S == NUM_L2_SECTIONS
<1>1. P \in Nat \ {0} /\ S \in Nat \ {0} /\ NUM_STORAGE_BLOCKS = S * P
  BY Sizes
<1>2. s \in Nat /\ s <= S - 1 /\ o \in 0 .. P - 1
  BY <1>1 DEF Sections, Offsets
<1>3. s * P + o \in 0 .. S * P - 1
  <2> HIDE DEF P, S
  <2>1. s * P <= (S - 1) * P /\ s * P \in Nat
    BY <1>1, <1>2
  <2> QED BY <1>1, <1>2, <2>1
<1>4. (s * P + o) \div P = s /\ (s * P + o) % P = o
  BY <1>1, <1>2, Quotient
<1> QED
  BY <1>1, <1>3, <1>4 DEF Blocks, L2_SECTION_FROM_BLOCK, OFFSET_FROM_BLOCK

(* A page takes at least one block.                                        *)
LEMMA NumBlocksPositive ==
  ASSUME NEW length \in Nat \ {0}
  PROVE  NumBlocks(length) \in Nat \ {0}
<1> DEFINE y == STORAGE_BLOCK_SIZE
           x == length + (y - 1)
<1>1. y \in Nat \ {0} /\ x \in Nat /\ x >= y
  BY Sizes
<1>2. x \div y \in Nat /\ x % y \in 0 .. y - 1 /\ x = y * (x \div y) + (x % y)
  BY <1>1, Division
<1>3. x \div y # 0
  BY <1>1, <1>2
<1> QED BY <1>2, <1>3 DEF NumBlocks

(* The slot and the tag of an id fit in a uint16_t.                        *)
LEMMA IdHash ==
  ASSUME NEW id \in Ids
  PROVE  EntryIndex(id) \in Slots /\ TAG_FROM_ID(id) \in Slots
<1>1. id \in Nat
  BY InputAssumption
<1>2. id % NUM_HASH_ENTRIES \in Nat
  BY <1>1, Sizes, Division
<1> QED
  BY <1>1, <1>2, Sizes, Division DEF EntryIndex, TAG_FROM_ID, Slots

(* Zero is a block number.                                                 *)
LEMMA BlockZero == 0 \in Blocks
<1>1. NUM_STORAGE_BLOCKS \in Nat \ {0}
  <2> DEFINE P == BLOCKS_PER_SECTION
             S == NUM_L2_SECTIONS
  <2>1. P \in Nat \ {0} /\ S \in Nat \ {0} /\ NUM_STORAGE_BLOCKS = S * P
    BY Sizes
  <2> HIDE DEF P, S
  <2> QED BY <2>1
<1> QED BY <1>1 DEF Blocks

-----------------------------------------------------------------------------
(* The search for free blocks.                                             *)

(* What find_free_blocks_l2 marks lies in the section it searched and is   *)
(* not empty.                                                              *)
LEMMA MarkedInSection ==
  ASSUME NEW bits, NEW n \in Nat \ {0}, NEW a \in Offsets, NEW b \in Offsets,
         IsRun(bits, n, a, b)
  PROVE  /\ MarkedBlocks(n, b) \subseteq Offsets
         /\ b - n + 1 \in MarkedBlocks(n, b)
  BY Sizes DEF IsRun, MarkedBlocks, Offsets

(* A run that was not counted across a full entry consists of free blocks, *)
(* and exactly those are marked.                                           *)
LEMMA PlainRunIsFree ==
  ASSUME NEW bits, NEW n \in Nat \ {0}, NEW a \in Offsets, NEW b \in Offsets,
         IsRun(bits, n, a, b), b - a + 1 = n
  PROVE  /\ MarkedBlocks(n, b) = a .. b
         /\ (a .. b) \cap bits = {}
<1>1. a \in Int /\ b \in Int /\ a <= b
  BY Sizes DEF Offsets
<1>2. MarkedBlocks(n, b) = a .. b
  BY <1>1 DEF MarkedBlocks
<1>3. IsFiniteSet(a .. b) /\ Cardinality(a .. b) = n
  BY <1>1, FS_Interval
<1>4. Visited(bits, a, b) \subseteq a .. b
  BY DEF Visited
<1>5. Cardinality(Visited(bits, a, b)) = n
  BY DEF IsRun
<1>6. Visited(bits, a, b) = a .. b
  BY <1>3, <1>4, <1>5, FS_Subset
<1>7. Visited(bits, a, b) \cap bits = {}
  BY DEF IsRun
<1> QED BY <1>2, <1>6, <1>7

(* The shortcut behind *update_l1 is exact: for a section that was not     *)
(* full it reports precisely that the section is full now.                 *)
LEMMA UpdateL1Exact ==
  ASSUME NEW bits \in SUBSET Offsets, bits # Offsets,
         NEW n \in Nat \ {0}, NEW a \in Offsets, NEW b \in Offsets,
         IsRun(bits, n, a, b)
  PROVE  UpdateL1(bits, MarkedBlocks(n, b)) <=> bits \cup MarkedBlocks(n, b) = Offsets
<1> DEFINE M == MarkedBlocks(n, b)
<1>1. M \subseteq Offsets /\ b - n + 1 \in M
  BY MarkedInSection
<1>2. UpdateL1(bits, M) => bits \cup M = Offsets
  BY <1>1 DEF UpdateL1
<1>3. ASSUME bits \cup M = Offsets PROVE UpdateL1(bits, M)
  <2>1. M \subseteq {p \in M : p >= b - n + 1}
    BY Sizes DEF MarkedBlocks, Offsets
  <2>2. EntryFull(bits \cup {p \in M : p >= b - n + 1}, b - n + 1)
    BY <1>3, <2>1 DEF EntryFull
  <2> QED BY <1>1, <1>3, <2>2 DEF UpdateL1
<1> QED BY <1>2, <1>3

-----------------------------------------------------------------------------
(* Type correctness.                                                       *)

(* An insertion into the hash table keeps its type.                        *)
LEMMA InsertTyped ==
  ASSUME TableTypeOK, NEW id \in Ids, NEW block \in Blocks,
         NEW length \in Lengths \cup {0}, InsertIndexHash(id, block, length)
  PROVE  hash_table' \in [Slots -> HashEntry] /\ owner' \in [Slots -> Nat]
<1>1. EntryIndex(id) \in Slots /\ TAG_FROM_ID(id) \in Slots /\ id \in Nat
  BY IdHash, InputAssumption
<1>2. [block |-> block, tag |-> TAG_FROM_ID(id), length |-> length] \in HashEntry
  BY <1>1 DEF HashEntry
<1> QED
  BY <1>1, <1>2 DEF TableTypeOK, InsertIndexHash

(* The bookkeeping of an allocation keeps the types.                       *)
LEMMA RecordTyped ==
  ASSUME TableTypeOK, NEW id \in Ids, NEW length \in Lengths, NEW block \in Blocks,
         NEW met \in SUBSET FaultKinds, RecordPage(id, length, block, met)
  PROVE  /\ hash_table' \in [Slots -> HashEntry]
         /\ owner' \in [Slots -> Nat]
         /\ stats' \in [pages : Int, blocks : Int, bytes : Int]
         /\ faults' \subseteq FaultKinds
         /\ faults \cup met \subseteq faults'
<1>1. length \in Nat \ {0} /\ NumBlocks(length) \in Nat \ {0}
  BY InputAssumption, NumBlocksPositive
<1>2. hash_table' \in [Slots -> HashEntry] /\ owner' \in [Slots -> Nat]
  BY InsertTyped DEF RecordPage
<1>3. stats' \in [pages : Int, blocks : Int, bytes : Int]
  BY <1>1 DEF RecordPage, TableTypeOK
<1>4. faults' \subseteq FaultKinds /\ faults \cup met \subseteq faults'
  BY DEF RecordPage, TableTypeOK, FaultKinds
<1> QED BY <1>2, <1>3, <1>4

(* An entry that a lookup finds has a length that was given to the         *)
(* allocator and a block in range.                                         *)
LEMMA HitTyped ==
  ASSUME TableTypeOK, NEW id \in Ids, LookupHit(id)
  PROVE  /\ hash_table[EntryIndex(id)] \in HashEntry
         /\ hash_table[EntryIndex(id)].block \in Blocks
         /\ hash_table[EntryIndex(id)].length \in Lengths
         /\ NumBlocks(hash_table[EntryIndex(id)].length) \in Nat \ {0}
<1>1. EntryIndex(id) \in Slots
  BY IdHash
<1>2. hash_table[EntryIndex(id)] \in HashEntry
  BY <1>1 DEF TableTypeOK
<1>3. hash_table[EntryIndex(id)].length \in Lengths
  BY <1>2 DEF HashEntry, LookupHit
<1> QED
  BY <1>2, <1>3, InputAssumption, NumBlocksPositive DEF HashEntry

(* The initial directory has its type.                                     *)
LEMMA InitTyped == TableInit => TableTypeOK
<1> SUFFICES ASSUME TableInit PROVE TableTypeOK
  OBVIOUS
<1>1. 0 \in Slots
  BY Sizes DEF Slots
<1>2. [block |-> 0, tag |-> 0, length |-> 0] \in HashEntry
  BY <1>1, BlockZero DEF HashEntry
<1> QED
  BY <1>2 DEF TableInit, TableTypeOK

(* pimswap_alloc_page_static keeps the types.                              *)
LEMMA AllocTyped ==
  ASSUME TableTypeOK, NEW id \in Ids, NEW length \in Lengths, NEW block,
         AllocPageStatic(id, length, block)
  PROVE  TableTypeOK'
<1> DEFINE n == NumBlocks(length)
           s == L2_SECTION_FROM_BLOCK(block)
           a == OFFSET_FROM_BLOCK(block)
<1>1. n \in Nat \ {0}
  BY InputAssumption, NumBlocksPositive
<1>2. CASE block \in Blocks /\ AllocFound(id, length, block)
  <2>1. s \in Sections /\ a \in Offsets
    BY <1>2, BlockDecode
  <2>2. PICK b \in Offsets :
          /\ FindFreeBlocksL2(l2[s], n, a, b)
          /\ l2' = [l2 EXCEPT ![s] = @ \cup MarkedBlocks(n, b)]
          /\ l1' = IF UpdateL1(l2[s], MarkedBlocks(n, b)) THEN l1 \cup {s} ELSE l1
          /\ RecordPage(id, length, block, IF b - a + 1 # n THEN {"carry"} ELSE {})
    BY <1>2 DEF AllocFound
  <2>3. MarkedBlocks(n, b) \subseteq Offsets
    BY <1>1, <2>1, <2>2, MarkedInSection DEF FindFreeBlocksL2
  <2>4. l1' \subseteq Sections
    BY <2>1, <2>2 DEF TableTypeOK
  <2>5. l2' \in [Sections -> SUBSET Offsets]
    BY <2>1, <2>2, <2>3 DEF TableTypeOK
  <2>6. (IF b - a + 1 # n THEN {"carry"} ELSE {}) \in SUBSET FaultKinds
    BY DEF FaultKinds
  <2> HIDE DEF n, s, a
  <2> QED
    BY <1>2, <2>2, <2>4, <2>5, <2>6, RecordTyped DEF TableTypeOK
<1>3. CASE AllocFull(length, block)
  BY <1>3 DEF AllocFull, tableVars, TableTypeOK
<1>4. CASE block \in Blocks /\ AllocUninit(id, length, block)
  <2>1. RecordPage(id, length, block, {"uninit"}) /\ UNCHANGED <<l1, l2>>
    BY <1>4 DEF AllocUninit
  <2>2. {"uninit"} \in SUBSET FaultKinds
    BY DEF FaultKinds
  <2> QED
    BY <1>4, <2>1, <2>2, RecordTyped DEF TableTypeOK
<1> QED
  BY <1>2, <1>3, <1>4 DEF AllocPageStatic

(* dpu_invalidate_main keeps the types.                                    *)
LEMMA InvalidateTyped ==
  ASSUME TableTypeOK, NEW id \in Ids, InvalidateId(id)
  PROVE  TableTypeOK'
<1>1. CASE ~LookupHit(id)
  BY <1>1 DEF InvalidateId, tableVars, TableTypeOK
<1>2. CASE LookupHit(id)
  <2> DEFINE e == hash_table[EntryIndex(id)]
             s == L2_SECTION_FROM_BLOCK(e.block)
  <2>1. /\ FreePageStatic(id)
        /\ InsertIndexHash(id, 0, 0)
        /\ UNCHANGED faults
    BY <1>2 DEF InvalidateId
  <2>2. e.block \in Blocks /\ e.length \in Nat /\ NumBlocks(e.length) \in Nat
    BY <1>2, HitTyped, InputAssumption
  <2>3. hash_table' \in [Slots -> HashEntry] /\ owner' \in [Slots -> Nat]
    BY <2>1, BlockZero, InsertTyped
  <2>4. s \in Sections
    BY <2>2, BlockDecode
  <2>5. l1' \subseteq Sections /\ l2' \in [Sections -> SUBSET Offsets]
    BY <2>1, <2>4 DEF FreePageStatic, FreeBlocksL2, TableTypeOK
  <2>6. stats' \in [pages : Int, blocks : Int, bytes : Int]
    <3> HIDE DEF s
    <3> QED BY <2>1, <2>2 DEF FreePageStatic, TableTypeOK
  <2> QED
    BY <2>1, <2>3, <2>5, <2>6 DEF TableTypeOK
<1> QED BY <1>1, <1>2

(* Every variable of the directory keeps its type: in particular no block  *)
(* outside the storage area reaches the index, and find_free_blocks_l2     *)
(* never marks a bit outside the section it has read.                      *)
THEOREM TableTypeCorrect == TableSpec => []TableTypeOK
<1>1. TableInit => TableTypeOK
  BY InitTyped
<1>2. TableTypeOK /\ [TableNext]_tableVars => TableTypeOK'
  <2> SUFFICES ASSUME TableTypeOK, [TableNext]_tableVars PROVE TableTypeOK'
    OBVIOUS
  <2>1. CASE UNCHANGED tableVars
    BY <2>1 DEF tableVars, TableTypeOK
  <2>2. ASSUME NEW id \in Ids, NEW length \in Lengths, NEW block \in Blocks \cup {NULL},
               AllocPageStatic(id, length, block)
        PROVE  TableTypeOK'
    BY <2>2, AllocTyped
  <2>3. ASSUME NEW id \in Ids, InvalidateId(id) PROVE TableTypeOK'
    BY <2>3, InvalidateTyped
  <2> QED
    BY <2>1, <2>2, <2>3 DEF TableNext
<1> QED BY <1>1, <1>2, PTL DEF TableSpec

-----------------------------------------------------------------------------
(* The first level of the allocation table.                                *)

(* pimswap_alloc_page_static keeps L1 exact.                               *)
LEMMA AllocKeepsL1 ==
  ASSUME TableTypeOK, L1Exact, NEW id \in Ids, NEW length \in Lengths, NEW block,
         AllocPageStatic(id, length, block)
  PROVE  L1Exact'
<1> DEFINE n == NumBlocks(length)
           s == L2_SECTION_FROM_BLOCK(block)
           a == OFFSET_FROM_BLOCK(block)
<1>1. n \in Nat \ {0}
  BY InputAssumption, NumBlocksPositive
<1>2. CASE block \in Blocks /\ AllocFound(id, length, block)
  <2>1. s \in Sections /\ a \in Offsets
    BY <1>2, BlockDecode
  <2>2. PICK b \in Offsets :
          /\ FindFreeBlocksL2(l2[s], n, a, b)
          /\ l2' = [l2 EXCEPT ![s] = @ \cup MarkedBlocks(n, b)]
          /\ l1' = IF UpdateL1(l2[s], MarkedBlocks(n, b)) THEN l1 \cup {s} ELSE l1
    BY <1>2 DEF AllocFound
  <2>3. s \notin l1
    BY <1>2 DEF AllocFound
  <2>4. l2[s] \in SUBSET Offsets /\ l2[s] # Offsets
    BY <2>1, <2>3 DEF TableTypeOK, L1Exact
  <2>5. UpdateL1(l2[s], MarkedBlocks(n, b)) <=> l2[s] \cup MarkedBlocks(n, b) = Offsets
    BY <1>1, <2>1, <2>2, <2>4, UpdateL1Exact DEF FindFreeBlocksL2
  <2>6. l2'[s] = l2[s] \cup MarkedBlocks(n, b)
    BY <2>1, <2>2 DEF TableTypeOK
  <2>7. s \in l1' <=> l2'[s] = Offsets
    BY <2>2, <2>3, <2>5, <2>6
  <2>8. \A t \in Sections \ {s} : (t \in l1' <=> t \in l1) /\ l2'[t] = l2[t]
    BY <2>1, <2>2 DEF TableTypeOK
  <2> HIDE DEF s
  <2> QED
    BY <2>7, <2>8 DEF L1Exact
<1>3. CASE AllocFull(length, block)
  BY <1>3 DEF AllocFull, tableVars, L1Exact
<1>4. CASE block \in Blocks /\ AllocUninit(id, length, block)
  BY <1>4 DEF AllocUninit, L1Exact
<1> QED
  BY <1>2, <1>3, <1>4 DEF AllocPageStatic

(* dpu_invalidate_main keeps L1 exact: the section it clears the bit of    *)
(* has at least the first block of the page free.                          *)
LEMMA InvalidateKeepsL1 ==
  ASSUME TableTypeOK, L1Exact, NEW id \in Ids, InvalidateId(id)
  PROVE  L1Exact'
<1>1. CASE ~LookupHit(id)
  BY <1>1 DEF InvalidateId, tableVars, L1Exact
<1>2. CASE LookupHit(id)
  <2> DEFINE e == hash_table[EntryIndex(id)]
             n == NumBlocks(e.length)
             s == L2_SECTION_FROM_BLOCK(e.block)
             a == OFFSET_FROM_BLOCK(e.block)
  <2>1. l2' = [l2 EXCEPT ![s] = FreeBlocksL2(@, n, a)] /\ l1' = l1 \ {s}
    BY <1>2 DEF InvalidateId, FreePageStatic
  <2>2. e.block \in Blocks /\ n \in Nat \ {0}
    BY <1>2, HitTyped
  <2>3. s \in Sections /\ a \in Offsets
    BY <2>2, BlockDecode
  <2>4. l2'[s] = FreeBlocksL2(l2[s], n, a)
    BY <2>1, <2>3 DEF TableTypeOK
  <2>5. a \notin FreeBlocksL2(l2[s], n, a)
    BY <2>2, <2>3, Sizes DEF FreeBlocksL2, Offsets
  <2>6. s \notin l1' /\ l2'[s] # Offsets
    BY <2>1, <2>3, <2>4, <2>5
  <2>7. \A t \in Sections \ {s} : (t \in l1' <=> t \in l1) /\ l2'[t] = l2[t]
    BY <2>1, <2>3 DEF TableTypeOK
  <2> HIDE DEF s
  <2> QED
    BY <2>6, <2>7 DEF L1Exact
<1> QED BY <1>1, <1>2

(* In every reachable state the L1 bit of a section is set exactly when    *)
(* the section is full, in spite of the shortcut that computes update_l1,  *)
(* and whatever faults were met.                                           *)
THEOREM L1AlwaysExact == TableSpec => []L1Exact
<1>1. TableInit => L1Exact
  <2> SUFFICES ASSUME TableInit PROVE L1Exact
    OBVIOUS
  <2>1. 0 \in Offsets
    BY Sizes DEF Offsets
  <2> QED BY <2>1 DEF TableInit, L1Exact
<1>2. TableTypeOK /\ L1Exact /\ [TableNext]_tableVars => L1Exact'
  <2> SUFFICES ASSUME TableTypeOK, L1Exact, [TableNext]_tableVars PROVE L1Exact'
    OBVIOUS
  <2>1. CASE UNCHANGED tableVars
    BY <2>1 DEF tableVars, L1Exact
  <2>2. ASSUME NEW id \in Ids, NEW length \in Lengths, NEW block \in Blocks \cup {NULL},
               AllocPageStatic(id, length, block)
        PROVE  L1Exact'
    BY <2>2, AllocKeepsL1
  <2>3. ASSUME NEW id \in Ids, InvalidateId(id) PROVE L1Exact'
    BY <2>3, InvalidateKeepsL1
  <2> QED
    BY <2>1, <2>2, <2>3 DEF TableNext
<1> QED BY <1>1, <1>2, TableTypeCorrect, PTL DEF TableSpec

(* n consecutive free blocks are a run that the search finds: no entry     *)
(* that holds one of them is skipped.                                      *)
LEMMA FreeRunIsFound ==
  ASSUME TableTypeOK, NEW s \in Sections, NEW n \in Nat \ {0}, FreeRun(s, n)
  PROVE  HasRun(l2[s], n)
<1>1. PICK a \in Offsets : a + n - 1 \in Offsets /\ (a .. a + n - 1) \cap l2[s] = {}
  BY DEF FreeRun
<1> DEFINE b == a + n - 1
<1>2. a \in Nat /\ b \in Offsets /\ b \in Int /\ a <= b /\ b - a + 1 = n
  BY <1>1, Sizes DEF Offsets
<1>3. \A o \in a .. b : o \in Offsets /\ o \notin l2[s]
  BY <1>1, <1>2, Sizes DEF Offsets
<1>4. \A o \in a .. b : ~EntryFull(l2[s], o)
  BY <1>3 DEF EntryFull
<1>5. Visited(l2[s], a, b) = a .. b
  BY <1>4 DEF Visited
<1>6. Cardinality(a .. b) = n
  BY <1>2, FS_Interval
<1> HIDE DEF b
<1>7. IsRun(l2[s], n, a, b)
  BY <1>2, <1>3, <1>5, <1>6 DEF IsRun
<1>8. a \in 0 .. b
  BY <1>2
<1> QED BY <1>2, <1>7, <1>8 DEF HasRun

(* The allocator never reports "FULL" while some section has enough        *)
(* consecutive free blocks for the page.                                   *)
THEOREM NeverFalselyFull == TableSpec => []NoFalseFull
<1>1. TableTypeOK /\ L1Exact => NoFalseFull
  <2> SUFFICES ASSUME TableTypeOK, L1Exact,
                      NEW length \in Lengths,
                      \A s \in Sections \ l1 : ~HasRun(l2[s], NumBlocks(length)),
                      NEW s \in Sections, FreeRun(s, NumBlocks(length))
               PROVE  FALSE
    BY DEF NoFalseFull
  <2>1. NumBlocks(length) \in Nat \ {0}
    BY InputAssumption, NumBlocksPositive
  <2>2. HasRun(l2[s], NumBlocks(length))
    BY <2>1, FreeRunIsFound
  <2>3. l2[s] = Offsets
    BY <2>2 DEF L1Exact
  <2>4. PICK a \in Offsets :
          a + NumBlocks(length) - 1 \in Offsets
          /\ (a .. a + NumBlocks(length) - 1) \cap l2[s] = {}
    BY DEF FreeRun
  <2>5. a \in a .. a + NumBlocks(length) - 1
    BY <2>1, Sizes DEF Offsets
  <2> QED BY <2>3, <2>4, <2>5
<1> QED BY <1>1, TableTypeCorrect, L1AlwaysExact, PTL

-----------------------------------------------------------------------------
(* Pages do not overlap.                                                   *)

(* The blocks of a live entry are a range of integers.                     *)
LEMMA LiveTyped ==
  ASSUME TableTypeOK, NEW i \in Slots, Live(i)
  PROVE  /\ NumBlocks(hash_table[i].length) \in Nat \ {0}
         /\ SlotSection(i) \in Sections
         /\ SlotFirst(i) \in Offsets
<1>1. hash_table[i] \in HashEntry
  BY DEF TableTypeOK
<1>2. hash_table[i].block \in Blocks /\ hash_table[i].length \in Nat \ {0}
  BY <1>1, InputAssumption DEF HashEntry, Live
<1> QED
  BY <1>2, NumBlocksPositive, BlockDecode DEF SlotSection, SlotFirst

(* Entries that a step leaves alone keep their blocks.                     *)
LEMMA SameEntrySameBlocks ==
  ASSUME NEW i \in Slots, hash_table'[i] = hash_table[i]
  PROVE  /\ Live(i)' <=> Live(i)
         /\ SlotSection(i)' = SlotSection(i)
         /\ SlotOffsets(i)' = SlotOffsets(i)
  BY DEF Live, SlotSection, SlotOffsets, SlotFirst

(* An allocation that meets neither of the two faults keeps pages apart.   *)
LEMMA AllocKeepsApart ==
  ASSUME TableTypeOK, Disjoint, Reserved, NEW id \in Ids, NEW length \in Lengths,
         NEW block, AllocPageStatic(id, length, block),
         faults' \subseteq {"slot"}
  PROVE  Disjoint' /\ Reserved'
<1> DEFINE n == NumBlocks(length)
           s == L2_SECTION_FROM_BLOCK(block)
           a == OFFSET_FROM_BLOCK(block)
           e == EntryIndex(id)
<1>1. n \in Nat \ {0}
  BY InputAssumption, NumBlocksPositive
<1>2. CASE block \in Blocks /\ AllocFound(id, length, block)
  <2>1. s \in Sections /\ a \in Offsets /\ e \in Slots
    BY <1>2, BlockDecode, IdHash
  <2>2. PICK b \in Offsets :
          /\ FindFreeBlocksL2(l2[s], n, a, b)
          /\ l2' = [l2 EXCEPT ![s] = @ \cup MarkedBlocks(n, b)]
          /\ RecordPage(id, length, block, IF b - a + 1 # n THEN {"carry"} ELSE {})
    BY <1>2 DEF AllocFound
  <2>3. b - a + 1 = n
    <3> SUFFICES ASSUME b - a + 1 # n PROVE FALSE
      OBVIOUS
    <3>1. "carry" \in faults'
      BY <2>2 DEF RecordPage
    <3> QED BY <3>1
  <2>4. MarkedBlocks(n, b) = a .. b /\ (a .. b) \cap l2[s] = {}
    BY <1>1, <2>1, <2>2, <2>3, PlainRunIsFree DEF FindFreeBlocksL2
  <2>5. l2'[s] = l2[s] \cup (a .. b) /\ \A t \in Sections \ {s} : l2'[t] = l2[t]
    BY <2>1, <2>2, <2>4 DEF TableTypeOK
  <2>6. InsertIndexHash(id, block, length)
    BY <2>2 DEF RecordPage
  <2>7. CASE InsertRefused(id, block, length)
    <3>1. hash_table' = hash_table
      BY <2>6, <2>7 DEF InsertIndexHash
    <3>2. Disjoint'
      BY <3>1, SameEntrySameBlocks DEF Disjoint
    <3>3. ASSUME NEW i \in Slots, Live(i)' PROVE SlotOffsets(i)' \subseteq l2'[SlotSection(i)']
      <4>1. Live(i) /\ SlotSection(i)' = SlotSection(i) /\ SlotOffsets(i)' = SlotOffsets(i)
        BY <3>1, <3>3, SameEntrySameBlocks
      <4>2. SlotSection(i) \in Sections /\ SlotOffsets(i) \subseteq l2[SlotSection(i)]
        BY <4>1, LiveTyped DEF Reserved
      <4> HIDE DEF s
      <4> QED BY <4>1, <4>2, <2>5
    <3> QED BY <3>2, <3>3 DEF Reserved
  <2>8. CASE ~InsertRefused(id, block, length)
    <3>1. hash_table' = [hash_table EXCEPT ![e] =
             [block |-> block, tag |-> TAG_FROM_ID(id), length |-> length]]
      BY <2>6, <2>8 DEF InsertIndexHash
    <3>2. hash_table'[e] = [block |-> block, tag |-> TAG_FROM_ID(id), length |-> length]
      BY <3>1, <2>1 DEF TableTypeOK
    <3>3. SlotSection(e)' = s /\ SlotOffsets(e)' = a .. (a + n - 1)
      BY <3>2 DEF SlotSection, SlotOffsets, SlotFirst
    <3>4. SlotOffsets(e)' = a .. b
      <4>1. a + n - 1 = b
        BY <1>1, <2>1, <2>3, Sizes DEF Offsets
      <4> QED BY <3>3, <4>1
    <3>5. ASSUME NEW i \in Slots \ {e}, Live(i)'
          PROVE  /\ Live(i)
                 /\ SlotSection(i)' = SlotSection(i)
                 /\ SlotOffsets(i)' = SlotOffsets(i)
                 /\ SlotSection(i) \in Sections
                 /\ SlotOffsets(i) \subseteq l2[SlotSection(i)]
      <4>1. hash_table'[i] = hash_table[i]
        BY <3>1 DEF TableTypeOK
      <4>2. /\ Live(i)
            /\ SlotSection(i)' = SlotSection(i)
            /\ SlotOffsets(i)' = SlotOffsets(i)
        BY <4>1, <3>5, SameEntrySameBlocks
      <4> QED BY <4>2, LiveTyped DEF Reserved
    <3> HIDE DEF s, a, n, e
    <3>6. Reserved'
      <4> SUFFICES ASSUME NEW i \in Slots, Live(i)'
                   PROVE  SlotOffsets(i)' \subseteq l2'[SlotSection(i)']
        BY DEF Reserved
      <4>1. CASE i = e
        BY <4>1, <3>3, <3>4, <2>5
      <4>2. CASE i # e
        BY <4>2, <3>5, <2>5
      <4> QED BY <4>1, <4>2
    <3>7. ASSUME NEW i \in Slots \ {e}, Live(i)', SlotSection(i)' = s
          PROVE  SlotOffsets(i)' \cap SlotOffsets(e)' = {}
      BY <3>7, <3>4, <3>5, <2>4
    <3>8. Disjoint'
      <4> SUFFICES ASSUME NEW i \in Slots, NEW j \in Slots, i # j, Live(i)', Live(j)',
                          SlotSection(i)' = SlotSection(j)'
                   PROVE  SlotOffsets(i)' \cap SlotOffsets(j)' = {}
        BY DEF Disjoint
      <4>1. CASE i = e
        BY <4>1, <3>3, <3>7
      <4>2. CASE j = e
        BY <4>2, <3>3, <3>7
      <4>3. CASE i # e /\ j # e
        BY <4>3, <3>5 DEF Disjoint
      <4> QED BY <4>1, <4>2, <4>3
    <3> QED BY <3>6, <3>8
  <2> QED BY <2>7, <2>8
<1>3. CASE AllocFull(length, block)
  <2>1. UNCHANGED <<l2, hash_table>>
    BY <1>3 DEF AllocFull, tableVars
  <2> QED
    BY <2>1 DEF Disjoint, Reserved, Live, SlotSection, SlotOffsets, SlotFirst
<1>4. CASE block \in Blocks /\ AllocUninit(id, length, block)
  <2>1. "uninit" \in faults'
    BY <1>4 DEF AllocUninit, RecordPage
  <2> QED BY <2>1
<1> QED
  BY <1>2, <1>3, <1>4 DEF AllocPageStatic

(* An invalidation keeps pages apart: free_blocks_l2 clears the bits of    *)
(* the page whose entry is removed and of no other page.                   *)
LEMMA InvalidateKeepsApart ==
  ASSUME TableTypeOK, Disjoint, Reserved, NEW id \in Ids, InvalidateId(id)
  PROVE  Disjoint' /\ Reserved'
<1>1. CASE ~LookupHit(id)
  <2>1. UNCHANGED <<l2, hash_table>>
    BY <1>1 DEF InvalidateId, tableVars
  <2> QED
    BY <2>1 DEF Disjoint, Reserved, Live, SlotSection, SlotOffsets, SlotFirst
<1>2. CASE LookupHit(id)
  <2> DEFINE e == EntryIndex(id)
             n == NumBlocks(hash_table[e].length)
  <2>1. e \in Slots /\ Live(e)
    BY <1>2, IdHash DEF LookupHit, Live
  <2>2. SlotSection(e) \in Sections /\ SlotFirst(e) \in Offsets /\ n \in Nat \ {0}
    BY <2>1, LiveTyped
  <2>3. l2' = [l2 EXCEPT ![SlotSection(e)] = FreeBlocksL2(@, n, SlotFirst(e))]
    BY <1>2 DEF InvalidateId, FreePageStatic, SlotSection, SlotFirst
  <2>4. hash_table' = [hash_table EXCEPT ![e] =
           [block |-> 0, tag |-> TAG_FROM_ID(id), length |-> 0]]
    BY <1>2 DEF InvalidateId, InsertIndexHash, InsertRefused
  <2>5. ~Live(e)'
    BY <2>1, <2>4 DEF Live, TableTypeOK
  <2>6. ASSUME NEW i \in Slots \ {e}, Live(i)'
        PROVE  /\ Live(i)
               /\ SlotSection(i)' = SlotSection(i)
               /\ SlotOffsets(i)' = SlotOffsets(i)
               /\ SlotSection(i) \in Sections
               /\ SlotOffsets(i) \subseteq l2[SlotSection(i)]
    <3>1. hash_table'[i] = hash_table[i]
      BY <2>4 DEF TableTypeOK
    <3>2. /\ Live(i)
          /\ SlotSection(i)' = SlotSection(i)
          /\ SlotOffsets(i)' = SlotOffsets(i)
      BY <3>1, <2>6, SameEntrySameBlocks
    <3> QED BY <3>2, LiveTyped DEF Reserved
  <2>7. Disjoint'
    <3> SUFFICES ASSUME NEW i \in Slots, NEW j \in Slots, i # j, Live(i)', Live(j)',
                        SlotSection(i)' = SlotSection(j)'
                 PROVE  SlotOffsets(i)' \cap SlotOffsets(j)' = {}
      BY DEF Disjoint
    <3>1. i # e /\ j # e
      BY <2>5
    <3> HIDE DEF e
    <3> QED BY <3>1, <2>6 DEF Disjoint
  <2>8. ASSUME NEW i \in Slots \ {e}, Live(i)'
        PROVE  SlotOffsets(i)' \subseteq l2'[SlotSection(i)']
    <3>1. CASE SlotSection(i) # SlotSection(e)
      <4>1. l2'[SlotSection(i)] = l2[SlotSection(i)]
        BY <2>3, <2>6, <2>8, <3>1 DEF TableTypeOK
      <4> QED BY <4>1, <2>6, <2>8
    <3>2. CASE SlotSection(i) = SlotSection(e)
      <4>1. SlotOffsets(i) \cap SlotOffsets(e) = {}
        BY <2>1, <2>6, <2>8, <3>2 DEF Disjoint
      <4>2. l2'[SlotSection(e)] = FreeBlocksL2(l2[SlotSection(e)], n, SlotFirst(e))
        BY <2>2, <2>3 DEF TableTypeOK
      <4>3. l2[SlotSection(e)] \subseteq Offsets
        BY <2>2 DEF TableTypeOK
      <4>4. \A o \in l2[SlotSection(e)] \ SlotOffsets(e) :
              o \in FreeBlocksL2(l2[SlotSection(e)], n, SlotFirst(e))
        BY <2>2, <4>3, Sizes DEF FreeBlocksL2, SlotOffsets, Offsets
      <4> QED BY <4>1, <4>2, <4>4, <3>2, <2>6, <2>8
    <3> QED BY <3>1, <3>2
  <2>9. Reserved'
    <3> SUFFICES ASSUME NEW i \in Slots, Live(i)'
                 PROVE  SlotOffsets(i)' \subseteq l2'[SlotSection(i)']
      BY DEF Reserved
    <3> QED BY <2>5, <2>8
  <2> QED BY <2>7, <2>9
<1> QED BY <1>1, <1>2

(* As long as no run is counted across a full entry and no uninitialised   *)
(* first_block is used, no two pages share a storage block and no block of *)
(* a page is free - also when pages lose their hash slot to one another.   *)
THEOREM PagesNeverOverlap == TableSpec => []NoOverlap
<1>1. TableInit => NoOverlap
  <2> SUFFICES ASSUME TableInit PROVE Disjoint /\ Reserved
    BY DEF NoOverlap
  <2>1. \A i \in Slots : ~Live(i)
    BY DEF TableInit, Live
  <2> QED BY <2>1 DEF Disjoint, Reserved
<1>2. TableTypeOK /\ NoOverlap /\ [TableNext]_tableVars => NoOverlap'
  <2> SUFFICES ASSUME TableTypeOK, NoOverlap, [TableNext]_tableVars,
                      faults' \subseteq {"slot"}
               PROVE  Disjoint' /\ Reserved'
    BY DEF NoOverlap
  <2>1. CASE UNCHANGED tableVars
    BY <2>1 DEF tableVars, NoOverlap, Disjoint, Reserved, Live, SlotSection,
                SlotOffsets, SlotFirst
  <2>2. ASSUME NEW id \in Ids, NEW length \in Lengths, NEW block \in Blocks \cup {NULL},
               AllocPageStatic(id, length, block)
        PROVE  Disjoint' /\ Reserved'
    <3>1. faults \subseteq faults'
      BY <2>2 DEF AllocPageStatic, AllocFound, AllocFull, AllocUninit, RecordPage,
                  tableVars
    <3>2. Disjoint /\ Reserved
      BY <3>1 DEF NoOverlap
    <3> QED BY <2>2, <3>2, AllocKeepsApart
  <2>3. ASSUME NEW id \in Ids, InvalidateId(id)
        PROVE  Disjoint' /\ Reserved'
    <3>1. faults' = faults
      BY <2>3 DEF InvalidateId, tableVars
    <3>2. Disjoint /\ Reserved
      BY <3>1 DEF NoOverlap
    <3> QED BY <2>3, <3>2, InvalidateKeepsApart
  <2> QED
    BY <2>1, <2>2, <2>3 DEF TableNext
<1> QED BY <1>1, <1>2, TableTypeCorrect, PTL DEF TableSpec

-----------------------------------------------------------------------------
(* The index finds what was written for an id.                             *)

(* No two ids have the same slot and the same tag.                         *)
NoAlias ==
  \A i, j \in Ids :
    EntryIndex(i) = EntryIndex(j) /\ TAG_FROM_ID(i) = TAG_FROM_ID(j) => i = j

(* Ids that fit in 16 bits are told apart by their tags.                   *)
LEMMA SmallIdsNeverAlias == Ids \subseteq Slots => NoAlias
<1> SUFFICES ASSUME Ids \subseteq Slots, NEW i \in Ids, NEW j \in Ids,
                    TAG_FROM_ID(i) = TAG_FROM_ID(j)
             PROVE  i = j
  BY DEF NoAlias
<1>1. ASSUME NEW x \in Slots PROVE x % UINT16 = x
  BY Sizes DEF Slots
<1> QED BY <1>1 DEF TAG_FROM_ID

(* An entry in use has the slot and the tag of the id it was written for.  *)
OwnerInv ==
  \A i \in Slots :
    Live(i) => /\ owner[i] \in Ids
               /\ EntryIndex(owner[i]) = i
               /\ hash_table[i].tag = TAG_FROM_ID(owner[i])

(* Insertion and removal write the slot of the id, with its tag.           *)
LEMMA InsertKeepsOwner ==
  ASSUME TableTypeOK, OwnerInv, NEW id \in Ids, NEW block, NEW length,
         InsertIndexHash(id, block, length)
  PROVE  OwnerInv'
<1>1. CASE InsertRefused(id, block, length)
  BY <1>1 DEF InsertIndexHash, OwnerInv, Live
<1>2. CASE ~InsertRefused(id, block, length)
  <2>1. /\ hash_table' = [hash_table EXCEPT ![EntryIndex(id)] =
              [block |-> block, tag |-> TAG_FROM_ID(id), length |-> length]]
        /\ owner' = [owner EXCEPT ![EntryIndex(id)] = id]
    BY <1>2 DEF InsertIndexHash
  <2> SUFFICES ASSUME NEW i \in Slots, Live(i)'
               PROVE  /\ owner'[i] \in Ids
                      /\ EntryIndex(owner'[i]) = i
                      /\ hash_table'[i].tag = TAG_FROM_ID(owner'[i])
    BY DEF OwnerInv
  <2>2. CASE i = EntryIndex(id)
    <3>1. owner'[i] = id /\ hash_table'[i].tag = TAG_FROM_ID(id)
      BY <2>1, <2>2 DEF TableTypeOK
    <3> QED BY <3>1, <2>2
  <2>3. CASE i # EntryIndex(id)
    <3>1. owner'[i] = owner[i] /\ hash_table'[i] = hash_table[i]
      BY <2>1, <2>3 DEF TableTypeOK
    <3> QED BY <3>1 DEF OwnerInv, Live
  <2> QED BY <2>2, <2>3
<1> QED BY <1>1, <1>2

(* An allocation writes the index last, or not at all.                     *)
LEMMA AllocKeepsOwner ==
  ASSUME TableTypeOK, OwnerInv, NEW id \in Ids, NEW length, NEW block,
         AllocPageStatic(id, length, block)
  PROVE  OwnerInv'
<1>1. CASE AllocFull(length, block)
  BY <1>1 DEF AllocFull, tableVars, OwnerInv, Live
<1>2. CASE ~AllocFull(length, block)
  <2>1. InsertIndexHash(id, block, length)
    BY <1>2 DEF AllocPageStatic, AllocFound, AllocUninit, RecordPage
  <2> QED BY <2>1, InsertKeepsOwner
<1> QED BY <1>1, <1>2

(* So does an invalidation.                                                *)
LEMMA InvalidateKeepsOwner ==
  ASSUME TableTypeOK, OwnerInv, NEW id \in Ids, InvalidateId(id)
  PROVE  OwnerInv'
<1>1. CASE LookupHit(id)
  BY <1>1, InsertKeepsOwner DEF InvalidateId
<1>2. CASE ~LookupHit(id)
  BY <1>2 DEF InvalidateId, tableVars, OwnerInv, Live
<1> QED BY <1>1, <1>2

(* If no two ids alias, a hit is the entry of the id that is looked up.    *)
LEMMA HitIsOwned ==
  ASSUME NoAlias, OwnerInv, NEW id \in Ids, LookupHit(id)
  PROVE  owner[EntryIndex(id)] = id
<1>1. EntryIndex(id) \in Slots
  BY IdHash
<1>2. Live(EntryIndex(id))
  BY DEF LookupHit, Live
<1> QED
  BY <1>1, <1>2 DEF NoAlias, OwnerInv, LookupHit

(* A lookup that succeeds finds the entry that was written for that id:    *)
(* the slot and the tag, each cut to 16 bits, tell ids apart as long as no *)
(* two of them alias, in particular below 65536.                           *)
THEOREM LookupAlwaysSound == NoAlias => (TableSpec => []LookupSound)
<1> SUFFICES ASSUME NoAlias PROVE TableSpec => []LookupSound
  OBVIOUS
<1>1. TableInit => OwnerInv
  BY DEF TableInit, OwnerInv, Live
<1>2. TableTypeOK /\ OwnerInv /\ [TableNext]_tableVars => OwnerInv'
  <2> SUFFICES ASSUME TableTypeOK, OwnerInv, [TableNext]_tableVars
               PROVE  OwnerInv'
    OBVIOUS
  <2>1. CASE UNCHANGED tableVars
    BY <2>1 DEF tableVars, OwnerInv, Live
  <2>2. CASE TableNext
    BY <2>2, AllocKeepsOwner, InvalidateKeepsOwner DEF TableNext
  <2> QED BY <2>1, <2>2
<1>3. OwnerInv => LookupSound
  BY HitIsOwned DEF LookupSound
<1> QED BY <1>1, <1>2, <1>3, TableTypeCorrect, PTL DEF TableSpec

-----------------------------------------------------------------------------
(* No block is lost.                                                       *)

(* Offset o of section s belongs to the page of slot i.                    *)
Owns(i, s, o) == Live(i) /\ SlotSection(i) = s /\ o \in SlotOffsets(i)

(* Every block that is marked belongs to a page.                           *)
AllOwned == \A s \in Sections : \A o \in l2[s] : \E i \in Slots : Owns(i, s, o)

(* A page keeps its blocks when another slot is written.                   *)
LEMMA OthersOwn ==
  ASSUME NEW i \in Slots, NEW s, NEW o, hash_table'[i] = hash_table[i], Owns(i, s, o)
  PROVE  Owns(i, s, o)'
  BY SameEntrySameBlocks DEF Owns

(* Without a fault the blocks that an allocation marks are those of the    *)
(* page that it puts in a slot that was free.                              *)
LEMMA AllocKeepsOwned ==
  ASSUME TableTypeOK, AllOwned, NEW id \in Ids, NEW length \in Lengths,
         NEW block, AllocPageStatic(id, length, block), faults' = {}
  PROVE  AllOwned'
<1> DEFINE n == NumBlocks(length)
           s == L2_SECTION_FROM_BLOCK(block)
           a == OFFSET_FROM_BLOCK(block)
           e == EntryIndex(id)
<1>1. n \in Nat \ {0} /\ e \in Slots
  BY InputAssumption, NumBlocksPositive, IdHash
<1>2. CASE block \in Blocks /\ AllocFound(id, length, block)
  <2>1. s \in Sections /\ a \in Offsets
    BY <1>2, BlockDecode
  <2>2. PICK b \in Offsets :
          /\ FindFreeBlocksL2(l2[s], n, a, b)
          /\ l2' = [l2 EXCEPT ![s] = @ \cup MarkedBlocks(n, b)]
          /\ RecordPage(id, length, block, IF b - a + 1 # n THEN {"carry"} ELSE {})
    BY <1>2 DEF AllocFound
  <2>3. b - a + 1 = n /\ ~Live(e)
    BY <2>2 DEF RecordPage, Live
  <2>4. MarkedBlocks(n, b) = a .. b
    <3>1. IsRun(l2[s], n, a, b)
      BY <2>2 DEF FindFreeBlocksL2
    <3> HIDE DEF n, s, a, e
    <3> QED BY SMTT(60), <1>1, <2>1, <2>3, <3>1, PlainRunIsFree
  <2>5. l2'[s] = l2[s] \cup (a .. b) /\ \A t \in Sections \ {s} : l2'[t] = l2[t]
    BY <2>1, <2>2, <2>4 DEF TableTypeOK
  <2>6. hash_table' = [hash_table EXCEPT ![e] =
           [block |-> block, tag |-> TAG_FROM_ID(id), length |-> length]]
    BY <2>2, <2>3 DEF RecordPage, InsertIndexHash, InsertRefused, Live
  <2>7. hash_table'[e] = [block |-> block, tag |-> TAG_FROM_ID(id), length |-> length]
    BY <1>1, <2>6 DEF TableTypeOK
  <2>8. Live(e)' /\ SlotSection(e)' = s /\ SlotOffsets(e)' = a .. (a + n - 1)
    BY <2>7, InputAssumption DEF Live, SlotSection, SlotOffsets, SlotFirst
  <2>9. a + n - 1 = b
    BY <1>1, <2>1, <2>3, Sizes DEF Offsets
  <2>10. \A i \in Slots \ {e} : hash_table'[i] = hash_table[i]
    BY <2>6 DEF TableTypeOK
  <2> HIDE DEF s, a, n, e
  <2> SUFFICES ASSUME NEW t \in Sections, NEW o \in l2'[t]
               PROVE  \E i \in Slots : Owns(i, t, o)'
    BY DEF AllOwned
  <2>11. CASE t = s /\ o \in a .. b
    <3>1. Owns(e, t, o)'
      BY <2>8, <2>9, <2>11 DEF Owns
    <3> QED BY <3>1, <1>1
  <2>12. CASE o \in l2[t]
    <3>1. PICK i \in Slots : Owns(i, t, o)
      BY <2>12 DEF AllOwned
    <3>2. i # e
      BY <2>3, <3>1 DEF Owns
    <3>3. Owns(i, t, o)'
      BY <2>10, <3>1, <3>2, OthersOwn
    <3> QED BY <3>3
  <2> QED BY <2>5, <2>11, <2>12
<1>3. CASE AllocFull(length, block)
  BY <1>3 DEF AllocFull, tableVars, AllOwned, Owns, Live, SlotSection, SlotOffsets, SlotFirst
<1>4. CASE block \in Blocks /\ AllocUninit(id, length, block)
  <2>1. "uninit" \in faults'
    BY <1>4 DEF AllocUninit, RecordPage
  <2> QED BY <2>1
<1> QED
  BY <1>2, <1>3, <1>4 DEF AllocPageStatic

(* An invalidation clears all blocks of the page whose entry it removes.   *)
LEMMA InvalidateKeepsOwned ==
  ASSUME TableTypeOK, AllOwned, NEW id \in Ids, InvalidateId(id)
  PROVE  AllOwned'
<1>1. CASE ~LookupHit(id)
  BY <1>1 DEF InvalidateId, tableVars, AllOwned, Owns, Live, SlotSection, SlotOffsets,
              SlotFirst
<1>2. CASE LookupHit(id)
  <2> DEFINE e == EntryIndex(id)
             n == NumBlocks(hash_table[e].length)
             s == SlotSection(e)
  <2>1. e \in Slots /\ Live(e)
    BY <1>2, IdHash DEF LookupHit, Live
  <2>2. s \in Sections /\ SlotFirst(e) \in Offsets /\ n \in Nat \ {0}
    BY <2>1, LiveTyped
  <2>3. l2' = [l2 EXCEPT ![s] = FreeBlocksL2(@, n, SlotFirst(e))]
    BY <1>2 DEF InvalidateId, FreePageStatic, SlotSection, SlotFirst
  <2>4. l2[s] \subseteq Offsets
    BY <2>2 DEF TableTypeOK
  <2>5. \A t \in Sections : l2'[t] \subseteq l2[t]
    BY <2>3 DEF TableTypeOK, FreeBlocksL2
  <2>6. l2'[s] \cap SlotOffsets(e) = {}
    <3>1. l2'[s] = FreeBlocksL2(l2[s], n, SlotFirst(e))
      BY <2>2, <2>3 DEF TableTypeOK
    <3>2. \A o \in SlotOffsets(e) : SlotFirst(e) <= o /\ o < SlotFirst(e) + n
      BY <2>2, Sizes DEF SlotOffsets, Offsets
    <3> QED BY <3>1, <3>2 DEF FreeBlocksL2
  <2>7. \A i \in Slots \ {e} : hash_table'[i] = hash_table[i]
    BY <1>2 DEF InvalidateId, InsertIndexHash, InsertRefused, TableTypeOK
  <2> SUFFICES ASSUME NEW t \in Sections, NEW o \in l2'[t]
               PROVE  \E i \in Slots : Owns(i, t, o)'
    BY DEF AllOwned
  <2>8. PICK i \in Slots : Owns(i, t, o)
    BY <2>5 DEF AllOwned
  <2>9. i # e
    BY <2>6, <2>8 DEF Owns
  <2>10. Owns(i, t, o)'
    <3> HIDE DEF e
    <3> QED BY <2>7, <2>8, <2>9, OthersOwn
  <2> QED BY <2>10
<1> QED BY <1>1, <1>2

(* As long as no fault is met every block that is marked used belongs to a *)
(* page of the index: an invalidation gives back all of its page, however  *)
(* many entries the page crosses.                                          *)
THEOREM NothingLeaks == TableSpec => []NoLeak
<1>1. NoLeak <=> (faults = {} => AllOwned)
  BY DEF NoLeak, AllOwned, Owns
<1>2. TableInit => NoLeak
  BY DEF TableInit, NoLeak
<1>3. TableTypeOK /\ NoLeak /\ [TableNext]_tableVars => NoLeak'
  <2> SUFFICES ASSUME TableTypeOK, NoLeak, [TableNext]_tableVars, faults' = {}
               PROVE  AllOwned'
    BY DEF NoLeak, AllOwned, Owns
  <2>1. faults \subseteq faults'
    BY DEF TableNext, AllocPageStatic, AllocFound, AllocFull, AllocUninit, RecordPage,
           InvalidateId, tableVars
  <2>2. AllOwned
    BY <1>1, <2>1
  <2>3. CASE UNCHANGED tableVars
    BY <2>2, <2>3 DEF tableVars, AllOwned, Owns, Live, SlotSection, SlotOffsets, SlotFirst
  <2>4. CASE TableNext
    BY <2>2, <2>4, AllocKeepsOwned, InvalidateKeepsOwned DEF TableNext
  <2> QED BY <2>3, <2>4
<1> QED BY <1>2, <1>3, TableTypeCorrect, PTL DEF TableSpec

-----------------------------------------------------------------------------
(* The statistics.                                                         *)

(* The blocks marked used.                                                 *)
UsedBlocks == {x \in Sections \X Offsets : x[2] \in l2[x[1]]}

(* The blocks of a range in one section.                                   *)
LEMMA RangeSize ==
  ASSUME NEW s \in Sections, NEW a \in Int, NEW n \in Nat \ {0},
         a .. a + n - 1 \subseteq Offsets
  PROVE  /\ IsFiniteSet({s} \X (a .. a + n - 1))
         /\ Cardinality({s} \X (a .. a + n - 1)) = n
<1>1. IsFiniteSet(a .. a + n - 1) /\ Cardinality(a .. a + n - 1) = n
  <2>1. a + n - 1 \in Int /\ ~(a > a + n - 1) /\ a + n - 1 - a + 1 = n
    OBVIOUS
  <2> QED BY <2>1, FS_Interval
<1>2. IsFiniteSet({s}) /\ Cardinality({s}) = 1
  BY FS_Singleton
<1>3. Cardinality({s} \X (a .. a + n - 1)) = 1 * n
  BY <1>1, <1>2, FS_Product
<1> QED BY <1>1, <1>2, <1>3, FS_Product

(* There are finitely many blocks.                                         *)
LEMMA UsedFinite == IsFiniteSet(UsedBlocks)
<1>1. NUM_L2_SECTIONS - 1 \in Int /\ BLOCKS_PER_SECTION - 1 \in Int
  BY Sizes
<1>2. IsFiniteSet(Sections) /\ IsFiniteSet(Offsets)
  BY <1>1, FS_Interval DEF Sections, Offsets
<1>3. IsFiniteSet(Sections \X Offsets)
  BY <1>2, FS_Product
<1> QED BY <1>3, FS_Subset DEF UsedBlocks

(* An allocation that meets neither of the two faults counts as many       *)
(* blocks as it marks, also if the index refuses the page.                 *)
LEMMA AllocCounts ==
  ASSUME TableTypeOK, stats.blocks = Cardinality(UsedBlocks), NEW id \in Ids,
         NEW length \in Lengths, NEW block, AllocPageStatic(id, length, block),
         faults' \subseteq {"slot"}
  PROVE  stats'.blocks = Cardinality(UsedBlocks')
<1> DEFINE n == NumBlocks(length)
           s == L2_SECTION_FROM_BLOCK(block)
           a == OFFSET_FROM_BLOCK(block)
<1>1. n \in Nat \ {0}
  BY InputAssumption, NumBlocksPositive
<1>2. CASE block \in Blocks /\ AllocFound(id, length, block)
  <2>1. s \in Sections /\ a \in Offsets
    BY <1>2, BlockDecode
  <2>2. PICK b \in Offsets :
          /\ FindFreeBlocksL2(l2[s], n, a, b)
          /\ l2' = [l2 EXCEPT ![s] = @ \cup MarkedBlocks(n, b)]
          /\ RecordPage(id, length, block, IF b - a + 1 # n THEN {"carry"} ELSE {})
    BY <1>2 DEF AllocFound
  <2>3. b - a + 1 = n
    <3> SUFFICES ASSUME b - a + 1 # n PROVE FALSE
      OBVIOUS
    <3>1. "carry" \in faults'
      BY <2>2 DEF RecordPage
    <3> QED BY <3>1
  <2>4. MarkedBlocks(n, b) = a .. b /\ (a .. b) \cap l2[s] = {}
    <3>1. IsRun(l2[s], n, a, b)
      BY <2>2 DEF FindFreeBlocksL2
    <3> HIDE DEF n, s, a
    <3>2. MarkedBlocks(n, b) = a .. b
      BY <2>3, <2>1, <1>1 DEF MarkedBlocks, Offsets
    <3>3. (a .. b) \cap l2[s] = {}
      BY <1>1, <2>1, <2>3, <3>1, PlainRunIsFree
    <3> QED BY <3>2, <3>3
  <2>5. l2'[s] = l2[s] \cup (a .. b) /\ \A t \in Sections \ {s} : l2'[t] = l2[t]
    BY <2>1, <2>2, <2>4 DEF TableTypeOK
  <2>6. a + n - 1 = b /\ a .. b \subseteq Offsets /\ a \in Int
    BY <1>1, <2>1, <2>3, Sizes DEF Offsets
  <2>7. stats'.blocks = stats.blocks + n
    BY <2>2 DEF RecordPage
  <2> HIDE DEF n, s, a
  <2>8. UsedBlocks' = UsedBlocks \cup ({s} \X (a .. b))
    BY <2>1, <2>5, <2>6 DEF UsedBlocks
  <2>9. UsedBlocks \cap ({s} \X (a .. b)) = {}
    BY <2>4 DEF UsedBlocks
  <2>10. IsFiniteSet({s} \X (a .. b)) /\ Cardinality({s} \X (a .. b)) = n
    BY ZenonT(60), <1>1, <2>1, <2>6, RangeSize
  <2>11. Cardinality(UsedBlocks') = Cardinality(UsedBlocks) + n - Cardinality({})
    BY <2>8, <2>9, <2>10, UsedFinite, FS_Union
  <2>12. Cardinality(UsedBlocks) \in Nat /\ Cardinality({}) = 0
    BY UsedFinite, FS_CardinalityType, FS_EmptySet
  <2> QED BY <1>1, <2>7, <2>11, <2>12
<1>3. CASE AllocFull(length, block)
  BY <1>3 DEF AllocFull, tableVars, UsedBlocks
<1>4. CASE block \in Blocks /\ AllocUninit(id, length, block)
  <2>1. "uninit" \in faults'
    BY <1>4 DEF AllocUninit, RecordPage
  <2> QED BY <2>1
<1> QED
  BY <1>2, <1>3, <1>4 DEF AllocPageStatic

(* An invalidation counts as many blocks as it clears: they were marked.   *)
LEMMA InvalidateCounts ==
  ASSUME TableTypeOK, Reserved, stats.blocks = Cardinality(UsedBlocks), NEW id \in Ids,
         InvalidateId(id)
  PROVE  stats'.blocks = Cardinality(UsedBlocks')
<1>1. CASE ~LookupHit(id)
  BY <1>1 DEF InvalidateId, tableVars, UsedBlocks
<1>2. CASE LookupHit(id)
  <2> DEFINE e == EntryIndex(id)
             n == NumBlocks(hash_table[e].length)
             s == SlotSection(e)
             a == SlotFirst(e)
             freed == {s} \X (a .. a + n - 1)
  <2>1. e \in Slots /\ Live(e)
    BY <1>2, IdHash DEF LookupHit, Live
  <2>2. s \in Sections /\ a \in Offsets /\ n \in Nat \ {0}
    BY <2>1, LiveTyped
  <2>3. l2' = [l2 EXCEPT ![s] = FreeBlocksL2(@, n, a)]
    BY <1>2 DEF InvalidateId, FreePageStatic, SlotSection, SlotFirst
  <2>4. stats'.blocks = stats.blocks - n
    BY <1>2 DEF InvalidateId, FreePageStatic
  <2>5. a .. a + n - 1 \subseteq l2[s] /\ l2[s] \subseteq Offsets
    BY <2>1, <2>2 DEF Reserved, SlotOffsets, TableTypeOK
  <2>6. l2'[s] = FreeBlocksL2(l2[s], n, a) /\ \A t \in Sections \ {s} : l2'[t] = l2[t]
    BY <2>2, <2>3 DEF TableTypeOK
  <2> HIDE DEF e, n, s, a
  <2>7. l2'[s] = l2[s] \ (a .. a + n - 1)
    <3>1. a \in Int /\ l2[s] \subseteq Int
      BY <2>2, <2>5, Sizes DEF Offsets
    <3>2. \A o \in l2[s] : o \in a .. a + n - 1 <=> a <= o /\ o < a + n
      BY <2>2, <3>1
    <3> QED BY <2>6, <3>2 DEF FreeBlocksL2
  <2>8. UsedBlocks' = UsedBlocks \ freed
    BY <2>2, <2>6, <2>7 DEF UsedBlocks
  <2>9. UsedBlocks \cap freed = freed
    BY <2>2, <2>5 DEF UsedBlocks
  <2>10. Cardinality(freed) = n
    <3>1. a \in Int /\ a .. a + n - 1 \subseteq Offsets
      BY <2>2, <2>5, Sizes DEF Offsets
    <3> QED BY <2>2, <3>1, RangeSize
  <2>11. Cardinality(UsedBlocks') = Cardinality(UsedBlocks) - n
    <3>1. Cardinality(UsedBlocks \ freed) =
            Cardinality(UsedBlocks) - Cardinality(UsedBlocks \cap freed)
      BY UsedFinite, FS_Difference
    <3> QED BY <2>8, <2>9, <2>10, <3>1
  <2> QED BY <2>4, <2>11
<1> QED BY <1>1, <1>2

(* The "blocks" statistic is the number of blocks marked used, until a run *)
(* is counted across a full entry or an uninitialised block is used.       *)
THEOREM StatsAlwaysExact == TableSpec => []StatsExact
<1>1. StatsExact <=> (faults \subseteq {"slot"} => stats.blocks = Cardinality(UsedBlocks))
  BY DEF StatsExact, UsedBlocks
<1>2. TableInit => StatsExact
  <2> SUFFICES ASSUME TableInit PROVE stats.blocks = Cardinality(UsedBlocks)
    BY <1>1
  <2>1. UsedBlocks = {}
    BY DEF TableInit, UsedBlocks
  <2> QED BY <2>1, FS_EmptySet DEF TableInit
<1>3. TableTypeOK /\ NoOverlap /\ StatsExact /\ [TableNext]_tableVars => StatsExact'
  <2> SUFFICES ASSUME TableTypeOK, NoOverlap, StatsExact, [TableNext]_tableVars,
                      faults' \subseteq {"slot"}
               PROVE  stats'.blocks = Cardinality(UsedBlocks')
    BY DEF StatsExact, UsedBlocks
  <2>1. faults \subseteq faults'
    BY DEF TableNext, AllocPageStatic, AllocFound, AllocFull, AllocUninit, RecordPage,
           InvalidateId, tableVars
  <2>2. stats.blocks = Cardinality(UsedBlocks) /\ Reserved
    BY <1>1, <2>1 DEF NoOverlap
  <2>3. CASE UNCHANGED tableVars
    BY <2>2, <2>3 DEF tableVars, UsedBlocks
  <2>4. CASE TableNext
    BY <2>2, <2>4, AllocCounts, InvalidateCounts DEF TableNext
  <2> QED BY <2>3, <2>4
<1> QED BY <1>2, <1>3, TableTypeCorrect, PagesNeverOverlap, PTL DEF TableSpec
=============================================================================
