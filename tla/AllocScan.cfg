\* Two sections of three 2-bit L2 entries; one section per L1 entry.
\* Pages of two and three blocks: two of three fill a section, a page of two
\* freed beside one of two leaves a full entry to search across.
CONSTANTS
  L1_ENTRIES = 2
  L1_BITS_PER_ENTRY = 1
  L2_ENTRIES_PER_SECTION = 3
  L2_BITS_PER_ENTRY = 2
  STORAGE_BLOCK_SIZE = 2
  NUM_HASH_ENTRIES = 6
  UINT16 = 4
  Ids = {1, 2}
  Lengths = {3, 5}
  UINT_MAX = 1000
  NULL = NULL
  MaxPages = 3
SPECIFICATION ScanSpec
INVARIANT
  LoopInv
PROPERTIES
  TableSpec
  CallsReturn
