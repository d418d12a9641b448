\* Two sections of three 2-bit L2 entries; one section per L1 entry.
\* Pages of one and two blocks and of a whole section.
\* Ids 1 and 7 share a hash slot and differ in their tags.
CONSTANTS
  L1_ENTRIES = 2
  L1_BITS_PER_ENTRY = 1
  L2_ENTRIES_PER_SECTION = 3
  L2_BITS_PER_ENTRY = 2
  STORAGE_BLOCK_SIZE = 2
  NUM_HASH_ENTRIES = 6
  UINT16 = 4
  Ids = {1, 2, 7}
  Lengths = {1, 4, 12}
  NULL = NULL
  MaxPages = 3
SPECIFICATION TableSpec
INVARIANTS
  TableTypeOK
  L1Exact
  NoOverlap
  NoLeak
  NoFalseFull
  StatsExact
  LookupSound
