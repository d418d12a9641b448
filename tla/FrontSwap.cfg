\* One section of two 2-bit L2 entries: room for two large pages.
\* Offsets 4, 8 and 28 are ids 1, 2 and 7 of DPU 0 (1 and 7 share a hash slot);
\* 64 is for rank 1.
CONSTANTS
  L1_ENTRIES = 1
  L1_BITS_PER_ENTRY = 1
  L2_ENTRIES_PER_SECTION = 2
  L2_BITS_PER_ENTRY = 2
  STORAGE_BLOCK_SIZE = 2
  NUM_HASH_ENTRIES = 6
  UINT16 = 4
  Ids = {1, 2, 7, 16}
  Lengths = {1, 4}
  NULL = NULL
  MaxPages = 3
  PgOffs = {4, 8, 28, 64}
  Data = {small, large}
  small = small
  large = large
  LzoLength <- MCLzoLength
  PAGE_SIZE = 4
  DPUS_PER_RANK = 4
  RANK_OFFSETS = 64
  PAGE_VALID = 100
  ZeroPage = ZeroPage
  Garbage = Garbage
  Failed = Failed
SPECIFICATION Spec
INVARIANTS
  TypeOK
  Placement
  NoOrphans
  StorageCurrent
PROPERTY
  FetchCurrent
  CacheSpec
