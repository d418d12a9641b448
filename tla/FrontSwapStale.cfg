\* Does load return what is in the index, or an older in buffer?
CONSTANTS
  L1_ENTRIES = 1
  L1_BITS_PER_ENTRY = 1
  L2_ENTRIES_PER_SECTION = 2
  L2_BITS_PER_ENTRY = 2
  STORAGE_BLOCK_SIZE = 2
  NUM_HASH_ENTRIES = 6
  UINT16 = 4
  Ids = {1, 2, 7, 16}
  Lengths = {1, 4}
  NULL = NULL
  MaxPages = 3
  PgOffs = {4, 8, 28, 5, 64}
  Data = {small, large}
  small = small
  large = large
  LzoLength <- MCLzoLength
  PAGE_SIZE = 4
  DPUS_PER_RANK = 4
  RANK_OFFSETS = 64
  PAGE_VALID = 100
  ZeroPage = ZeroPage
  Garbage = Garbage
  Failed = Failed
SPECIFICATION Spec
INVARIANT
  LoadCurrent
