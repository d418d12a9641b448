\* Does the search return consecutive free blocks?
CONSTANTS
  L1_ENTRIES = 2
  L1_BITS_PER_ENTRY = 1
  L2_ENTRIES_PER_SECTION = 3
  L2_BITS_PER_ENTRY = 2
  STORAGE_BLOCK_SIZE = 2
  NUM_HASH_ENTRIES = 6
  UINT16 = 4
  Ids = {1, 2, 7}
  Lengths = {1, 4, 5}
  NULL = NULL
  MaxPages = 3
SPECIFICATION TableSpec
INVARIANT
  ConsecutiveBits
