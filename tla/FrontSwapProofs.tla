-------------------------- MODULE FrontSwapProofs ---------------------------
(***************************************************************************)
(* Theorems about FrontSwap, for every geometry of the tables, every set   *)
(* of offsets and contents and every compressor.                           *)
(***************************************************************************)
EXTENDS FrontSwap, AllocTableProofs

-----------------------------------------------------------------------------
(* Ids and lengths.                                                        *)

(* The sizes and flags are positive.                                       *)
LEMMA SwapSizes ==
  /\ PAGE_VALID \in Nat \ {0}
  /\ DPUS_PER_RANK \in Nat \ {0}
  /\ PAGE_SIZE \in Nat \ {0}
  BY SwapAssumption

(* The flag of an id in a buffer can be taken off again.                   *)
LEMMA FlagComesOff ==
  ASSUME NEW o \in PgOffs
  PROVE  /\ ID_FROM_OFFSET(o) \in Ids /\ ID_FROM_OFFSET(o) \in Nat
         /\ ID_FROM_OFFSET(o) + PAGE_VALID \in Nat
         /\ (ID_FROM_OFFSET(o) + PAGE_VALID) % PAGE_VALID = ID_FROM_OFFSET(o)
<1> DEFINE id == ID_FROM_OFFSET(o)
<1>1. id \in Ids
  BY SwapAssumption
<1>2. PAGE_VALID \in Nat \ {0} /\ o \in Nat /\ DPUS_PER_RANK \in Nat \ {0}
  BY SwapAssumption
<1>3. o \div DPUS_PER_RANK \in Nat
  BY <1>2, Division
<1>4. id \in 0 .. PAGE_VALID - 1
  BY <1>2, <1>3, Division DEF ID_FROM_OFFSET
<1> HIDE DEF id
<1>5. (1 * PAGE_VALID + id) % PAGE_VALID = id
  BY <1>2, <1>4, Quotient
<1>6. id + PAGE_VALID = 1 * PAGE_VALID + id /\ id + PAGE_VALID \in Nat /\ id \in Nat
  BY <1>2, <1>4
<1> QED BY <1>1, <1>5, <1>6 DEF id

(* Two offsets that the store accepts have different ids.                  *)
DistinctIds ==
  \A o, p \in PgOffs :
    Accepted(o) /\ Accepted(p) /\ ID_FROM_OFFSET(o) = ID_FROM_OFFSET(p) => o = p

(* So it is as long as the swap device has no more pages than DPUs have ids.*)
LEMMA SmallDevice == PgOffs \subseteq 0 .. DPUS_PER_RANK * PAGE_VALID - 1 => DistinctIds
<1> DEFINE D == DPUS_PER_RANK
           V == PAGE_VALID
<1>1. D \in Nat \ {0} /\ V \in Nat \ {0}
  BY SwapSizes
<1> SUFFICES ASSUME PgOffs \subseteq 0 .. D * V - 1, NEW o \in PgOffs, NEW p \in PgOffs,
                    o % D = 0, p % D = 0, (o \div D) % V = (p \div D) % V
             PROVE  o = p
  BY DEF DistinctIds, Accepted, DPU_INDEX_FROM_OFFSET, ID_FROM_OFFSET
<1> HIDE DEF D, V
<1>2. ASSUME NEW x \in PgOffs, x % D = 0
      PROVE  x = D * (x \div D) /\ (x \div D) % V = x \div D
  <2> DEFINE q == x \div D
  <2>1. x \in Nat /\ x < D * V
    BY <1>1
  <2>2. q \in Nat /\ x = D * q
    <3>1. q \in Nat /\ x = D * q + (x % D)
      BY <1>1, <2>1, Division
    <3> HIDE DEF q
    <3> QED BY <1>1, <1>2, <3>1
  <2>3. q < V
    <3> SUFFICES ASSUME q >= V PROVE FALSE
      BY <1>1, <2>2
    <3>1. D * q >= V * D
      <4> HIDE DEF q
      <4> QED BY <1>1, <2>2
    <3> HIDE DEF q
    <3> QED BY <1>1, <3>1, <2>1, <2>2
  <2>4. q % V = q
    <3> HIDE DEF q
    <3>1. q \in 0 .. V - 1
      BY <1>1, <2>2, <2>3
    <3>2. (0 * V + q) % V = q
      BY <1>1, <3>1, Quotient
    <3>3. 0 * V + q = q
      BY <1>1, <2>2
    <3> QED BY <3>2, <3>3
  <2> QED BY <2>2, <2>4
<1> QED BY <1>2

-----------------------------------------------------------------------------
(* Types.                                                                  *)

(* What waits in the out buffer is what was last stored at an offset that  *)
(* the kernel holds; what it holds has a content.                          *)
OutInv ==
  /\ \A o \in held : written[o] \in Data
  /\ out_buffer_bmp =>
       \E o \in held : /\ out_buffer.data = written[o]
                       /\ out_buffer.id = ID_FROM_OFFSET(o) + PAGE_VALID

BackInv == TypeOK /\ OutInv

(* A page that waits has an id and a length that the allocator takes.      *)
LEMMA WaitingPage ==
  ASSUME BackInv, out_buffer_bmp
  PROVE  \E o \in held :
           /\ o \in PgOffs /\ Accepted(o)
           /\ InOutBuffer(o)
           /\ out_buffer.data = written[o] /\ out_buffer.data \in Data
           /\ out_buffer.id = ID_FROM_OFFSET(o) + PAGE_VALID
           /\ out_buffer.id % PAGE_VALID = ID_FROM_OFFSET(o)
           /\ ID_FROM_OFFSET(o) \in Ids
           /\ StoredLength(out_buffer.data) \in Lengths
<1>1. PICK o \in held : /\ out_buffer.data = written[o]
                        /\ out_buffer.id = ID_FROM_OFFSET(o) + PAGE_VALID
  BY DEF BackInv, OutInv
<1>2. o \in PgOffs /\ Accepted(o) /\ out_buffer.data \in Data
  BY <1>1 DEF BackInv, TypeOK, OutInv
<1>3. ID_FROM_OFFSET(o) \in Ids /\ out_buffer.id % PAGE_VALID = ID_FROM_OFFSET(o)
  BY <1>1, <1>2, FlagComesOff
<1>4. StoredLength(out_buffer.data) \in Lengths
  BY <1>2, SwapAssumption
<1> QED BY <1>1, <1>2, <1>3, <1>4 DEF InOutBuffer

(* What flushing the out buffer asks of the allocator.                     *)
LEMMA FlushAllocates ==
  ASSUME BackInv, NEW offset \in PgOffs, NEW data \in Data, StoreFlushed(offset, data)
  PROVE  \E block \in Blocks \cup {NULL}, o \in held :
           /\ o \in PgOffs /\ Accepted(o) /\ InOutBuffer(o)
           /\ ID_FROM_OFFSET(o) \in Ids
           /\ out_buffer.data = written[o] /\ written[o] \in Data
           /\ StoredLength(written[o]) \in Lengths
           /\ AllocPageStatic(ID_FROM_OFFSET(o), StoredLength(written[o]), block)
           /\ storage' = IF block = NULL THEN storage ELSE WritePage(block, written[o])
           /\ trans_page' =
                [data |-> written[o],
                 id   |-> IF block = NULL THEN STATUS_ERROR_STORE_NO_SPACE ELSE STATUS_OK]
           /\ dropped' =
                IF block = NULL
                THEN dropped \cup {p \in held : ID_FROM_OFFSET(p) = ID_FROM_OFFSET(o)}
                ELSE dropped
<1>1. out_buffer_bmp /\ LzoCompressMain(out_buffer)
  BY DEF StoreFlushed
<1>2. PICK o \in held :
        /\ o \in PgOffs /\ Accepted(o)
        /\ InOutBuffer(o)
        /\ out_buffer.data = written[o] /\ out_buffer.data \in Data
        /\ out_buffer.id % PAGE_VALID = ID_FROM_OFFSET(o)
        /\ ID_FROM_OFFSET(o) \in Ids
        /\ StoredLength(out_buffer.data) \in Lengths
  BY <1>1, WaitingPage
<1> QED BY <1>1, <1>2 DEF LzoCompressMain

(* The back end uses the directory as the allocator expects: each handler  *)
(* makes at most one allocation or invalidation, of an id and a length     *)
(* that it may be given.                                                   *)
LEMMA HandlersUseTable ==
  ASSUME BackInv, Next
  PROVE  TableNext \/ UNCHANGED tableVars
<1>1. PICK offset \in PgOffs :
        \/ StoreRejected(offset)
        \/ \E data \in Data : StoreBuffered(offset, data) \/ StoreFlushed(offset, data)
        \/ LoadFromBuffer(offset)
        \/ LoadFromDpu(offset)
        \/ InvalidateBuffered(offset)
        \/ InvalidateOnDpu(offset)
  BY DEF Next
<1>2. ASSUME NEW data \in Data, StoreFlushed(offset, data) PROVE TableNext
  BY <1>2, FlushAllocates DEF TableNext
<1>3. CASE InvalidateOnDpu(offset)
  <2>1. trans_page'.id = ID_FROM_OFFSET(offset) + PAGE_VALID
    BY <1>3 DEF InvalidateOnDpu, BackInv, TypeOK, Descriptor
  <2>2. InvalidateId(ID_FROM_OFFSET(offset))
    BY <1>3, <2>1, FlagComesOff DEF InvalidateOnDpu
  <2> QED BY <2>2, FlagComesOff DEF TableNext
<1>4. ASSUME StoreRejected(offset) \/ (\E data \in Data : StoreBuffered(offset, data))
             \/ LoadFromBuffer(offset) \/ LoadFromDpu(offset) \/ InvalidateBuffered(offset)
      PROVE  UNCHANGED tableVars
  BY <1>4 DEF StoreRejected, StoreBuffered, LoadFromBuffer, LoadFromDpu, InvalidateBuffered
<1> QED BY <1>1, <1>2, <1>3, <1>4

(* A page is written where it was given room.                              *)
LEMMA WriteTyped ==
  ASSUME TypeOK, NEW block \in Blocks, NEW data \in Data
  PROVE  WritePage(block, data) \in [Blocks -> (Data \cup {ZeroPage}) \X Nat]
<1>1. Blocks \subseteq Nat
  BY DEF Blocks
<1>2. ASSUME NEW b \in Blocks
      PROVE  (IF b \in block .. (block + NumBlocks(StoredLength(data)) - 1)
              THEN <<data, b - block>> ELSE storage[b]) \in (Data \cup {ZeroPage}) \X Nat
  <2>1. CASE b \in block .. (block + NumBlocks(StoredLength(data)) - 1)
    <3>1. b - block \in Nat
      BY <1>1, <2>1
    <3> QED BY <2>1, <3>1
  <2>2. CASE b \notin block .. (block + NumBlocks(StoredLength(data)) - 1)
    BY <2>2 DEF TypeOK
  <2> QED BY <2>1, <2>2
<1> QED BY <1>2 DEF WritePage

(* A store that fills the buffer at an offset that is free.                *)
LEMMA FillTyped ==
  ASSUME BackInv, NEW offset \in PgOffs, NEW data \in Data, offset \notin held,
         Accepted(offset), FillOutBuffer(offset, data)
  PROVE  /\ out_buffer' \in Descriptor /\ in_buffer' \in Descriptor
         /\ out_buffer_bmp' \in BOOLEAN /\ fetched' \in BOOLEAN
         /\ held' \subseteq {o \in PgOffs : Accepted(o)}
         /\ written' \in [PgOffs -> Data \cup {ZeroPage}]
         /\ loaded' \in [ret : {0, -1}, ok : BOOLEAN, offset : Nat, data : PageContents]
         /\ OutInv'
<1>1. ID_FROM_OFFSET(offset) + PAGE_VALID \in Nat
  BY FlagComesOff
<1>2. out_buffer' \in Descriptor
  BY <1>1 DEF FillOutBuffer, Descriptor, PageContents
<1>3. /\ in_buffer' \in Descriptor /\ out_buffer_bmp' \in BOOLEAN /\ fetched' \in BOOLEAN
      /\ held' \subseteq {o \in PgOffs : Accepted(o)}
      /\ written' \in [PgOffs -> Data \cup {ZeroPage}]
  BY DEF FillOutBuffer, BackInv, TypeOK
<1>4. loaded' \in [ret : {0, -1}, ok : BOOLEAN, offset : Nat, data : PageContents]
  BY DEF FillOutBuffer, NoLoad, PageContents
<1>5. written'[offset] = data /\ \A o \in held : written'[o] = written[o]
  BY DEF FillOutBuffer, BackInv, TypeOK
<1>6. OutInv'
  BY <1>5 DEF FillOutBuffer, BackInv, OutInv
<1> QED BY <1>2, <1>3, <1>4, <1>6

(* What a load gets from the DPU has a type, whatever it found there.      *)
LEMMA ReadTyped ==
  ASSUME NEW id, NEW page \in LzoDecompressMain(id)
  PROVE  page = Failed \/ page \in PageContents
  BY DEF LzoDecompressMain, ReadPage, PageContents

(* Each handler keeps the types and what is known of the out buffer.       *)
LEMMA HandlersKeepTypes ==
  ASSUME BackInv, TableTypeOK', NEW offset \in PgOffs,
         \/ StoreRejected(offset)
         \/ \E data \in Data : StoreBuffered(offset, data) \/ StoreFlushed(offset, data)
         \/ LoadFromBuffer(offset)
         \/ LoadFromDpu(offset)
         \/ InvalidateBuffered(offset)
         \/ InvalidateOnDpu(offset)
  PROVE  BackInv'
<1> USE DEF BackInv
<1>1. CASE StoreRejected(offset)
  BY <1>1 DEF StoreRejected, TypeOK, OutInv, NoLoad, PageContents
<1>2. ASSUME NEW data \in Data, StoreBuffered(offset, data)
      PROVE  BackInv'
  <2>1. UNCHANGED <<trans_page, storage, dropped>> /\ held \subseteq held'
    BY <1>2 DEF StoreBuffered, FillOutBuffer
  <2> QED
    BY <1>2, <2>1, FillTyped DEF StoreBuffered, TypeOK
<1>3. ASSUME NEW data \in Data, StoreFlushed(offset, data)
      PROVE  BackInv'
  <2>1. PICK block \in Blocks \cup {NULL}, o \in held :
           /\ written[o] \in Data
           /\ storage' = IF block = NULL THEN storage ELSE WritePage(block, written[o])
           /\ trans_page' =
                [data |-> written[o],
                 id   |-> IF block = NULL THEN STATUS_ERROR_STORE_NO_SPACE ELSE STATUS_OK]
           /\ dropped' =
                IF block = NULL
                THEN dropped \cup {p \in held : ID_FROM_OFFSET(p) = ID_FROM_OFFSET(o)}
                ELSE dropped
    BY <1>3, FlushAllocates
  <2>2. trans_page' \in Descriptor
    BY <2>1 DEF Descriptor, PageContents, STATUS_ERROR_STORE_NO_SPACE, STATUS_OK
  <2>3. storage' \in [Blocks -> (Data \cup {ZeroPage}) \X Nat]
    BY <2>1, WriteTyped DEF TypeOK
  <2>4. held \subseteq held' /\ dropped' \subseteq held'
    BY <1>3, <2>1 DEF StoreFlushed, FillOutBuffer, TypeOK
  <2> QED
    BY <1>3, <2>2, <2>3, <2>4, FillTyped DEF StoreFlushed, TypeOK
<1>4. CASE LoadFromBuffer(offset)
  <2>1. loaded' \in [ret : {0, -1}, ok : BOOLEAN, offset : Nat, data : PageContents]
    <3>1. out_buffer.data \in PageContents /\ in_buffer.data \in PageContents
      BY DEF TypeOK, Descriptor
    <3>2. (OutBufferHit(ID_FROM_OFFSET(offset)) \/ fetched) \in BOOLEAN
      BY DEF OutBufferHit, TypeOK
    <3>3. offset \in Nat
      BY SwapAssumption
    <3> QED BY <1>4, <3>1, <3>2, <3>3 DEF LoadFromBuffer
  <2> QED
    BY <1>4, <2>1 DEF LoadFromBuffer, TypeOK, OutInv
<1>5. CASE LoadFromDpu(offset)
  <2> DEFINE id == ID_FROM_OFFSET(offset)
  <2>1. PICK page \in LzoDecompressMain(id) :
           /\ trans_page' =
                [data |-> IF page = Failed THEN trans_page.data ELSE page, id |-> id]
           /\ in_buffer' = trans_page'
           /\ fetched' = (page # Failed)
           /\ loaded' = [ret    |-> IF in_buffer'.id = id THEN 0 ELSE -1,
                         ok     |-> fetched',
                         offset |-> offset,
                         data   |-> in_buffer'.data]
    BY <1>5 DEF LoadFromDpu
  <2>2. trans_page.data \in PageContents
    BY DEF TypeOK, Descriptor
  <2>3. id \in Nat /\ offset \in Nat
    BY FlagComesOff, SwapAssumption
  <2>4. (IF page = Failed THEN trans_page.data ELSE page) \in PageContents
    BY <2>2, ReadTyped
  <2> HIDE DEF id
  <2>5. trans_page' \in Descriptor /\ trans_page'.data \in PageContents
    BY <2>1, <2>3, <2>4 DEF Descriptor
  <2>6. fetched' \in BOOLEAN
    BY <2>1
  <2>7. loaded' \in [ret : {0, -1}, ok : BOOLEAN, offset : Nat, data : PageContents]
    BY <2>1, <2>3, <2>5, <2>6
  <2> QED
    BY <1>5, <2>1, <2>5, <2>6, <2>7 DEF LoadFromDpu, TypeOK, OutInv
<1>6. CASE InvalidateBuffered(offset)
  <2>1. loaded' \in [ret : {0, -1}, ok : BOOLEAN, offset : Nat, data : PageContents]
    BY <1>6 DEF InvalidateBuffered, Forget, NoLoad, PageContents
  <2>2. OutInv'
    BY <1>6 DEF InvalidateBuffered, Forget, OutInv, TypeOK
  <2> QED
    BY <1>6, <2>1, <2>2 DEF InvalidateBuffered, Forget, TypeOK
<1>7. CASE InvalidateOnDpu(offset)
  <2>1. loaded' \in [ret : {0, -1}, ok : BOOLEAN, offset : Nat, data : PageContents]
    BY <1>7 DEF InvalidateOnDpu, Forget, NoLoad, PageContents
  <2>2. trans_page' \in Descriptor
    <3>1. ID_FROM_OFFSET(offset) + PAGE_VALID \in Nat
      BY FlagComesOff
    <3> QED BY <1>7, <3>1 DEF InvalidateOnDpu, TypeOK, Descriptor
  <2>3. /\ held' = held \ {offset} /\ UNCHANGED <<out_buffer, out_buffer_bmp>>
        /\ written' = [written EXCEPT ![offset] = ZeroPage]
        /\ ~InOutBuffer(offset)
    BY <1>7 DEF InvalidateOnDpu, Forget
  <2>4. \A o \in held' : o \in held /\ written'[o] = written[o]
    BY <2>3 DEF TypeOK
  <2>5. ASSUME out_buffer_bmp
        PROVE  \E o \in held' : /\ out_buffer.data = written[o]
                                /\ out_buffer.id = ID_FROM_OFFSET(o) + PAGE_VALID
    <3>1. PICK o \in held : /\ InOutBuffer(o)
                            /\ out_buffer.data = written[o]
                            /\ out_buffer.id = ID_FROM_OFFSET(o) + PAGE_VALID
      BY <2>5, WaitingPage
    <3>2. o # offset
      BY <2>3, <3>1
    <3> QED BY <2>3, <3>1, <3>2
  <2>6. OutInv'
    BY <2>3, <2>4, <2>5 DEF OutInv
  <2> QED
    BY <1>7, <2>1, <2>2, <2>6 DEF InvalidateOnDpu, Forget, TypeOK
<1> QED BY <1>1, <1>2, <1>3, <1>4, <1>5, <1>6, <1>7

(* The back end starts with nothing.                                       *)
LEMMA BackInit == Init => BackInv
<1> SUFFICES ASSUME Init PROVE BackInv
  OBVIOUS
<1>1. TableTypeOK
  BY InitTyped DEF Init
<1>2. storage \in [Blocks -> (Data \cup {ZeroPage}) \X Nat]
  BY DEF Init
<1>3. {out_buffer, in_buffer, trans_page} \subseteq Descriptor
  BY DEF Init, Descriptor, PageContents
<1>4. loaded \in [ret : {0, -1}, ok : BOOLEAN, offset : Nat, data : PageContents]
  BY DEF Init, NoLoad, PageContents
<1> QED
  BY <1>1, <1>2, <1>3, <1>4 DEF Init, BackInv, TypeOK, OutInv

(* Every step keeps what is known.                                         *)
LEMMA BackStep == BackInv /\ [Next]_vars => BackInv' /\ [TableNext]_tableVars
<1> SUFFICES ASSUME BackInv, [Next]_vars
             PROVE  BackInv' /\ [TableNext]_tableVars
  OBVIOUS
<1>1. CASE Next
  <2>1. TableNext \/ UNCHANGED tableVars
    BY <1>1, HandlersUseTable
  <2>2. TableTypeOK'
    <3>1. CASE UNCHANGED tableVars
      BY <3>1 DEF tableVars, TableTypeOK, BackInv, TypeOK
    <3>2. CASE TableNext
      BY <3>2, AllocTyped, InvalidateTyped DEF TableNext, BackInv, TypeOK
    <3> QED BY <2>1, <3>1, <3>2
  <2> QED BY <1>1, <2>1, <2>2, HandlersKeepTypes DEF Next
<1>2. CASE UNCHANGED vars
  <2>1. TypeOK' /\ UNCHANGED tableVars
    BY <1>2 DEF vars, tableVars, swapVars, BackInv, TypeOK, TableTypeOK
  <2>2. OutInv'
    BY <1>2 DEF vars, swapVars, BackInv, OutInv
  <2> QED BY <2>1, <2>2 DEF BackInv
<1> QED BY <1>1, <1>2

(* BackInv holds always.                                                   *)
LEMMA BackAlways == Spec => []BackInv
  BY BackInit, BackStep, PTL DEF Spec

(* Every variable of the back end keeps its type: what is flushed has an   *)
(* id and a length that the allocator takes, and the kernel holds only     *)
(* offsets that the store accepts.                                         *)
THEOREM BackEndTypeCorrect == Spec => []TypeOK
  BY BackAlways, PTL DEF BackInv

(* Every behaviour of the handlers is one that the allocator was proved    *)
(* for: what holds of TableSpec holds of the directory in the back end.    *)
THEOREM BackEndUsesTable == Spec => TableSpec
<1>1. Init => TableInit
  BY DEF Init
<1> QED BY <1>1, BackStep, BackAlways, PTL DEF Spec, TableSpec

-----------------------------------------------------------------------------
(* What the steps of the allocator do to the index.                        *)

(* The slot of an allocation is written for its id, or nothing is written. *)
LEMMA AllocWrites ==
  ASSUME TableTypeOK, NEW id \in Ids, NEW length \in Lengths, NEW block \in Blocks,
         AllocPageStatic(id, length, block)
  PROVE  /\ \A i \in Slots \ {EntryIndex(id)} :
              hash_table'[i] = hash_table[i] /\ owner'[i] = owner[i]
         /\ \/ /\ hash_table'[EntryIndex(id)] =
                    [block |-> block, tag |-> TAG_FROM_ID(id), length |-> length]
               /\ owner'[EntryIndex(id)] = id
            \/ hash_table' = hash_table /\ owner' = owner
         /\ faults' = {} => ~Live(EntryIndex(id)) /\ LookupHit(id)'
<1> DEFINE e == EntryIndex(id)
<1>1. e \in Slots /\ length # 0
  BY IdHash, InputAssumption
<1>2. PICK met : RecordPage(id, length, block, met)
  <2>1. block # NULL
    BY InputAssumption
  <2> QED BY <2>1 DEF AllocPageStatic, AllocFound, AllocFull, AllocUninit
<1>3. InsertIndexHash(id, block, length)
  BY <1>2 DEF RecordPage
<1>4. CASE InsertRefused(id, block, length)
  <2>1. hash_table' = hash_table /\ owner' = owner
    BY <1>3, <1>4 DEF InsertIndexHash
  <2>2. "slot" \in faults'
    BY <1>2, <1>4 DEF RecordPage, InsertRefused
  <2> QED BY <2>1, <2>2
<1>5. CASE ~InsertRefused(id, block, length)
  <2>1. /\ hash_table' = [hash_table EXCEPT ![e] =
              [block |-> block, tag |-> TAG_FROM_ID(id), length |-> length]]
        /\ owner' = [owner EXCEPT ![e] = id]
    BY <1>3, <1>5 DEF InsertIndexHash
  <2>2. /\ hash_table'[e] = [block |-> block, tag |-> TAG_FROM_ID(id), length |-> length]
        /\ owner'[e] = id
        /\ \A i \in Slots \ {e} : hash_table'[i] = hash_table[i] /\ owner'[i] = owner[i]
    BY <1>1, <2>1 DEF TableTypeOK
  <2>3. LookupHit(id)'
    BY <1>1, <2>2 DEF LookupHit
  <2>4. faults' = {} => ~Live(e)
    BY <1>2 DEF RecordPage, Live
  <2> QED BY <2>2, <2>3, <2>4
<1> QED BY <1>4, <1>5

(* An allocation makes no other id found, and without a fault none lost.   *)
LEMMA AllocHits ==
  ASSUME NoAlias, TableTypeOK, NEW id \in Ids, NEW length \in Lengths, NEW block \in Blocks,
         AllocPageStatic(id, length, block), NEW j \in Ids, j # id
  PROVE  /\ LookupHit(j)' =>
              LookupHit(j) /\ hash_table'[EntryIndex(j)] = hash_table[EntryIndex(j)]
         /\ faults' = {} /\ LookupHit(j) => LookupHit(j)'
<1>1. EntryIndex(j) \in Slots /\ EntryIndex(id) \in Slots
  BY IdHash
<1>2. CASE hash_table'[EntryIndex(j)] = hash_table[EntryIndex(j)]
  BY <1>2 DEF LookupHit
<1>3. CASE hash_table'[EntryIndex(j)] # hash_table[EntryIndex(j)]
  <2>1. /\ EntryIndex(j) = EntryIndex(id)
        /\ hash_table'[EntryIndex(id)].tag = TAG_FROM_ID(id)
        /\ faults' = {} => ~Live(EntryIndex(id))
    <3>1. /\ EntryIndex(j) = EntryIndex(id)
          /\ hash_table'[EntryIndex(id)] =
               [block |-> block, tag |-> TAG_FROM_ID(id), length |-> length]
      BY <1>1, <1>3, AllocWrites
    <3>2. faults' = {} => ~Live(EntryIndex(id))
      BY AllocWrites
    <3> QED BY <3>1, <3>2
  <2>2. TAG_FROM_ID(j) # TAG_FROM_ID(id)
    BY <2>1 DEF NoAlias
  <2> QED BY <2>1, <2>2 DEF LookupHit, Live
<1> QED BY <1>2, <1>3

(* An invalidation removes the entry of its id and no other.               *)
LEMMA InvalidateHits ==
  ASSUME NoAlias, TableTypeOK, OwnerInv, NEW id \in Ids, InvalidateId(id)
  PROVE  /\ \A i \in Slots : Live(i)' => Live(i) /\ owner'[i] = owner[i] /\ owner[i] # id
         /\ \A j \in Ids :
              /\ LookupHit(j)' =>
                   LookupHit(j) /\ hash_table'[EntryIndex(j)] = hash_table[EntryIndex(j)]
              /\ LookupHit(j) /\ j # id => LookupHit(j)'
<1> DEFINE e == EntryIndex(id)
<1>1. e \in Slots
  BY IdHash
<1>2. ASSUME NEW i \in Slots, Live(i), owner[i] = id
      PROVE  i = e /\ LookupHit(id)
  BY <1>2 DEF OwnerInv, LookupHit, Live
<1>3. CASE ~LookupHit(id)
  <2>1. hash_table' = hash_table /\ owner' = owner
    BY <1>3 DEF InvalidateId, tableVars
  <2>2. \A i \in Slots : Live(i)' => Live(i) /\ owner'[i] = owner[i] /\ owner[i] # id
    BY <1>2, <1>3, <2>1 DEF Live
  <2>3. \A j \in Ids : LookupHit(j)' <=> LookupHit(j)
    BY <2>1 DEF LookupHit
  <2> QED BY <2>1, <2>2, <2>3
<1>4. CASE LookupHit(id)
  <2>1. /\ hash_table' = [hash_table EXCEPT ![e] =
              [block |-> 0, tag |-> TAG_FROM_ID(id), length |-> 0]]
        /\ owner' = [owner EXCEPT ![e] = id]
    BY <1>4 DEF InvalidateId, InsertIndexHash, InsertRefused
  <2>2. /\ hash_table'[e].length = 0
        /\ \A i \in Slots \ {e} : hash_table'[i] = hash_table[i] /\ owner'[i] = owner[i]
    BY <1>1, <2>1 DEF TableTypeOK
  <2>3. \A i \in Slots : Live(i)' => Live(i) /\ owner'[i] = owner[i] /\ owner[i] # id
    BY <1>2, <2>2 DEF Live
  <2>4. ASSUME NEW j \in Ids, LookupHit(j)'
        PROVE  LookupHit(j) /\ hash_table'[EntryIndex(j)] = hash_table[EntryIndex(j)]
    BY <2>2, <2>4, IdHash DEF LookupHit
  <2>5. ASSUME NEW j \in Ids, LookupHit(j), j # id
        PROVE  LookupHit(j)'
    <3>1. EntryIndex(j) # e
      BY <1>4, <2>5 DEF NoAlias, LookupHit
    <3> QED BY <2>2, <2>5, <3>1, IdHash DEF LookupHit
  <2> QED BY <2>3, <2>4, <2>5
<1> QED BY <1>3, <1>4

-----------------------------------------------------------------------------
(* Pages are where they belong.                                            *)

(* What the index holds, the kernel holds.                                 *)
LiveHeld == \A i \in Slots : Live(i) => \E o \in held : ID_FROM_OFFSET(o) = owner[i]

(* Placement, for one offset.                                              *)
Placed(o) ==
  /\ ~(InOutBuffer(o) /\ LookupHit(ID_FROM_OFFSET(o)))
  /\ o \in dropped => ~InOutBuffer(o)
  /\ faults = {} => InOutBuffer(o) \/ LookupHit(ID_FROM_OFFSET(o)) \/ o \in dropped

PlaceInv == LiveHeld /\ \A o \in held : Placed(o)

(* What the theorems assume of the offsets.                                *)
OffsetsApart == NoAlias /\ DistinctIds

(* What is known of the offsets that are held.                             *)
LEMMA HeldTyped ==
  ASSUME BackInv, NEW o \in held
  PROVE  o \in PgOffs /\ Accepted(o) /\ ID_FROM_OFFSET(o) \in Ids
  BY SwapAssumption DEF BackInv, TypeOK

(* A page that is not held is not found.                                   *)
LEMMA NotHeldNotFound ==
  ASSUME OffsetsApart, OwnerInv, BackInv, LiveHeld, NEW o \in PgOffs, Accepted(o), o \notin held
  PROVE  ~LookupHit(ID_FROM_OFFSET(o))
<1> DEFINE id == ID_FROM_OFFSET(o)
<1> SUFFICES ASSUME LookupHit(id) PROVE FALSE
  OBVIOUS
<1>1. id \in Ids
  BY SwapAssumption
<1>2. owner[EntryIndex(id)] = id /\ EntryIndex(id) \in Slots
  BY <1>1, HitIsOwned, IdHash DEF OffsetsApart
<1>3. Live(EntryIndex(id))
  BY DEF LookupHit, Live
<1>4. PICK p \in held : ID_FROM_OFFSET(p) = id
  BY <1>2, <1>3 DEF LiveHeld
<1>5. p = o
  BY <1>4, HeldTyped DEF OffsetsApart, DistinctIds
<1> QED BY <1>4, <1>5

(* The page in the out buffer is that of one offset.                       *)
LEMMA OneWaits ==
  ASSUME OffsetsApart, BackInv, NEW o \in held, NEW p \in held, InOutBuffer(o), InOutBuffer(p)
  PROVE  o = p
  BY HeldTyped DEF InOutBuffer, OffsetsApart, DistinctIds

(* After a store the out buffer holds the page of its offset, no other.    *)
LEMMA StoreWaits ==
  ASSUME OffsetsApart, BackInv, NEW offset \in PgOffs, NEW data, Accepted(offset),
         FillOutBuffer(offset, data), NEW p \in held \cup {offset}
  PROVE  InOutBuffer(p)' <=> p = offset
<1>1. /\ out_buffer_bmp' = TRUE
      /\ out_buffer'.id = ID_FROM_OFFSET(offset) + PAGE_VALID
  BY DEF FillOutBuffer
<1>2. out_buffer'.id % PAGE_VALID = ID_FROM_OFFSET(offset)
  BY <1>1, FlagComesOff
<1>3. p \in PgOffs /\ Accepted(p)
  BY HeldTyped
<1>4. ID_FROM_OFFSET(offset) = ID_FROM_OFFSET(p) <=> p = offset
  BY <1>3 DEF OffsetsApart, DistinctIds
<1> QED BY <1>1, <1>2, <1>4 DEF InOutBuffer

(* A store into a free buffer.                                             *)
LEMMA BufferedPlaces ==
  ASSUME OffsetsApart, OwnerInv, BackInv, PlaceInv, NEW offset \in PgOffs, NEW data,
         StoreBuffered(offset, data)
  PROVE  PlaceInv'
<1>1. /\ offset \notin held /\ Accepted(offset) /\ ~out_buffer_bmp
      /\ FillOutBuffer(offset, data) /\ UNCHANGED <<tableVars, dropped>>
      /\ held' = held \cup {offset}
  BY DEF StoreBuffered, FillOutBuffer
<1>2. /\ \A j : LookupHit(j)' <=> LookupHit(j)
      /\ \A i : (Live(i)' <=> Live(i)) /\ owner'[i] = owner[i]
      /\ faults' = faults
  BY <1>1 DEF tableVars, LookupHit, Live
<1>3. LiveHeld'
  BY <1>1, <1>2 DEF PlaceInv, LiveHeld
<1>4. dropped \subseteq held
  BY DEF BackInv, TypeOK
<1>5. Placed(offset)'
  <2>1. InOutBuffer(offset)'
    BY <1>1, StoreWaits
  <2>2. ~LookupHit(ID_FROM_OFFSET(offset))'
    BY <1>1, <1>2, NotHeldNotFound DEF PlaceInv
  <2>3. offset \notin dropped'
    BY <1>1, <1>4
  <2> QED BY <2>1, <2>2, <2>3 DEF Placed
<1>6. ASSUME NEW p \in held PROVE Placed(p)'
  <2>1. ~InOutBuffer(p)'
    BY <1>1, StoreWaits
  <2>2. ~InOutBuffer(p)
    BY <1>1 DEF InOutBuffer
  <2>3. Placed(p) /\ dropped' = dropped
    BY <1>1 DEF PlaceInv
  <2> QED BY <2>1, <2>2, <2>3, <1>2 DEF Placed
<1> QED BY <1>1, <1>3, <1>5, <1>6 DEF PlaceInv

(* A store that flushes the buffer: its page goes to the index, is dropped *)
(* or loses its slot.                                                      *)
LEMMA FlushedPlaces ==
  ASSUME OffsetsApart, OwnerInv, BackInv, PlaceInv, NEW offset \in PgOffs,
         NEW data \in Data, StoreFlushed(offset, data)
  PROVE  PlaceInv'
<1>1. /\ offset \notin held /\ Accepted(offset)
      /\ FillOutBuffer(offset, data)
      /\ held' = held \cup {offset}
  BY DEF StoreFlushed, FillOutBuffer
<1>2. PICK block \in Blocks \cup {NULL}, o \in held :
        /\ InOutBuffer(o)
        /\ StoredLength(written[o]) \in Lengths
        /\ AllocPageStatic(ID_FROM_OFFSET(o), StoredLength(written[o]), block)
        /\ dropped' =
             IF block = NULL
             THEN dropped \cup {p \in held : ID_FROM_OFFSET(p) = ID_FROM_OFFSET(o)}
             ELSE dropped
  BY FlushAllocates
<1> DEFINE id == ID_FROM_OFFSET(o)
<1>3. id \in Ids /\ TableTypeOK /\ dropped \subseteq held
  BY HeldTyped DEF BackInv, TypeOK
<1>4. ASSUME NEW p \in held \cup {offset}, p # o
      PROVE  ID_FROM_OFFSET(p) \in Ids /\ ID_FROM_OFFSET(p) # id
  <2>1. p \in PgOffs /\ Accepted(p) /\ o \in PgOffs /\ Accepted(o)
    BY <1>1, HeldTyped
  <2> QED BY <1>4, <2>1, SwapAssumption DEF OffsetsApart, DistinctIds
<1>5. faults \subseteq faults'
  BY <1>2 DEF AllocPageStatic, AllocFound, AllocFull, AllocUninit, RecordPage, tableVars
<1>6. /\ \A i \in Slots : Live(i)' =>
           (Live(i) /\ owner'[i] = owner[i]) \/ owner'[i] = id
      /\ \A j \in Ids \ {id} :
           /\ LookupHit(j)' => LookupHit(j)
           /\ faults' = {} /\ LookupHit(j) => LookupHit(j)'
      /\ faults' = {} => LookupHit(id)' \/ block = NULL
  <2>1. CASE block = NULL
    <3>1. UNCHANGED tableVars
      BY <1>2, <2>1, InputAssumption DEF AllocPageStatic, AllocFull
    <3>2. /\ \A j : LookupHit(j)' <=> LookupHit(j)
          /\ \A i : (Live(i)' <=> Live(i)) /\ owner'[i] = owner[i]
      BY <3>1 DEF tableVars, LookupHit, Live
    <3> QED BY <2>1, <3>2
  <2>2. CASE block \in Blocks
    <3> HIDE DEF id
    <3>1. /\ \A i \in Slots \ {EntryIndex(id)} :
               hash_table'[i] = hash_table[i] /\ owner'[i] = owner[i]
          /\ \/ owner'[EntryIndex(id)] = id
             \/ hash_table' = hash_table /\ owner' = owner
          /\ faults' = {} => LookupHit(id)'
      BY <1>2, <1>3, <2>2, AllocWrites DEF id
    <3>2. \A i \in Slots : Live(i)' =>
            (Live(i) /\ owner'[i] = owner[i]) \/ owner'[i] = id
      BY <3>1 DEF Live
    <3>3. \A j \in Ids \ {id} :
            /\ LookupHit(j)' => LookupHit(j)
            /\ faults' = {} /\ LookupHit(j) => LookupHit(j)'
      BY <1>2, <1>3, <2>2, AllocHits DEF OffsetsApart, id
    <3> QED BY <3>1, <3>2, <3>3
  <2> QED BY <2>1, <2>2
<1> HIDE DEF id
<1>7. LiveHeld'
  BY <1>1, <1>2, <1>6 DEF PlaceInv, LiveHeld, id
<1>8. Placed(offset)'
  <2>1. InOutBuffer(offset)'
    BY <1>1, StoreWaits
  <2>2. offset # o
    BY <1>1
  <2>3. ~LookupHit(ID_FROM_OFFSET(offset))'
    <3>1. ~LookupHit(ID_FROM_OFFSET(offset))
      BY <1>1, NotHeldNotFound DEF PlaceInv
    <3> QED BY <1>4, <1>6, <2>2, <3>1
  <2>4. offset \notin dropped'
    BY <1>1, <1>2, <1>3
  <2> QED BY <2>1, <2>3, <2>4 DEF Placed
<1>9. ASSUME NEW p \in held PROVE Placed(p)'
  <2>1. ~InOutBuffer(p)'
    BY <1>1, StoreWaits
  <2>2. CASE p = o
    <3>1. block = NULL => o \in dropped'
      BY <1>2 DEF id
    <3> QED BY <1>6, <2>1, <2>2, <3>1 DEF Placed, id
  <2>3. CASE p # o
    <3>1. ~InOutBuffer(p)
      BY <1>2, <2>3, OneWaits
    <3>2. faults = {} => LookupHit(ID_FROM_OFFSET(p)) \/ p \in dropped
      BY <3>1 DEF PlaceInv, Placed
    <3>3. dropped \subseteq dropped'
      BY <1>2
    <3>4. faults' = {} => LookupHit(ID_FROM_OFFSET(p))' \/ p \in dropped'
      BY <1>4, <1>5, <1>6, <2>3, <3>2, <3>3
    <3> QED BY <2>1, <3>4 DEF Placed
  <2> QED BY <2>2, <2>3
<1> QED BY <1>1, <1>7, <1>8, <1>9 DEF PlaceInv

(* A page that waits is dropped: it is not in the index.                   *)
LEMMA InvalidateBufferedPlaces ==
  ASSUME OffsetsApart, OwnerInv, BackInv, PlaceInv, NEW offset \in PgOffs,
         InvalidateBuffered(offset)
  PROVE  PlaceInv'
<1>1. /\ offset \in held /\ InOutBuffer(offset)
      /\ out_buffer_bmp' = FALSE
      /\ held' = held \ {offset}
      /\ dropped' = dropped \ {offset}
      /\ UNCHANGED tableVars
  BY DEF InvalidateBuffered, Forget
<1>2. /\ \A j : LookupHit(j)' <=> LookupHit(j)
      /\ \A i : (Live(i)' <=> Live(i)) /\ owner'[i] = owner[i]
      /\ faults' = faults
  BY <1>1 DEF tableVars, LookupHit, Live
<1>3. ~LookupHit(ID_FROM_OFFSET(offset))
  BY <1>1 DEF PlaceInv, Placed
<1>4. ASSUME NEW i \in Slots, Live(i)
      PROVE  owner[i] # ID_FROM_OFFSET(offset)
  BY <1>3, <1>4 DEF OwnerInv, LookupHit, Live
<1>5. LiveHeld'
  BY <1>1, <1>2, <1>4 DEF PlaceInv, LiveHeld
<1>6. ASSUME NEW p \in held \ {offset} PROVE Placed(p)'
  <2>1. ~InOutBuffer(p)
    BY <1>1, OneWaits
  <2>2. ~InOutBuffer(p)'
    BY <1>1 DEF InOutBuffer
  <2>3. Placed(p)
    BY DEF PlaceInv
  <2> QED BY <1>1, <1>2, <2>1, <2>2, <2>3 DEF Placed
<1> QED BY <1>1, <1>5, <1>6 DEF PlaceInv

(* A page that does not wait is removed from the index, if it is there.    *)
LEMMA InvalidateOnDpuPlaces ==
  ASSUME OffsetsApart, OwnerInv, BackInv, PlaceInv, NEW offset \in PgOffs,
         InvalidateOnDpu(offset)
  PROVE  PlaceInv' /\ InvalidateId(ID_FROM_OFFSET(offset))
<1> DEFINE id == ID_FROM_OFFSET(offset)
<1>1. /\ offset \in held /\ ~InOutBuffer(offset)
      /\ held' = held \ {offset}
      /\ dropped' = dropped \ {offset}
      /\ UNCHANGED <<out_buffer, out_buffer_bmp>>
  BY DEF InvalidateOnDpu, Forget
<1>2. trans_page'.id = id + PAGE_VALID
  BY DEF InvalidateOnDpu, BackInv, TypeOK, Descriptor
<1>3. InvalidateId(id) /\ id \in Ids /\ TableTypeOK
  BY <1>2, FlagComesOff DEF InvalidateOnDpu, BackInv, TypeOK
<1>4. faults' = faults
  BY <1>3 DEF InvalidateId, tableVars
<1>5. ASSUME NEW p \in held \ {offset}
      PROVE  ID_FROM_OFFSET(p) \in Ids /\ ID_FROM_OFFSET(p) # id
  <2>1. p \in PgOffs /\ Accepted(p) /\ Accepted(offset) /\ ID_FROM_OFFSET(p) \in Ids
    BY <1>1, HeldTyped
  <2> QED BY <2>1 DEF OffsetsApart, DistinctIds
<1>6. /\ \A i \in Slots : Live(i)' => Live(i) /\ owner'[i] = owner[i] /\ owner[i] # id
      /\ \A j \in Ids : /\ LookupHit(j)' => LookupHit(j)
                        /\ LookupHit(j) /\ j # id => LookupHit(j)'
  BY <1>3, InvalidateHits DEF OffsetsApart
<1>7. LiveHeld'
  BY <1>1, <1>6 DEF PlaceInv, LiveHeld
<1>8. ASSUME NEW p \in held \ {offset} PROVE Placed(p)'
  <2>1. InOutBuffer(p)' <=> InOutBuffer(p)
    BY <1>1 DEF InOutBuffer
  <2>2. LookupHit(ID_FROM_OFFSET(p))' <=> LookupHit(ID_FROM_OFFSET(p))
    BY <1>5, <1>6
  <2>3. Placed(p) /\ (p \in dropped' <=> p \in dropped)
    BY <1>1 DEF PlaceInv
  <2> QED BY <1>4, <2>1, <2>2, <2>3 DEF Placed
<1> QED BY <1>1, <1>3, <1>7, <1>8 DEF PlaceInv

(* Loads and refused stores move no page.                                  *)
Quiet == UNCHANGED <<tableVars, out_buffer, out_buffer_bmp, storage, held, written, dropped>>

LEMMA QuietPlaces ==
  ASSUME PlaceInv, Quiet
  PROVE  PlaceInv'
<1>1. /\ \A j : LookupHit(j)' <=> LookupHit(j)
      /\ \A i : (Live(i)' <=> Live(i)) /\ owner'[i] = owner[i]
      /\ \A o : InOutBuffer(o)' <=> InOutBuffer(o)
      /\ faults' = faults /\ held' = held /\ dropped' = dropped
  BY DEF Quiet, tableVars, LookupHit, Live, InOutBuffer
<1>2. LiveHeld'
  BY <1>1 DEF PlaceInv, LiveHeld
<1>3. \A o \in held : Placed(o) <=> Placed(o)'
  BY <1>1 DEF Placed
<1> QED BY <1>1, <1>2, <1>3 DEF PlaceInv

(* The steps, by what they do to pages.                                    *)
LEMMA StepKinds ==
  ASSUME [Next]_vars
  PROVE  \/ Quiet
         \/ \E offset \in PgOffs :
              \/ \E data \in Data : StoreBuffered(offset, data) \/ StoreFlushed(offset, data)
              \/ InvalidateBuffered(offset)
              \/ InvalidateOnDpu(offset)
<1>1. CASE UNCHANGED vars
  BY <1>1 DEF vars, swapVars, Quiet
<1>2. ASSUME NEW offset \in PgOffs,
             StoreRejected(offset) \/ LoadFromBuffer(offset) \/ LoadFromDpu(offset)
      PROVE  Quiet
  BY <1>2 DEF StoreRejected, LoadFromBuffer, LoadFromDpu, Quiet
<1> QED BY <1>1, <1>2 DEF Next

(* OwnerInv, from the steps of the allocator.                              *)
LEMMA OwnerStep ==
  ASSUME TableTypeOK, OwnerInv, [TableNext]_tableVars
  PROVE  OwnerInv'
<1>1. CASE UNCHANGED tableVars
  BY <1>1 DEF tableVars, OwnerInv, Live
<1>2. CASE TableNext
  BY <1>2, AllocKeepsOwner, InvalidateKeepsOwner DEF TableNext
<1> QED BY <1>1, <1>2

(* PlaceInv holds always.                                                  *)
LEMMA PlaceAlways == OffsetsApart => (Spec => [](BackInv /\ OwnerInv /\ PlaceInv))
<1> SUFFICES ASSUME OffsetsApart PROVE Spec => [](BackInv /\ OwnerInv /\ PlaceInv)
  OBVIOUS
<1>1. Init => OwnerInv /\ PlaceInv
  BY DEF Init, TableInit, OwnerInv, PlaceInv, LiveHeld, Live
<1>2. BackInv /\ OwnerInv /\ PlaceInv /\ [Next]_vars => OwnerInv' /\ PlaceInv'
  <2> SUFFICES ASSUME BackInv, OwnerInv, PlaceInv, [Next]_vars
               PROVE  OwnerInv' /\ PlaceInv'
    OBVIOUS
  <2>1. OwnerInv'
    BY BackStep, OwnerStep DEF BackInv, TypeOK
  <2>2. PlaceInv'
    BY StepKinds, QuietPlaces, BufferedPlaces, FlushedPlaces, InvalidateBufferedPlaces,
       InvalidateOnDpuPlaces
  <2> QED BY <2>1, <2>2
<1> QED BY <1>1, <1>2, BackInit, BackStep, PTL DEF Spec

(* A page that the kernel was told is stored is in the out buffer or in    *)
(* the index and never in both - or it found no room, or lost its slot -   *)
(* through any sequence of stores, loads and invalidations, as long as     *)
(* offsets do not share an id and ids do not alias.                        *)
THEOREM PagesArePlaced == OffsetsApart => (Spec => []Placement)
<1>1. PlaceInv => Placement
  BY DEF PlaceInv, Placed, Placement
<1> QED BY <1>1, PlaceAlways, PTL

(* Nothing outlives its invalidation: what is in the out buffer or in the  *)
(* index belongs to an offset that the kernel holds.                       *)
THEOREM NothingOutlives == OffsetsApart => (Spec => []NoOrphans)
<1>1. BackInv /\ PlaceInv => NoOrphans
  BY WaitingPage DEF PlaceInv, LiveHeld, NoOrphans
<1> QED BY <1>1, PlaceAlways, PTL

-----------------------------------------------------------------------------
(* Pages read back as they were stored.                                    *)

(* The blocks of a page follow each other in one section.                  *)
LEMMA BlockAhead ==
  ASSUME NEW b \in Blocks, NEW k \in Nat, OFFSET_FROM_BLOCK(b) + k \in Offsets
  PROVE  /\ b + k \in Blocks
         /\ L2_SECTION_FROM_BLOCK(b + k) = L2_SECTION_FROM_BLOCK(b)
         /\ OFFSET_FROM_BLOCK(b + k) = OFFSET_FROM_BLOCK(b) + k
<1> DEFINE P == BLOCKS_PER_SECTION
           s == b \div P
           o == b % P
<1>1. P \in Nat \ {0} /\ b \in Nat
  BY Sizes DEF Blocks
<1>2. s \in Nat /\ o \in 0 .. P - 1 /\ b = P * s + o
  BY <1>1, Division
<1>3. s \in Sections /\ o + k \in Offsets
  BY BlockDecode DEF L2_SECTION_FROM_BLOCK, OFFSET_FROM_BLOCK
<1>4. b + k = s * P + (o + k)
  <2> HIDE DEF P, s, o
  <2> QED BY <1>1, <1>2
<1> HIDE DEF s, o
<1>5. /\ s * P + (o + k) \in Blocks
      /\ L2_SECTION_FROM_BLOCK(s * P + (o + k)) = s
      /\ OFFSET_FROM_BLOCK(s * P + (o + k)) = o + k
  BY <1>3, BlockEncode
<1> QED BY <1>4, <1>5 DEF s, o, L2_SECTION_FROM_BLOCK, OFFSET_FROM_BLOCK

(* Without the two faults the blocks of an allocation were free.           *)
LEMMA AllocFresh ==
  ASSUME TableTypeOK, NEW id \in Ids, NEW length \in Lengths, NEW block \in Blocks,
         AllocPageStatic(id, length, block), faults' \subseteq {"slot"},
         NEW k \in 0 .. NumBlocks(length) - 1
  PROVE  /\ OFFSET_FROM_BLOCK(block) + k \in Offsets
         /\ OFFSET_FROM_BLOCK(block) + k \notin l2[L2_SECTION_FROM_BLOCK(block)]
<1> DEFINE n == NumBlocks(length)
           s == L2_SECTION_FROM_BLOCK(block)
           a == OFFSET_FROM_BLOCK(block)
<1>1. n \in Nat \ {0} /\ s \in Sections /\ a \in Offsets
  BY InputAssumption, NumBlocksPositive, BlockDecode
<1>2. AllocFound(id, length, block)
  <2>1. ~AllocFull(length, block)
    BY InputAssumption DEF AllocFull
  <2>2. ~AllocUninit(id, length, block)
    <3> SUFFICES ASSUME AllocUninit(id, length, block) PROVE FALSE
      OBVIOUS
    <3>1. "uninit" \in faults'
      BY DEF AllocUninit, RecordPage
    <3> QED BY <3>1
  <2> QED BY <2>1, <2>2 DEF AllocPageStatic
<1>3. PICK b \in Offsets :
        /\ FindFreeBlocksL2(l2[s], n, a, b)
        /\ RecordPage(id, length, block, IF b - a + 1 # n THEN {"carry"} ELSE {})
  BY <1>2 DEF AllocFound
<1>4. b - a + 1 = n
  <2> SUFFICES ASSUME b - a + 1 # n PROVE FALSE
    OBVIOUS
  <2>1. "carry" \in faults'
    BY <1>3 DEF RecordPage
  <2> QED BY <2>1
<1>5. IsRun(l2[s], n, a, b)
  BY <1>3 DEF FindFreeBlocksL2
<1>6. k \in 0 .. n - 1
  OBVIOUS
<1> HIDE DEF n, s, a
<1>7. (a .. b) \cap l2[s] = {}
  BY <1>1, <1>4, <1>5, PlainRunIsFree
<1>8. a + k \in a .. b /\ a + k \in Offsets
  BY <1>1, <1>4, <1>6, Sizes DEF Offsets
<1> QED BY <1>7, <1>8 DEF s, a

(* What the index holds of an offset is the content last stored there.     *)
CurrentAt(o) ==
  LookupHit(ID_FROM_OFFSET(o)) =>
    Intact(hash_table[EntryIndex(ID_FROM_OFFSET(o))].block,
           hash_table[EntryIndex(ID_FROM_OFFSET(o))].length, written[o])

CurrentInv == faults \subseteq {"slot"} => \A o \in held : CurrentAt(o)

(* A page stays as it is when its entry, content and blocks do.            *)
LEMMA StaysCurrent ==
  ASSUME NEW o \in held, CurrentAt(o), written'[o] = written[o],
         LookupHit(ID_FROM_OFFSET(o))' =>
           /\ LookupHit(ID_FROM_OFFSET(o))
           /\ hash_table'[EntryIndex(ID_FROM_OFFSET(o))] =
                hash_table[EntryIndex(ID_FROM_OFFSET(o))]
           /\ \A i \in 0 .. NumBlocks(hash_table[EntryIndex(ID_FROM_OFFSET(o))].length) - 1 :
                LET b == hash_table[EntryIndex(ID_FROM_OFFSET(o))].block + i
                IN  b \in Blocks => storage'[b] = storage[b]
  PROVE  CurrentAt(o)'
<1> DEFINE e == hash_table[EntryIndex(ID_FROM_OFFSET(o))]
<1> SUFFICES ASSUME LookupHit(ID_FROM_OFFSET(o))'
             PROVE  Intact(e.block, e.length, written[o])'
  BY DEF CurrentAt
<1>1. Intact(e.block, e.length, written[o])
  BY DEF CurrentAt
<1>2. e' = e
  OBVIOUS
<1>3. \A i \in 0 .. NumBlocks(e.length) - 1 :
        e.block + i \in Blocks => storage'[e.block + i] = storage[e.block + i]
  OBVIOUS
<1> HIDE DEF e
<1> QED BY <1>1, <1>2, <1>3 DEF Intact

(* Flushing writes the blocks of the page and no block of another page.    *)
LEMMA FlushedStaysCurrent ==
  ASSUME OffsetsApart, OwnerInv, BackInv, PlaceInv, PlaceInv', NoOverlap, CurrentInv,
         NEW offset \in PgOffs, NEW data \in Data, StoreFlushed(offset, data),
         faults' \subseteq {"slot"}
  PROVE  \A o \in held' : CurrentAt(o)'
<1>1. /\ offset \notin held /\ Accepted(offset)
      /\ FillOutBuffer(offset, data)
      /\ held' = held \cup {offset}
      /\ \A o \in held : written'[o] = written[o]
  BY DEF StoreFlushed, FillOutBuffer, BackInv, TypeOK
<1>2. PICK block \in Blocks \cup {NULL}, o \in held :
        /\ InOutBuffer(o)
        /\ StoredLength(written[o]) \in Lengths
        /\ AllocPageStatic(ID_FROM_OFFSET(o), StoredLength(written[o]), block)
        /\ storage' = IF block = NULL THEN storage ELSE WritePage(block, written[o])
  BY FlushAllocates
<1> DEFINE id == ID_FROM_OFFSET(o)
           length == StoredLength(written[o])
           n == NumBlocks(length)
<1>3. id \in Ids /\ TableTypeOK /\ n \in Nat \ {0}
  BY <1>2, HeldTyped, InputAssumption, NumBlocksPositive DEF BackInv, TypeOK
<1>4. faults \subseteq {"slot"}
  <2>1. faults \subseteq faults'
    BY <1>2 DEF AllocPageStatic, AllocFound, AllocFull, AllocUninit, RecordPage, tableVars
  <2> QED BY <2>1
<1>5. Reserved /\ \A p \in held : CurrentAt(p)
  BY <1>4 DEF NoOverlap, CurrentInv
<1>6. ~LookupHit(id)
  BY <1>2 DEF PlaceInv, Placed
<1>7. CurrentAt(offset)'
  <2>1. InOutBuffer(offset)'
    BY <1>1, StoreWaits
  <2>2. ~LookupHit(ID_FROM_OFFSET(offset))'
    BY <1>1, <2>1 DEF PlaceInv, Placed
  <2> QED BY <2>2 DEF CurrentAt
<1>8. CASE block = NULL
  <2>1. UNCHANGED tableVars /\ storage' = storage
    BY <1>2, <1>8, InputAssumption DEF AllocPageStatic, AllocFull
  <2>2. hash_table' = hash_table /\ \A j : LookupHit(j)' <=> LookupHit(j)
    BY <2>1 DEF tableVars, LookupHit
  <2>3. \A p \in held : CurrentAt(p)'
    BY <1>1, <1>5, <2>1, <2>2, StaysCurrent
  <2> QED BY <1>1, <1>7, <2>3
<1>9. CASE block \in Blocks
  <2>1. block # NULL /\ storage' = WritePage(block, written[o])
    BY <1>2, <1>9, InputAssumption
  <2>2. AllocPageStatic(id, length, block) /\ length \in Lengths
    BY <1>2
  <2>3. ASSUME NEW k \in 0 .. n - 1
        PROVE  /\ block + k \in Blocks
               /\ L2_SECTION_FROM_BLOCK(block + k) = L2_SECTION_FROM_BLOCK(block)
               /\ OFFSET_FROM_BLOCK(block + k) = OFFSET_FROM_BLOCK(block) + k
               /\ OFFSET_FROM_BLOCK(block) + k \notin l2[L2_SECTION_FROM_BLOCK(block)]
    <3>1. /\ OFFSET_FROM_BLOCK(block) + k \in Offsets
          /\ OFFSET_FROM_BLOCK(block) + k \notin l2[L2_SECTION_FROM_BLOCK(block)]
      <4> HIDE DEF id, length
      <4> QED BY <1>3, <1>9, <2>2, <2>3, AllocFresh
    <3>2. k \in Nat
      BY <1>3, <2>3
    <3> QED BY <1>9, <3>1, <3>2, BlockAhead
  <2>4. block \in Nat
    BY <1>9 DEF Blocks
  <2>5. CurrentAt(o)'
    <3> SUFFICES ASSUME LookupHit(id)'
                 PROVE  CurrentAt(o)'
      BY DEF CurrentAt
    <3>1. /\ hash_table'[EntryIndex(id)] =
               [block |-> block, tag |-> TAG_FROM_ID(id), length |-> length]
          \/ hash_table' = hash_table
      <4> HIDE DEF id, length
      <4> QED BY <1>3, <1>9, <2>2, AllocWrites
    <3>2. hash_table' # hash_table
      BY <1>6 DEF LookupHit
    <3>3. /\ hash_table'[EntryIndex(id)].block = block
          /\ hash_table'[EntryIndex(id)].length = length
      BY <3>1, <3>2
    <3>4. \A i \in 0 .. n - 1 : block + i \in Blocks /\ storage'[block + i] = <<written[o], i>>
      <4> TAKE i \in 0 .. n - 1
      <4>1. block + i \in Blocks /\ block + i \in block .. (block + n - 1)
            /\ (block + i) - block = i
        BY <1>3, <2>3, <2>4
      <4> QED BY <2>1, <4>1 DEF WritePage
    <3>5. written'[o] = written[o]
      BY <1>1
    <3> QED BY <3>3, <3>4, <3>5 DEF CurrentAt, Intact
  <2>6. ASSUME NEW p \in held, p # o
        PROVE  CurrentAt(p)'
    <3> DEFINE j == ID_FROM_OFFSET(p)
               e == hash_table[EntryIndex(j)]
    <3>1. j \in Ids /\ j # id
      BY <2>6, HeldTyped DEF OffsetsApart, DistinctIds
    <3>2. LookupHit(j)' => LookupHit(j) /\ hash_table'[EntryIndex(j)] = e
      <4> HIDE DEF id, length, j
      <4> QED BY <1>3, <1>9, <2>2, <3>1, AllocHits DEF OffsetsApart
    <3>3. ASSUME LookupHit(j), NEW i \in 0 .. NumBlocks(e.length) - 1, e.block + i \in Blocks
          PROVE  storage'[e.block + i] = storage[e.block + i]
      <4>1. EntryIndex(j) \in Slots /\ Live(EntryIndex(j))
        BY <3>1, <3>3, IdHash DEF LookupHit, Live
      <4>2. /\ SlotSection(EntryIndex(j)) \in Sections
            /\ SlotFirst(EntryIndex(j)) \in Offsets
            /\ NumBlocks(e.length) \in Nat \ {0}
            /\ e.block \in Blocks
        BY <1>3, <3>1, <3>3, <4>1, LiveTyped, HitTyped
      <4>3. SlotFirst(EntryIndex(j)) + i \in l2[SlotSection(EntryIndex(j))]
        <5>1. SlotFirst(EntryIndex(j)) + i \in SlotOffsets(EntryIndex(j))
          BY <3>3, <4>2, Sizes DEF SlotOffsets, Offsets
        <5> QED BY <1>5, <4>1, <5>1 DEF Reserved
      <4>4. SlotFirst(EntryIndex(j)) + i \in Offsets /\ i \in Nat
        BY <1>3, <3>3, <4>2, <4>3 DEF TableTypeOK
      <4>5. /\ L2_SECTION_FROM_BLOCK(e.block + i) = SlotSection(EntryIndex(j))
            /\ OFFSET_FROM_BLOCK(e.block + i) = SlotFirst(EntryIndex(j)) + i
        BY <4>2, <4>4, BlockAhead DEF SlotSection, SlotFirst
      <4>6. e.block + i \notin block .. (block + n - 1)
        <5> SUFFICES ASSUME e.block + i \in block .. (block + n - 1) PROVE FALSE
          OBVIOUS
        <5> DEFINE k == (e.block + i) - block
        <5>1. k \in 0 .. n - 1 /\ block + k = e.block + i
          <6>1. e.block + i \in Nat
            BY <3>3 DEF Blocks
          <6> HIDE DEF n, e
          <6> QED BY <1>3, <2>4, <6>1
        <5> HIDE DEF k
        <5> QED BY <2>3, <4>3, <4>5, <5>1
      <4> QED BY <2>1, <3>3, <4>6 DEF WritePage
    <3>4. CurrentAt(p) /\ written'[p] = written[p]
      BY <1>1, <1>5
    <3> QED BY <3>2, <3>3, <3>4, StaysCurrent
  <2> QED BY <1>1, <1>7, <2>5, <2>6
<1> QED BY <1>8, <1>9

(* The other stores, and the invalidations, write no block.                *)
LEMMA BufferedStaysCurrent ==
  ASSUME OffsetsApart, BackInv, PlaceInv', NEW offset \in PgOffs, NEW data \in Data,
         StoreBuffered(offset, data), \A o \in held : CurrentAt(o)
  PROVE  \A o \in held' : CurrentAt(o)'
<1>1. /\ Accepted(offset) /\ offset \notin held
      /\ FillOutBuffer(offset, data)
      /\ held' = held \cup {offset}
      /\ \A o \in held : written'[o] = written[o]
      /\ UNCHANGED <<tableVars, storage>>
  BY DEF StoreBuffered, FillOutBuffer, BackInv, TypeOK
<1>2. hash_table' = hash_table /\ \A j : LookupHit(j)' <=> LookupHit(j)
  BY <1>1 DEF tableVars, LookupHit
<1>3. CurrentAt(offset)'
  <2>1. InOutBuffer(offset)'
    BY <1>1, StoreWaits
  <2>2. ~LookupHit(ID_FROM_OFFSET(offset))'
    BY <1>1, <2>1 DEF PlaceInv, Placed
  <2> QED BY <2>2 DEF CurrentAt
<1>4. \A o \in held : CurrentAt(o)'
  BY <1>1, <1>2, StaysCurrent
<1> QED BY <1>1, <1>3, <1>4

LEMMA InvalidateStaysCurrent ==
  ASSUME OffsetsApart, OwnerInv, BackInv, PlaceInv, NEW offset \in PgOffs,
         InvalidateBuffered(offset) \/ InvalidateOnDpu(offset),
         \A o \in held : CurrentAt(o)
  PROVE  \A o \in held' : CurrentAt(o)'
<1>1. /\ held' = held \ {offset}
      /\ storage' = storage
      /\ \A o \in held \ {offset} : written'[o] = written[o]
  BY HeldTyped DEF InvalidateBuffered, InvalidateOnDpu, Forget, BackInv, TypeOK
<1>2. ASSUME NEW o \in held
      PROVE  LookupHit(ID_FROM_OFFSET(o))' =>
               /\ LookupHit(ID_FROM_OFFSET(o))
               /\ hash_table'[EntryIndex(ID_FROM_OFFSET(o))] =
                    hash_table[EntryIndex(ID_FROM_OFFSET(o))]
  <2>1. CASE InvalidateBuffered(offset)
    <3>1. hash_table' = hash_table
      BY <2>1 DEF InvalidateBuffered, tableVars
    <3> QED BY <3>1 DEF LookupHit
  <2>2. CASE InvalidateOnDpu(offset)
    <3>1. InvalidateId(ID_FROM_OFFSET(offset))
      BY <2>2, InvalidateOnDpuPlaces
    <3>2. /\ ID_FROM_OFFSET(offset) \in Ids /\ ID_FROM_OFFSET(o) \in Ids
          /\ TableTypeOK /\ NoAlias
      BY HeldTyped, SwapAssumption DEF BackInv, TypeOK, OffsetsApart
    <3> QED BY <3>1, <3>2, InvalidateHits
  <2> QED BY <2>1, <2>2
<1>3. ASSUME NEW o \in held \ {offset} PROVE CurrentAt(o)'
  BY <1>1, <1>2, StaysCurrent
<1> QED BY <1>1, <1>3

(* CurrentInv, one step on.                                                *)
LEMMA CurrentStep ==
  ASSUME OffsetsApart, OwnerInv, BackInv, PlaceInv, PlaceInv', NoOverlap, CurrentInv,
         [Next]_vars
  PROVE  CurrentInv'
<1> SUFFICES ASSUME faults' \subseteq {"slot"} PROVE \A o \in held' : CurrentAt(o)'
  BY DEF CurrentInv
<1>1. faults \subseteq faults'
  <2>1. [TableNext]_tableVars
    BY BackStep
  <2> QED BY <2>1 DEF TableNext, AllocPageStatic, AllocFound, AllocFull, AllocUninit,
                      RecordPage, InvalidateId, tableVars
<1>2. \A o \in held : CurrentAt(o)
  BY <1>1 DEF CurrentInv
<1>3. CASE Quiet
  <2>1. /\ hash_table' = hash_table /\ storage' = storage /\ held' = held
        /\ written' = written
        /\ \A j : LookupHit(j)' <=> LookupHit(j)
    BY <1>3 DEF Quiet, tableVars, LookupHit
  <2> QED BY <1>2, <2>1, StaysCurrent
<1>4. ASSUME NEW offset \in PgOffs,
             \/ \E data \in Data : StoreBuffered(offset, data) \/ StoreFlushed(offset, data)
             \/ InvalidateBuffered(offset)
             \/ InvalidateOnDpu(offset)
      PROVE  \A o \in held' : CurrentAt(o)'
  BY <1>2, <1>4, BufferedStaysCurrent, FlushedStaysCurrent, InvalidateStaysCurrent
<1> QED BY <1>3, <1>4, StepKinds

(* CurrentInv holds always.                                                *)
LEMMA CurrentAlways == OffsetsApart => (Spec => [](BackInv /\ CurrentInv))
<1> SUFFICES ASSUME OffsetsApart PROVE Spec => [](BackInv /\ CurrentInv)
  OBVIOUS
<1>1. Spec => [](BackInv /\ OwnerInv /\ PlaceInv)
  BY PlaceAlways
<1>2. Init => CurrentInv
  BY DEF Init, CurrentInv
<1>3. OwnerInv /\ BackInv /\ PlaceInv /\ PlaceInv' /\ NoOverlap /\ CurrentInv /\ [Next]_vars
        => CurrentInv'
  BY CurrentStep
<1> QED BY <1>1, <1>2, <1>3, BackEndUsesTable, PagesNeverOverlap, PTL DEF Spec

(* Across any number of stores, flushes and invalidations the blocks of a  *)
(* page in the index hold the content last stored for it, also when pages  *)
(* lost their hash slots on the way: the allocator gives a page only free  *)
(* blocks, and an invalidated page keeps no entry.                         *)
THEOREM StorageAlwaysCurrent == OffsetsApart => (Spec => []StorageCurrent)
<1>1. CurrentInv => StorageCurrent
  BY DEF CurrentInv, CurrentAt, StorageCurrent
<1> QED BY <1>1, CurrentAlways, PTL

(* What can be read of an intact page is that page.                        *)
LEMMA ReadIntact ==
  ASSUME NEW block, NEW length \in Lengths, NEW data \in Data, Intact(block, length, data),
         NEW page \in ReadPage(block, length)
  PROVE  page = data
<1>1. 0 \in 0 .. NumBlocks(length) - 1
  BY InputAssumption, NumBlocksPositive
<1>2. Intact(block, length, page)
  BY DEF ReadPage
<1>3. storage[block + 0] = <<data, 0>> /\ storage[block + 0] = <<page, 0>>
  BY <1>1, <1>2 DEF Intact
<1> QED BY <1>3

(* A load for which the program of the DPU runs and succeeds gives the     *)
(* kernel the content that it last stored.                                 *)
THEOREM FetchAlwaysCurrent == OffsetsApart => (Spec => FetchCurrent)
<1> DEFINE Fetched == \A o \in PgOffs : loaded'.ok /\ LoadFromDpu(o) /\ faults \subseteq {"slot"}
                                          => loaded'.data = written[o]
<1>1. BackInv /\ CurrentInv => Fetched
  <2> SUFFICES ASSUME BackInv, CurrentInv, NEW o \in PgOffs, LoadFromDpu(o), loaded'.ok,
                      faults \subseteq {"slot"}
               PROVE  loaded'.data = written[o]
    OBVIOUS
  <2> DEFINE id == ID_FROM_OFFSET(o)
             entry == hash_table[EntryIndex(id)]
  <2>1. PICK page \in LzoDecompressMain(id) :
          /\ trans_page' =
               [data |-> IF page = Failed THEN trans_page.data ELSE page, id |-> id]
          /\ in_buffer' = trans_page'
          /\ fetched' = (page # Failed)
          /\ loaded' = [ret    |-> IF in_buffer'.id = id THEN 0 ELSE -1,
                        ok     |-> fetched',
                        offset |-> o,
                        data   |-> in_buffer'.data]
    BY DEF LoadFromDpu
  <2>2. page # Failed /\ loaded'.data = page
    BY <2>1
  <2>3. LookupHit(id) /\ page \in ReadPage(entry.block, entry.length)
    BY <2>1, <2>2 DEF LzoDecompressMain
  <2>4. o \in held /\ id \in Ids /\ TableTypeOK /\ written[o] \in Data
    BY SwapAssumption DEF LoadFromDpu, BackInv, TypeOK, OutInv
  <2>5. Intact(entry.block, entry.length, written[o])
    BY <2>3, <2>4 DEF CurrentInv, CurrentAt
  <2>6. entry.length \in Lengths
    BY <2>4, <2>5, SwapAssumption DEF Intact
  <2> HIDE DEF id, entry
  <2> QED BY <2>2, <2>3, <2>4, <2>5, <2>6, ReadIntact
<1> QED BY <1>1, CurrentAlways, PTL DEF FetchCurrent

-----------------------------------------------------------------------------
(* The back end is a cache of pages.                                       *)

(* The pages of the cache are those that are held.                         *)
LEMMA PagesHeld == DOMAIN Pages = held /\ \A o \in held : Pages[o] = written[o]
  BY DEF Pages

(* After a store its page waits, alone, and is held with its content.      *)
LEMMA StorePages ==
  ASSUME OffsetsApart, BackInv, NEW offset \in PgOffs, NEW data \in Data, Accepted(offset),
         FillOutBuffer(offset, data)
  PROVE  /\ Waiting' = {offset}
         /\ Pages' = [p \in held \cup {offset} |-> IF p = offset THEN data ELSE written[p]]
<1>1. /\ held' = held \cup {offset}
      /\ written' = [written EXCEPT ![offset] = data]
  BY DEF FillOutBuffer
<1>2. \A p \in held' : InOutBuffer(p)' <=> p = offset
  BY <1>1, StoreWaits
<1>3. Waiting' = {offset}
  BY <1>1, <1>2 DEF Waiting
<1>4. held \cup {offset} \subseteq PgOffs /\ DOMAIN written = PgOffs
  BY HeldTyped DEF BackInv, TypeOK
<1>5. \A p \in held \cup {offset} :
        written'[p] = IF p = offset THEN data ELSE written[p]
  BY <1>1, <1>4
<1>6. Pages' = [p \in held \cup {offset} |-> IF p = offset THEN data ELSE written[p]]
  BY <1>1, <1>5 DEF Pages
<1> QED BY <1>3, <1>6

(* A store into a free buffer loses no page.                               *)
LEMMA BufferedCached ==
  ASSUME OffsetsApart, OwnerInv, BackInv, PlaceInv, PlaceInv', NEW offset \in PgOffs,
         NEW data \in Data, StoreBuffered(offset, data)
  PROVE  Cache!Store(offset, data)
<1>1. /\ offset \notin held /\ Accepted(offset) /\ ~out_buffer_bmp
      /\ FillOutBuffer(offset, data)
      /\ UNCHANGED <<tableVars, trans_page>>
  BY DEF StoreBuffered
<1>2. /\ held' = held \cup {offset} /\ loaded' = NoLoad
      /\ UNCHANGED <<in_buffer, fetched>>
  BY <1>1 DEF FillOutBuffer
<1>3. \A j : LookupHit(j)' <=> LookupHit(j)
  BY <1>1 DEF tableVars, LookupHit
<1>4. Waiting = {}
  BY <1>1 DEF Waiting, InOutBuffer
<1>5. \A p \in held' : InOutBuffer(p)' <=> p = offset
  BY <1>1, <1>2, StoreWaits
<1>6. \A p \in held : ~InOutBuffer(p)
  BY <1>1 DEF InOutBuffer
<1>7. Lost' = Lost
  BY <1>1, <1>2, <1>3, <1>5, <1>6 DEF Lost
<1>8. faults' = faults
  BY <1>1 DEF tableVars
<1>9. /\ Waiting' = {offset}
      /\ Pages' = [p \in held \cup {offset} |-> IF p = offset THEN data ELSE written[p]]
  BY <1>1, StorePages
<1>10. Pages' = [p \in DOMAIN Pages \cup {offset} |->
                   IF p = offset THEN data ELSE Pages[p]]
  BY <1>9, PagesHeld
<1> QED
  BY <1>1, <1>2, <1>4, <1>7, <1>8, <1>9, <1>10, PagesHeld DEF Cache!Store, Cache!held

(* A store that flushes the buffer may lose the page that waited or the    *)
(* one in its hash slot, and no page is found again that was not.          *)
LEMMA FlushLoses ==
  ASSUME OffsetsApart, OwnerInv, BackInv, PlaceInv, PlaceInv', NEW offset \in PgOffs,
         NEW data \in Data, StoreFlushed(offset, data)
  PROVE  \E o \in Waiting :
           /\ trans_page'.data = written[o]
           /\ \/ Lost' = Lost
              \/ \E p \in held :
                   /\ EntryIndex(ID_FROM_OFFSET(p)) = EntryIndex(ID_FROM_OFFSET(o))
                   /\ Lost' = Lost \cup {p}
<1>1. /\ offset \notin held /\ Accepted(offset)
      /\ FillOutBuffer(offset, data)
      /\ held' = held \cup {offset}
  BY DEF StoreFlushed, FillOutBuffer
<1>2. PICK block \in Blocks \cup {NULL}, o \in held :
        /\ InOutBuffer(o)
        /\ StoredLength(written[o]) \in Lengths
        /\ AllocPageStatic(ID_FROM_OFFSET(o), StoredLength(written[o]), block)
        /\ trans_page' =
             [data |-> written[o],
              id   |-> IF block = NULL THEN STATUS_ERROR_STORE_NO_SPACE ELSE STATUS_OK]
  BY FlushAllocates
<1> DEFINE id == ID_FROM_OFFSET(o)
<1>3. id \in Ids /\ TableTypeOK /\ o \in Waiting /\ trans_page'.data = written[o]
  BY <1>2, HeldTyped DEF BackInv, TypeOK, Waiting
<1>4. \A p \in held' : InOutBuffer(p)' <=> p = offset
  BY <1>1, StoreWaits
<1>5. \A p \in held : InOutBuffer(p) <=> p = o
  BY <1>2, OneWaits
<1>6. ~LookupHit(id)
  BY <1>2 DEF PlaceInv, Placed
<1>7. Lost' = {p \in held : ~LookupHit(ID_FROM_OFFSET(p))'}
  BY <1>1, <1>4 DEF Lost
<1>8. Lost = {p \in held : p # o /\ ~LookupHit(ID_FROM_OFFSET(p))}
  BY <1>5 DEF Lost
<1>9. ASSUME NEW p \in held, p # o, LookupHit(ID_FROM_OFFSET(p))'
      PROVE  LookupHit(ID_FROM_OFFSET(p))
  <2> DEFINE j == ID_FROM_OFFSET(p)
  <2>1. j \in Ids /\ j # id
    BY <1>9, HeldTyped DEF OffsetsApart, DistinctIds
  <2>2. CASE block = NULL
    <3>1. hash_table' = hash_table
      BY <1>2, <2>2, InputAssumption DEF AllocPageStatic, AllocFull, tableVars
    <3> QED BY <1>9, <3>1 DEF LookupHit
  <2>3. CASE block \in Blocks
    <3> HIDE DEF id, j
    <3>1. LookupHit(j)' => LookupHit(j)
      BY <1>2, <1>3, <2>1, <2>3, AllocHits DEF OffsetsApart, id
    <3> QED BY <1>9, <3>1 DEF j
  <2> QED BY <2>2, <2>3
<1>10. ASSUME NEW p \in held, LookupHit(ID_FROM_OFFSET(p)), ~LookupHit(ID_FROM_OFFSET(p))'
       PROVE  EntryIndex(ID_FROM_OFFSET(p)) = EntryIndex(id) /\ LookupHit(id)'
  <2> DEFINE j == ID_FROM_OFFSET(p)
  <2>1. j \in Ids /\ EntryIndex(j) \in Slots /\ EntryIndex(id) \in Slots
    BY <1>3, HeldTyped, IdHash
  <2>2. hash_table'[EntryIndex(j)] # hash_table[EntryIndex(j)]
    BY <1>10 DEF LookupHit
  <2>3. block # NULL
    <3> SUFFICES ASSUME block = NULL PROVE FALSE
      OBVIOUS
    <3>1. hash_table' = hash_table
      BY <1>2, InputAssumption DEF AllocPageStatic, AllocFull, tableVars
    <3> QED BY <2>2, <3>1
  <2> HIDE DEF id, j
  <2>4. /\ \A i \in Slots \ {EntryIndex(id)} : hash_table'[i] = hash_table[i]
        /\ \/ hash_table'[EntryIndex(id)] =
                 [block |-> block, tag |-> TAG_FROM_ID(id), length |-> StoredLength(written[o])]
           \/ hash_table' = hash_table
    BY <1>2, <1>3, <2>3, AllocWrites DEF id
  <2>5. EntryIndex(j) = EntryIndex(id)
    BY <2>1, <2>2, <2>4
  <2>6. hash_table'[EntryIndex(id)] =
          [block |-> block, tag |-> TAG_FROM_ID(id), length |-> StoredLength(written[o])]
    BY <2>2, <2>4
  <2>7. LookupHit(id)'
    BY <1>2, <2>6, InputAssumption DEF LookupHit
  <2> QED BY <2>5, <2>7 DEF j
<1>11. ASSUME NEW p \in held, LookupHit(ID_FROM_OFFSET(p)), ~LookupHit(ID_FROM_OFFSET(p))',
              NEW q \in held, LookupHit(ID_FROM_OFFSET(q)), ~LookupHit(ID_FROM_OFFSET(q))'
       PROVE  p = q
  <2>1. EntryIndex(ID_FROM_OFFSET(p)) = EntryIndex(ID_FROM_OFFSET(q))
    BY <1>10, <1>11
  <2>2. TAG_FROM_ID(ID_FROM_OFFSET(p)) = TAG_FROM_ID(ID_FROM_OFFSET(q))
    BY <1>11, <2>1 DEF LookupHit
  <2>3. ID_FROM_OFFSET(p) = ID_FROM_OFFSET(q)
    BY <2>1, <2>2, HeldTyped DEF OffsetsApart, NoAlias
  <2> QED BY <2>3, HeldTyped DEF OffsetsApart, DistinctIds
<1> HIDE DEF id
<1>12. CASE LookupHit(id)'
  <2>1. CASE \A p \in held : LookupHit(ID_FROM_OFFSET(p)) => LookupHit(ID_FROM_OFFSET(p))'
    <3>1. Lost' = Lost
      BY <1>7, <1>8, <1>9, <1>12, <2>1 DEF id
    <3> QED BY <1>3, <3>1
  <2>2. ASSUME NEW p \in held, LookupHit(ID_FROM_OFFSET(p)), ~LookupHit(ID_FROM_OFFSET(p))'
        PROVE  /\ EntryIndex(ID_FROM_OFFSET(p)) = EntryIndex(id)
               /\ Lost' = Lost \cup {p}
    <3>1. \A q \in held : q # p /\ LookupHit(ID_FROM_OFFSET(q)) => LookupHit(ID_FROM_OFFSET(q))'
      BY <1>11, <2>2
    <3>2. p # o /\ (\A q \in held : q = o => LookupHit(ID_FROM_OFFSET(q))')
      BY <1>6, <1>12, <2>2 DEF id
    <3>3. Lost' = Lost \cup {p}
      BY <1>7, <1>8, <1>9, <2>2, <3>1, <3>2
    <3> QED BY <1>10, <2>2, <3>3
  <2> QED BY <1>3, <2>1, <2>2 DEF id
<1>13. CASE ~LookupHit(id)'
  <2>1. \A p \in held : LookupHit(ID_FROM_OFFSET(p)) => LookupHit(ID_FROM_OFFSET(p))'
    BY <1>10, <1>13
  <2>2. Lost' = Lost \cup {o}
    BY <1>2, <1>7, <1>8, <1>9, <1>13, <2>1 DEF id
  <2> QED BY <1>2, <1>3, <2>2
<1> QED BY <1>12, <1>13

(* The steps, as steps of the cache.                                       *)
LEMMA FlushedCached ==
  ASSUME OffsetsApart, OwnerInv, BackInv, PlaceInv, PlaceInv', NEW offset \in PgOffs,
         NEW data \in Data, StoreFlushed(offset, data)
  PROVE  Cache!Store(offset, data)
<1>1. /\ offset \notin held /\ Accepted(offset)
      /\ FillOutBuffer(offset, data)
      /\ loaded' = NoLoad
      /\ UNCHANGED <<in_buffer, fetched>>
  BY DEF StoreFlushed, FillOutBuffer
<1>2. /\ Waiting' = {offset}
      /\ Pages' = [p \in held \cup {offset} |-> IF p = offset THEN data ELSE written[p]]
  BY <1>1, StorePages
<1>3. Pages' = [p \in DOMAIN Pages \cup {offset} |-> IF p = offset THEN data ELSE Pages[p]]
  BY <1>2, PagesHeld
<1>4. PICK o \in Waiting :
        /\ trans_page'.data = written[o]
        /\ \/ Lost' = Lost
           \/ \E p \in held :
                /\ EntryIndex(ID_FROM_OFFSET(p)) = EntryIndex(ID_FROM_OFFSET(o))
                /\ Lost' = Lost \cup {p}
  BY FlushLoses
<1>5. o \in held /\ held \subseteq PgOffs
  BY HeldTyped DEF Waiting
<1>6. Cache!SendOff(o)
  <2>1. trans_page'.data = Pages[o]
    BY <1>4, <1>5, PagesHeld
  <2>2. Lost' \in {Lost} \cup
          {Lost \cup {p} : p \in {q \in held :
             [x \in PgOffs |-> EntryIndex(ID_FROM_OFFSET(x))][q] =
             [x \in PgOffs |-> EntryIndex(ID_FROM_OFFSET(x))][o]}}
    BY <1>4, <1>5
  <2>3. faults \subseteq faults'
    BY FlushAllocates DEF AllocPageStatic, AllocFound, AllocFull, AllocUninit, RecordPage,
                          tableVars
  <2>4. (faults' \subseteq {"slot"}) \in {faults \subseteq {"slot"}, FALSE}
    BY <2>3
  <2> QED BY <2>1, <2>2, <2>4, PagesHeld DEF Cache!SendOff, Cache!held
<1> QED BY <1>1, <1>2, <1>3, <1>4, <1>6, PagesHeld DEF Cache!Store, Cache!held

LEMMA RejectedCached ==
  ASSUME NEW offset \in PgOffs, StoreRejected(offset)
  PROVE  Cache!Refuse
<1>1. /\ loaded' = NoLoad
      /\ UNCHANGED <<hash_table, faults, out_buffer, out_buffer_bmp, in_buffer, trans_page,
                     held, written, fetched>>
  BY DEF StoreRejected, tableVars
<1>2. Pages' = Pages /\ Waiting' = Waiting /\ Lost' = Lost
  BY <1>1 DEF Pages, Waiting, Lost, InOutBuffer, LookupHit
<1> QED BY <1>1, <1>2 DEF Cache!Refuse

(* An id in the out buffer carries the flag: it never matches.             *)
LEMMA OutNeverHit ==
  ASSUME BackInv, NEW offset \in PgOffs
  PROVE  ~OutBufferHit(ID_FROM_OFFSET(offset))
<1> SUFFICES ASSUME out_buffer_bmp, out_buffer.id = ID_FROM_OFFSET(offset) PROVE FALSE
  BY DEF OutBufferHit
<1>1. PICK o \in PgOffs : out_buffer.id = ID_FROM_OFFSET(o) + PAGE_VALID
  BY WaitingPage
<1>2. ID_FROM_OFFSET(o) \in Nat
  BY FlagComesOff
<1>3. ID_FROM_OFFSET(offset) < PAGE_VALID
  <2>1. offset \in Nat /\ DPUS_PER_RANK \in Nat \ {0} /\ PAGE_VALID \in Nat \ {0}
    BY SwapAssumption
  <2>2. offset \div DPUS_PER_RANK \in Nat
    BY <2>1, Division
  <2>3. ID_FROM_OFFSET(offset) \in 0 .. PAGE_VALID - 1
    BY <2>1, <2>2, Division DEF ID_FROM_OFFSET
  <2> QED BY <2>1, <2>3
<1>4. ID_FROM_OFFSET(offset) \in Nat
  BY FlagComesOff
<1> QED BY <1>1, <1>2, <1>3, <1>4, SwapSizes

LEMMA LoadBufferCached ==
  ASSUME BackInv, NEW offset \in PgOffs, LoadFromBuffer(offset)
  PROVE  Cache!LoadRecent(offset)
<1>1. ~OutBufferHit(ID_FROM_OFFSET(offset))
  BY OutNeverHit
<1>2. /\ offset \in held
      /\ in_buffer.id = ID_FROM_OFFSET(offset)
      /\ loaded' = [ret |-> 0, ok |-> fetched, offset |-> offset, data |-> in_buffer.data]
      /\ UNCHANGED <<hash_table, faults, out_buffer, out_buffer_bmp, in_buffer, trans_page,
                     held, written, fetched>>
  <2>1. (OutBufferHit(ID_FROM_OFFSET(offset)) \/ fetched) = fetched
    BY <1>1 DEF BackInv, TypeOK
  <2> QED BY <1>1, <2>1 DEF LoadFromBuffer, InBufferHit, tableVars
<1>3. Pages' = Pages /\ Waiting' = Waiting /\ Lost' = Lost
  BY <1>2 DEF Pages, Waiting, Lost, InOutBuffer, LookupHit
<1> QED BY <1>2, <1>3, PagesHeld DEF Cache!LoadRecent, Cache!Answer, Cache!held

(* What a load finds is the content last stored, unless it was stored over;*)
(* what it does not find waits or is lost.                                 *)
LEMMA LoadDpuCached ==
  ASSUME OffsetsApart, BackInv, PlaceInv, CurrentInv, NEW offset \in PgOffs,
         LoadFromDpu(offset)
  PROVE  Cache!LoadFound(offset) \/ Cache!LoadMissed(offset)
<1> DEFINE id == ID_FROM_OFFSET(offset)
           entry == hash_table[EntryIndex(id)]
<1>1. PICK page \in LzoDecompressMain(id) :
        /\ trans_page' =
             [data |-> IF page = Failed THEN trans_page.data ELSE page, id |-> id]
        /\ in_buffer' = trans_page'
        /\ fetched' = (page # Failed)
        /\ loaded' = [ret    |-> IF in_buffer'.id = id THEN 0 ELSE -1,
                      ok     |-> fetched',
                      offset |-> offset,
                      data   |-> in_buffer'.data]
  BY DEF LoadFromDpu
<1>2. /\ offset \in held
      /\ in_buffer.id # id
      /\ UNCHANGED <<hash_table, faults, out_buffer, out_buffer_bmp, held, written>>
  BY DEF LoadFromDpu, InBufferHit, tableVars
<1>3. Pages' = Pages /\ Waiting' = Waiting /\ Lost' = Lost
  BY <1>2 DEF Pages, Waiting, Lost, InOutBuffer, LookupHit
<1>4. LookupHit(id) <=> offset \notin Waiting \cup Lost
  BY <1>2 DEF PlaceInv, Placed, Waiting, Lost
<1>5. ASSUME LookupHit(id), faults \subseteq {"slot"}
      PROVE  page = written[offset] /\ page # Failed
  <2>1. page \in ReadPage(entry.block, entry.length)
    BY <1>1, <1>5 DEF LzoDecompressMain
  <2>2. TableTypeOK /\ written[offset] \in Data
    BY <1>2 DEF BackInv, TypeOK, OutInv
  <2>3. Intact(entry.block, entry.length, written[offset])
    BY <1>2, <1>5 DEF CurrentInv, CurrentAt
  <2>4. entry.length \in Lengths
    BY <2>2, <2>3, SwapAssumption DEF Intact
  <2> HIDE DEF id, entry
  <2>5. page = written[offset]
    BY <2>1, <2>2, <2>3, <2>4, ReadIntact
  <2> QED BY <2>2, <2>5, SwapAssumption
<1>6. ~LookupHit(id) => page = Failed
  BY <1>1 DEF LzoDecompressMain
<1>7. CASE page # Failed
  <2>1. page \in PageContents
    BY <1>1, <1>7, ReadTyped
  <2>2. /\ trans_page'.data = page /\ trans_page'.id = id
        /\ in_buffer'.data = page /\ in_buffer'.id = id
        /\ fetched' = TRUE
        /\ loaded' = [ret |-> 0, ok |-> TRUE, offset |-> offset, data |-> page]
    BY <1>1, <1>7
  <2>3. faults \subseteq {"slot"} => page = Pages[offset]
    BY <1>2, <1>5, <1>6, <1>7, PagesHeld
  <2>4. Cache!LoadTransfer(offset, TRUE)
    BY <1>2, <1>3, <2>2, PagesHeld DEF Cache!LoadTransfer, Cache!Answer, Cache!held
  <2>5. Cache!LoadFound(offset)
    BY <1>4, <1>6, <1>7, <2>1, <2>2, <2>3, <2>4 DEF Cache!LoadFound
  <2> QED BY <2>5
<1>8. CASE page = Failed
  <2>1. /\ trans_page'.data = trans_page.data /\ trans_page'.id = id
        /\ in_buffer'.data = trans_page.data /\ in_buffer'.id = id
        /\ fetched' = FALSE
        /\ loaded' = [ret |-> 0, ok |-> FALSE, offset |-> offset, data |-> trans_page.data]
    BY <1>1, <1>8
  <2>2. Cache!LoadTransfer(offset, FALSE)
    BY <1>2, <1>3, <2>1, PagesHeld DEF Cache!LoadTransfer, Cache!Answer, Cache!held
  <2>3. Cache!LoadMissed(offset)
    BY <1>4, <1>5, <1>8, <2>1, <2>2 DEF Cache!LoadMissed
  <2> QED BY <2>3
<1> QED BY <1>7, <1>8

(* An invalidation forgets one page and leaves the others where they are.  *)
LEMMA DropCached ==
  ASSUME OffsetsApart, OwnerInv, BackInv, PlaceInv, NEW offset \in PgOffs,
         InvalidateBuffered(offset) \/ InvalidateOnDpu(offset)
  PROVE  Cache!Drop(offset)
<1>1. /\ offset \in held
      /\ held' = held \ {offset}
      /\ written' = [written EXCEPT ![offset] = ZeroPage]
      /\ loaded' = NoLoad
      /\ UNCHANGED <<out_buffer, in_buffer, fetched>>
  BY DEF InvalidateBuffered, InvalidateOnDpu, Forget
<1>2. trans_page'.data = trans_page.data
  BY DEF InvalidateBuffered, InvalidateOnDpu, BackInv, TypeOK, Descriptor
<1>3. Pages' = [p \in DOMAIN Pages \ {offset} |-> Pages[p]]
  <2>1. \A p \in held \ {offset} : written'[p] = written[p]
    BY <1>1, HeldTyped DEF BackInv, TypeOK
  <2>2. Pages' = [p \in held \ {offset} |-> written[p]]
    BY <1>1, <2>1 DEF Pages
  <2> QED BY <2>2, PagesHeld
<1>4. ASSUME NEW p \in held \ {offset}
      PROVE  /\ InOutBuffer(p)' <=> InOutBuffer(p)
             /\ LookupHit(ID_FROM_OFFSET(p))' <=> LookupHit(ID_FROM_OFFSET(p))
  <2>1. CASE InvalidateBuffered(offset)
    <3>1. InOutBuffer(offset) /\ out_buffer_bmp' = FALSE /\ hash_table' = hash_table
      BY <2>1 DEF InvalidateBuffered, tableVars
    <3>2. ~InOutBuffer(p)
      BY <1>1, <3>1, OneWaits
    <3>3. ~InOutBuffer(p)'
      BY <3>1 DEF InOutBuffer
    <3> QED BY <3>1, <3>2, <3>3 DEF LookupHit
  <2>2. CASE InvalidateOnDpu(offset)
    <3>1. UNCHANGED <<out_buffer, out_buffer_bmp>>
      BY <2>2 DEF InvalidateOnDpu, Forget
    <3>2. /\ ID_FROM_OFFSET(offset) \in Ids /\ ID_FROM_OFFSET(p) \in Ids
          /\ ID_FROM_OFFSET(p) # ID_FROM_OFFSET(offset)
          /\ TableTypeOK
      BY <1>1, HeldTyped DEF OffsetsApart, DistinctIds, BackInv, TypeOK
    <3>3. InvalidateId(ID_FROM_OFFSET(offset))
      BY <2>2, InvalidateOnDpuPlaces
    <3>4. LookupHit(ID_FROM_OFFSET(p))' <=> LookupHit(ID_FROM_OFFSET(p))
      BY <3>2, <3>3, InvalidateHits DEF OffsetsApart
    <3> QED BY <3>1, <3>4 DEF InOutBuffer
  <2> QED BY <2>1, <2>2
<1>5. Waiting' = Waiting \ {offset} /\ Lost' = Lost \ {offset}
  BY <1>1, <1>4 DEF Waiting, Lost
<1>6. faults' = faults
  BY DEF InvalidateBuffered, InvalidateOnDpu, InvalidateId, tableVars
<1> QED BY <1>1, <1>2, <1>3, <1>5, <1>6, PagesHeld DEF Cache!Drop, Cache!held

LEMMA CacheInit == Init => Cache!Init
<1> SUFFICES ASSUME Init PROVE Cache!Init
  OBVIOUS
<1>1. Pages = [p \in {} |-> ZeroPage] /\ Waiting = {} /\ Lost = {}
  BY DEF Init, Pages, Waiting, Lost
<1>2. /\ faults = {} /\ trans_page.data = ZeroPage
      /\ in_buffer.id = 0 /\ in_buffer.data = ZeroPage
      /\ fetched = FALSE /\ loaded = NoLoad
  BY DEF Init, TableInit
<1> QED BY <1>1, <1>2 DEF Cache!Init

LEMMA CacheStep ==
  ASSUME OffsetsApart, OwnerInv, BackInv, PlaceInv, PlaceInv', CurrentInv, [Next]_vars
  PROVE  [Cache!Next]_Cache!vars
<1>1. CASE UNCHANGED vars
  <2>1. Pages' = Pages /\ Waiting' = Waiting /\ Lost' = Lost
    BY <1>1 DEF vars, swapVars, tableVars, Pages, Waiting, Lost, InOutBuffer, LookupHit
  <2> QED BY <1>1, <2>1 DEF vars, swapVars, tableVars, Cache!vars
<1>2. ASSUME NEW offset \in PgOffs, StoreRejected(offset)
      PROVE  Cache!Next
  BY <1>2, RejectedCached DEF Cache!Next
<1>3. ASSUME NEW offset \in PgOffs, NEW data \in Data,
             StoreBuffered(offset, data) \/ StoreFlushed(offset, data)
      PROVE  Cache!Next
  <2>1. Cache!Store(offset, data)
    BY <1>3, BufferedCached, FlushedCached
  <2>2. Accepted(offset)
    BY <1>3 DEF StoreBuffered, StoreFlushed
  <2> QED BY <2>1, <2>2 DEF Cache!Next
<1>4. ASSUME NEW offset \in PgOffs,
             \/ LoadFromBuffer(offset) \/ LoadFromDpu(offset)
             \/ InvalidateBuffered(offset) \/ InvalidateOnDpu(offset)
      PROVE  Cache!Next
  <2>1. \/ Cache!LoadRecent(offset) \/ Cache!LoadFound(offset)
        \/ Cache!LoadMissed(offset) \/ Cache!Drop(offset)
    BY <1>4, LoadBufferCached, LoadDpuCached, DropCached
  <2>2. Accepted(offset)
    BY <1>4, HeldTyped DEF LoadFromBuffer, LoadFromDpu, InvalidateBuffered, InvalidateOnDpu
  <2> QED BY <2>1, <2>2 DEF Cache!Next
<1> QED BY <1>1, <1>2, <1>3, <1>4 DEF Next

(* The back end implements a cache of pages.  A page that was stored is    *)
(* given back with the content last stored, or nothing is found of it -    *)
(* only because it waits in the out buffer, was lost when a page was sent  *)
(* to the DPU that had its hash slot or no room, or was stored over - or   *)
(* it is the page that was loaded last, which may be out of date.          *)
THEOREM BackEndIsCache == OffsetsApart => (Spec => CacheSpec)
<1> SUFFICES ASSUME OffsetsApart PROVE Spec => Cache!Spec
  BY DEF CacheSpec
<1>1. OwnerInv /\ BackInv /\ PlaceInv /\ PlaceInv' /\ CurrentInv /\ [Next]_vars
        => [Cache!Next]_Cache!vars
  BY CacheStep
<1> QED BY <1>1, CacheInit, PlaceAlways, CurrentAlways, PTL DEF Spec, Cache!Spec
=============================================================================
