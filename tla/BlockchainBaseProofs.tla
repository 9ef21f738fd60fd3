------------------------ MODULE BlockchainBaseProofs ------------------------
(***************************************************************************)
(* Proofs about BlockchainBase, for every block size, batch size, number   *)
(* of workers, connections and transactions: type correctness, and that at *)
(* most one task or stream drives the validation of a chain.               *)
(***************************************************************************)
EXTENDS BlockchainBase, FiniteSetTheorems, SequenceTheorems, TLAPS

-----------------------------------------------------------------------------
(* Operators *)

\* MaxRecsType: the bound on rec_count leaves room for a block.
LEMMA MaxRecsType == MaxRecs \in Nat /\ MaxRecs >= RecCount
<1>1. RecCount * MaxBlocks \in Nat
  BY ConstAssumption
<1>2. MaxRecs = RecCount * MaxBlocks + 2 * RecCount
  BY ConstAssumption DEF MaxRecs
<1> QED
  BY <1>1, <1>2, ConstAssumption

\* GrowType: rec_count stays within its bound.
LEMMA GrowType ==
    ASSUME NEW n \in 0..MaxRecs, NEW k \in 0..RecCount
    PROVE  Grow(n, k) \in 0..MaxRecs
BY MaxRecsType, ConstAssumption DEF Grow

\* UsedSlotsType: get_rec_count() counts at most the slots of a block.
LEMMA UsedSlotsType ==
    ASSUME NEW s
    PROVE  UsedSlots(s) \in 0..RecCount
<1> DEFINE U == {o \in Offsets : s[o] # EMPTY}
<1>1. IsFiniteSet(Offsets) /\ Cardinality(Offsets) = RecCount
  BY FS_Interval, ConstAssumption DEF Offsets
<1>2. U \in SUBSET Offsets
  OBVIOUS
<1>3. IsFiniteSet(U) /\ Cardinality(U) <= RecCount
  BY <1>1, <1>2, FS_Subset
<1>4. Cardinality(U) \in Nat
  BY <1>3, FS_CardinalityType
<1> QED
  BY <1>3, <1>4, ConstAssumption DEF UsedSlots

\* FileCountType: a folder gives at most MaxBlocks tiles.
LEMMA FileCountType ==
    ASSUME NEW d
    PROVE  FileCount(d) \in 0..MaxBlocks
<1> DEFINE U == {b \in Blocks : \E c \in b..MaxBlocks-1 : d[c].file # "none"}
<1>1. IsFiniteSet(Blocks) /\ Cardinality(Blocks) = MaxBlocks
  BY FS_Interval, ConstAssumption DEF Blocks
<1>2. U \in SUBSET Blocks
  OBVIOUS
<1>3. IsFiniteSet(U) /\ Cardinality(U) <= MaxBlocks
  BY <1>1, <1>2, FS_Subset
<1>4. Cardinality(U) \in Nat
  BY <1>3, FS_CardinalityType
<1> QED
  BY <1>3, <1>4, ConstAssumption DEF FileCount

\* ChainSlotType: a record a sibling sends fits into a slot.
LEMMA ChainSlotType ==
    ASSUME NEW n \in 0..MaxSeq, NEW b \in Nat, NEW o \in Nat
    PROVE  ChainSlot(n, b, o) \in -1..MaxSeq
<1>1. b * Payloads \in Nat
  BY ConstAssumption DEF Payloads
<1> QED
  BY <1>1, ConstAssumption DEF ChainSlot, CHECKSUM, EMPTY

\* ChainFileType: block files of a regular chain have their type.
LEMMA ChainFileType ==
    ASSUME NEW n \in 0..MaxSeq, NEW b \in Blocks
    PROVE  ChainFile(n, b) \in BlockFile
<1>1. b \in Nat /\ Offsets \subseteq Nat
  BY ConstAssumption DEF Blocks, Offsets
<1>2. \A o \in Offsets : ChainSlot(n, b, o) \in -1..MaxSeq
  BY <1>1, ChainSlotType
<1> QED
  BY <1>2, ConstAssumption DEF ChainFile, BlockFile, NoFile, Blank, EMPTY

\* IndexWithType: add_index_data() applies each transaction finitely often.
LEMMA IndexWithType ==
    ASSUME index \in [Seqs -> Nat], NEW a \in Nat, NEW b \in Nat
    PROVE  IndexWith(a, b) \in [Seqs -> Nat]
<1> SUFFICES ASSUME NEW s \in Seqs
             PROVE  Cardinality({i \in Readable(a, b) : SlotAt(i) = s}) \in Nat
  BY DEF IndexWith
<1>1. a * RecCount \in Int /\ b * RecCount - 1 \in Int
  BY ConstAssumption
<1>2. IsFiniteSet(a * RecCount .. b * RecCount - 1)
  BY <1>1, FS_Interval
<1>3. {i \in Readable(a, b) : SlotAt(i) = s}
        \in SUBSET (a * RecCount .. b * RecCount - 1)
  BY DEF Readable
<1> QED
  BY <1>2, <1>3, FS_Subset, FS_CardinalityType, ZenonT(40)

-----------------------------------------------------------------------------
(* Storage *)

\* BlockPosType: the position of the next record is a slot of a block.
LEMMA BlockPosType ==
    ASSUME StoreType
    PROVE  /\ BlockPos \in Offsets
           /\ BlockPos # 0 => BlockPos - 1 \in Offsets
           /\ 0 \in Offsets /\ 1 \in Offsets
BY MaxRecsType, ConstAssumption DEF StoreType, BlockPos, Offsets

\* NewSlotsType: the slots of a new block have their type.
LEMMA NewSlotsType ==
    ASSUME NEW p \in -1..MaxSeq
    PROVE  NewSlots(p) \in [Offsets -> -1..MaxSeq]
<1>1. 0 \in Offsets /\ 1 \in Offsets /\ CHECKSUM \in -1..MaxSeq
  BY ConstAssumption DEF Offsets, CHECKSUM
<1>2. Blank \in [Offsets -> -1..MaxSeq]
  BY ConstAssumption DEF Blank, EMPTY
<1> QED
  BY <1>1, <1>2 DEF NewSlots

\* NewBlockType: a new block has its type.
LEMMA NewBlockType ==
    ASSUME NEW b, NEW p \in -1..MaxSeq
    PROVE  NewBlock(b, p) \in BlockFile
BY NewSlotsType DEF NewBlock, BlockFile

\* WriteType: writing one slot of a file keeps the type of the files.
LEMMA WriteType ==
    ASSUME StoreType, NEW b \in Blocks, NEW s \in [Offsets -> -1..MaxSeq]
    PROVE  [disk EXCEPT ![b].slots = s] \in [Blocks -> BlockFile]
<1>1. [disk[b] EXCEPT !.slots = s] \in BlockFile
  BY DEF StoreType, BlockFile
<1> QED
  BY <1>1 DEF StoreType

\* NewTileType: a new block keeps counters and files in their types.
LEMMA NewTileType ==
    ASSUME StoreType, NEW f \in BlockFile, NewTile(f)
    PROVE  StoreType'
<1>1. /\ tiles < MaxBlocks /\ tiles' = tiles + 1
      /\ valid' = IF tiles = valid THEN valid + 1 ELSE valid
  BY DEF NewTile
<1>2. tiles \in Blocks /\ tiles' \in 0..MaxBlocks /\ valid' \in 0..MaxBlocks
  BY <1>1, ConstAssumption DEF StoreType, Blocks
<1>3. rec_count' \in 0..MaxRecs
  BY GrowType, ConstAssumption DEF NewTile, StoreType
<1>4. disk' \in [Blocks -> BlockFile]
  BY <1>2 DEF NewTile, StoreType
<1> QED
  BY <1>2, <1>3, <1>4 DEF StoreType

\* WithTailType: a tail block that was written to has its type.
LEMMA WithTailType ==
    ASSUME StoreType, BlockPos # 0, NEW f \in BlockFile,
           NEW first \in FirstSlots(f), NEW p \in -1..MaxSeq
    PROVE  WithTail(f, first, p) \in BlockFile
<1>1. /\ f.slots \in [Offsets -> -1..MaxSeq]
      /\ f.file \in {"none", "short", "open", "full"}
  BY DEF BlockFile
<1>2. BlockPos \in Offsets /\ BlockPos - 1 \in Offsets /\ 0 \in Offsets
  BY BlockPosType
<1>3. CHECKSUM \in -1..MaxSeq /\ EMPTY \in -1..MaxSeq
  BY ConstAssumption DEF CHECKSUM, EMPTY
<1>4. first \in -1..MaxSeq
  BY <1>1, <1>2, <1>3 DEF FirstSlots
<1>5. [f.slots EXCEPT ![0] = first, ![BlockPos-1] = p, ![BlockPos] = CHECKSUM]
        \in [Offsets -> -1..MaxSeq]
  BY <1>1, <1>2, <1>3, <1>4
<1> QED
  BY <1>1, <1>5 DEF WithTail, BlockFile

\* AppendType: Blockchain::append() keeps counters and files in their types.
LEMMA AppendType ==
    ASSUME StoreType, NEW p \in -1..MaxSeq, ~AppendThrows, Append1(p)
    PROVE  StoreType'
<1>1. CASE BlockPos = 0
  BY <1>1, NewBlockType, NewTileType DEF Append1
<1>2. CASE BlockPos # 0
  <2>1. tiles - 1 \in Blocks
    BY <1>2, ConstAssumption DEF AppendThrows, StoreType, Blocks
  <2>2. CASE disk[tiles-1].file \in {"open", "full"}
    <3>1. /\ UNCHANGED <<tiles, valid>> /\ rec_count' = Grow(rec_count, 1)
          /\ \E first \in FirstSlots(disk[tiles-1]) :
               disk' = [disk EXCEPT ![tiles-1] =
                           WithTail(disk[tiles-1], first, p)]
      BY <1>2, <2>2 DEF Append1
    <3>2. disk[tiles-1] \in BlockFile
      BY <2>1 DEF StoreType
    <3>3. PICK first \in FirstSlots(disk[tiles-1]) :
            disk' = [disk EXCEPT ![tiles-1] = WithTail(disk[tiles-1], first, p)]
      BY <3>1, ZenonT(40)
    <3>4. WithTail(disk[tiles-1], first, p) \in BlockFile
      BY <1>2, <3>2, WithTailType
    <3>5. disk' \in [Blocks -> BlockFile]
      BY <2>1, <3>3, <3>4 DEF StoreType
    <3>6. rec_count' \in 0..MaxRecs
      BY <3>1, GrowType, ConstAssumption DEF StoreType
    <3> QED
      BY <3>1, <3>5, <3>6 DEF StoreType
  <2>3. CASE disk[tiles-1].file \notin {"open", "full"}
    BY <1>2, <2>3 DEF Append1, StoreType
  <2> QED
    BY <2>2, <2>3
<1> QED
  BY <1>1, <1>2

\* ShortType: a file that is too short has its type.
LEMMA ShortType == [file |-> "short", slots |-> Blank] \in BlockFile
BY ConstAssumption DEF BlockFile, Blank, EMPTY

\* TornAppendType: what an unfinished append leaves are block files.
LEMMA TornAppendType ==
    ASSUME StoreType, NEW p \in -1..MaxSeq, ~AppendThrows, TornAppend(p)
    PROVE  disk' \in [Blocks -> BlockFile]
<1>1. CASE BlockPos = 0
  <2>1. tiles \in Blocks
    BY <1>1, ConstAssumption DEF TornAppend, StoreType, Blocks
  <2>2. ASSUME NEW k \in 0..RecCount
        PROVE  Overwritten(tiles, p, k) \in BlockFile
    <3>1. disk[tiles] \in BlockFile /\ NewBlock(tiles, p) \in BlockFile
      BY <2>1, NewBlockType DEF StoreType
    <3>2. [o \in Offsets |-> IF o < k THEN NewBlock(tiles, p).slots[o]
                             ELSE disk[tiles].slots[o]]
            \in [Offsets -> -1..MaxSeq]
      BY <3>1 DEF BlockFile
    <3> QED
      BY <3>1, <3>2 DEF Overwritten, BlockFile
  <2> QED
    BY <1>1, <2>1, <2>2, ShortType DEF TornAppend, StoreType
<1>2. CASE BlockPos # 0
  <2>1. tiles - 1 \in Blocks
    BY <1>2, ConstAssumption DEF AppendThrows, StoreType, Blocks
  <2>2. disk[tiles-1].slots \in [Offsets -> -1..MaxSeq]
    BY <2>1 DEF StoreType, BlockFile
  <2> DEFINE new == [disk[tiles-1].slots EXCEPT ![BlockPos-1] = p]
  <2>3. new \in [Offsets -> -1..MaxSeq]
    BY <1>2, <2>2, BlockPosType
  <2>4. [disk EXCEPT ![tiles-1].slots = new] \in [Blocks -> BlockFile]
    BY <2>1, <2>3, WriteType, ZenonT(40)
  <2> QED
    BY <1>2, <2>4 DEF TornAppend, StoreType
<1> QED
  BY <1>1, <1>2

\* UnwrittenType: an append() whose write fails keeps counters and files in
\* their types.
LEMMA UnwrittenType ==
    ASSUME StoreType, NEW p \in -1..MaxSeq, ~AppendThrows, AppendUnwritten(p)
    PROVE  StoreType'
<1>1. CASE BlockPos = 0
  <2>1. [file |-> "open", slots |-> NewSlots(p)] \in BlockFile
    BY NewSlotsType DEF BlockFile
  <2> QED
    BY <1>1, <2>1, NewTileType DEF AppendUnwritten
<1>2. CASE BlockPos # 0
  <2>1. UNCHANGED storeVars
    BY <1>2 DEF AppendUnwritten
  <2>2. tiles - 1 \in Blocks
    BY <1>2, ConstAssumption DEF AppendThrows, StoreType, Blocks
  <2>3. [disk[tiles-1] EXCEPT !.file = "short"] \in BlockFile
    BY <2>2 DEF StoreType, BlockFile
  <2>4. [disk EXCEPT ![tiles-1].file = "short"] \in [Blocks -> BlockFile]
    BY <2>2, <2>3 DEF StoreType
  <2>5. disk' \in [Blocks -> BlockFile]
    BY <1>2, <2>4, TornAppendType DEF AppendUnwritten, StoreType
  <2> QED
    BY <2>1, <2>5 DEF StoreType, storeVars
<1> QED
  BY <1>1, <1>2

-----------------------------------------------------------------------------
(* Type correctness *)

\* BlankTypes: the values a new or a stopped process starts from.
LEMMA BlankTypes ==
    /\ NoIndex \in [Seqs -> Nat]
    /\ [c \in Conns |-> Idle] \in [Conns -> Stream]
    /\ NoFetch \in Fetch
    /\ << >> \in Seq(0..MaxSeq)
<1>1. NoIndex \in [Seqs -> Nat]
  BY DEF NoIndex
<1>2. Idle \in Stream
  BY DEF Idle, Stream
<1>3. NoFetch \in Fetch
  BY DEF NoFetch, Fetch
<1> QED
  BY <1>1, <1>2, <1>3

\* StopType: the end of the process keeps everything typed.
LEMMA StopType ==
    ASSUME TypeOK, Stop, disk' \in [Blocks -> BlockFile],
           faults' \in 0..MaxFaults, harm' \in SUBSET Harms
    PROVE  TypeOK'
<1>0. up' \in BOOLEAN
  BY Zenon DEF Stop
<1>1. TaskType'
  BY <1>0, ConstAssumption DEF Stop, TaskType, State
<1>2. TopicType'
  BY BlankTypes DEF Stop, TypeOK, TopicType
<1>3. FetchType'
  BY BlankTypes DEF Stop, FetchType
<1>4. StoreType'
  BY MaxRecsType, ConstAssumption DEF Stop, StoreType
<1>5. IndexType'
  BY BlankTypes DEF Stop, IndexType
<1>6. EnvType'
  BY DEF Stop, TypeOK, EnvType
<1> QED
  BY <1>1, <1>2, <1>3, <1>4, <1>5, <1>6 DEF TypeOK

\* LastingType: what harm can become when a process ends.
LEMMA LastingType ==
    ASSUME TypeOK
    PROVE  Lasting \in SUBSET Harms /\ Lasting \cup {"torn"} \in SUBSET Harms
BY DEF TypeOK, EnvType, Lasting, Harms

\* ResetType: reset_validation() keeps what it assigns typed.
LEMMA ResetType ==
    ASSUME TypeOK, NEW left \in Nat, ResetValidation(left)
    PROVE  /\ state' \in State /\ tokens' \in Nat
           /\ tiles' \in 0..MaxBlocks
           /\ indexed' \in Nat /\ index' \in [Seqs -> Nat]
           /\ truncated' \in 0..MaxTruncated
BY BlankTypes, ConstAssumption
   DEF TypeOK, EnvType, ResetValidation, State, Truncation, Smaller

\* InitType: TypeOK holds initially.
LEMMA InitType ==
    ASSUME Init
    PROVE  TypeOK
<1>1. TaskType
  BY ConstAssumption DEF Init, TaskType, State
<1>2. TopicType
  BY BlankTypes, ConstAssumption DEF Init, TopicType
<1>3. FetchType
  BY BlankTypes DEF Init, FetchType
<1>4. disk \in [Blocks -> BlockFile]
  BY ChainFileType, ConstAssumption DEF Init
<1>5. StoreType
  BY <1>4, FileCountType, MaxRecsType, ConstAssumption DEF Init, StoreType
<1>6. IndexType
  BY BlankTypes DEF Init, IndexType
<1>7. EnvType
  BY ConstAssumption DEF Init, EnvType
<1> QED
  BY <1>1, <1>2, <1>3, <1>5, <1>6, <1>7 DEF TypeOK

\* FetchFields: assignments to the fields of fetch.
LEMMA FetchFields ==
    ASSUME NEW f \in Fetch, NEW n \in Nat, NEW k \in Nat, NEW l \in BOOLEAN
    PROVE  /\ [f EXCEPT !.sums = n, !.recs = k, !.last = l] \in Fetch
           /\ [f EXCEPT !.last = l, !.recs = n, !.sums = k] \in Fetch
           /\ [f EXCEPT !.block = n, !.data = k] \in Fetch
           /\ [f EXCEPT !.block = n] \in Fetch
           /\ [f EXCEPT !.data = n] \in Fetch
BY Zenon DEF Fetch

\* FetchFieldTypes: the fields of fetch.
LEMMA FetchFieldTypes ==
    ASSUME NEW f \in Fetch
    PROVE  /\ f.sums \in Nat /\ f.recs \in Nat /\ f.last \in BOOLEAN
           /\ f.block \in Nat /\ f.data \in Nat
BY Zenon DEF Fetch

\* StreamFields: an assignment to the position of a stream.
LEMMA StreamFields ==
    ASSUME NEW s \in Stream, NEW n \in Nat
    PROVE  [s EXCEPT !.pos = n] \in Stream
BY Zenon DEF Stream

\* StreamFieldTypes: the numbers in a stream.
LEMMA StreamFieldTypes ==
    ASSUME NEW s \in Stream
    PROVE  s.arg \in Nat /\ s.pos \in Nat
BY Zenon DEF Stream

\* SizeType: a block size that a sibling reports is a number.
LEMMA SizeType ==
    ASSUME NEW n \in Nat, NEW b \in Nat, InChain(n, b),
           NEW size \in ReportedSizes(n, b)
    PROVE  size \in Nat
<1>1. b * Payloads \in Nat /\ Payloads \in Nat
  BY ConstAssumption DEF Payloads
<1>2. ChainBlockSize(n, b) \in Nat
  BY <1>1 DEF InChain, ChainBlockSize, Smaller
<1> QED
  BY <1>2 DEF ReportedSizes

\* ValidationType: the steps of continue_validation() keep TypeOK.
LEMMA ValidationType ==
    ASSUME TypeOK, Validation
    PROVE  TypeOK'
<1> USE ConstAssumption
<1> USE DEF taskVars, topicVars, fetchVars, storeVars, indexVars, envVars,
            TypeOK, TaskType, TopicType, FetchType, StoreType,
            IndexType, EnvType
<1>1. CASE StartValidating
  BY <1>1, BlankTypes DEF StartValidating, State
<1>2. CASE StartFetching
  <2>1. sib \in Nat /\ FETCHING_CHECKSUMS \in State
    BY DEF State
  <2>a. state' \in State
    BY <1>2, <2>1 DEF StartFetching
  <2>b. tokens' = tokens - 1 /\ tokens > 0
    BY <1>2 DEF StartFetching
  <2>c. tokens' \in Nat
    BY <2>b
  <2>2. [kind |-> "checksums", arg |-> sib, pos |-> 0] \in Stream
    BY <2>1 DEF Stream
  <2>3. streams' \in [Conns -> Stream]
    BY <1>2, <2>2 DEF StartFetching
  <2>4. fetch' \in Fetch
    BY <1>2, FetchFields, ZenonT(40) DEF StartFetching
  <2> QED
    BY <1>2, <2>a, <2>c, <2>3, <2>4, ZenonT(40) DEF StartFetching
<1>3. CASE StartBlank
  BY <1>3 DEF StartBlank, State
<1>4. CASE FinishValidation
  <2>1. CASE IndexAccepts(valid)
    <3>1. index' \in [Seqs -> Nat]
      <4>1. indexed \in Nat /\ valid \in Nat /\ index \in [Seqs -> Nat]
        OBVIOUS
      <4>2. index' = IndexWith(indexed, valid)
        BY <1>4, <2>1 DEF FinishValidation
      <4> QED
        BY ONLY <4>1, <4>2, IndexWithType
    <3> QED
      <4>1. /\ state' \in State /\ tokens' = tokens - 1 /\ tokens > 0
            /\ UNCHANGED <<indexed, tiles, truncated, up, continues, adding,
                           topicVars, turn, fetchVars, valid, rec_count,
                           waiting, disk, envVars>>
        BY <1>4, <2>1 DEF FinishValidation, State
      <4>2. tokens \in Nat
        BY ZenonT(40)
      <4>3. tokens' \in Nat
        BY ONLY <4>1, <4>2
      <4> QED
        BY <3>1, <4>1, <4>3, ZenonT(40)
  <2>2. CASE ~IndexAccepts(valid)
    <3>1. tokens - 1 \in Nat /\ ResetValidation(tokens - 1)
      BY <1>4, <2>2 DEF FinishValidation
    <3> QED
      BY <1>4, <3>1, ResetType DEF FinishValidation
  <2> QED
    BY <2>1, <2>2, ZenonT(40)
<1>5. CASE ValidateBlock
  <2>1. valid' \in 0..MaxBlocks
    BY <1>5 DEF ValidateBlock
  <2>2. rec_count' \in 0..MaxRecs
    BY <1>5, UsedSlotsType, GrowType DEF ValidateBlock
  <2>3. CASE IndexAccepts(valid + 1)
    <3>1. index' \in [Seqs -> Nat]
      <4>1. indexed \in Nat /\ valid + 1 \in Nat /\ index \in [Seqs -> Nat]
        OBVIOUS
      <4>2. index' = IndexWith(indexed, valid + 1)
        BY <1>5, <2>3 DEF ValidateBlock
      <4> QED
        BY ONLY <4>1, <4>2, IndexWithType
    <3> QED
      BY <1>5, <2>1, <2>2, <2>3, <3>1 DEF ValidateBlock, CountIndexed
  <2>4. CASE ~IndexAccepts(valid + 1)
    <3>1. tokens - 1 \in Nat /\ ResetValidation(tokens - 1)
      BY <1>5, <2>4 DEF ValidateBlock
    <3> QED
      BY <1>5, <2>1, <2>2, <3>1, ResetType, ZenonT(40) DEF ValidateBlock
  <2> QED
    BY <2>3, <2>4, ZenonT(40)
<1>6. CASE RejectBlock
  <2>1. tokens - 1 \in Nat /\ ResetValidation(tokens - 1)
    BY <1>6 DEF RejectBlock
  <2>2. NoFile \in BlockFile
    BY DEF NoFile, BlockFile, Blank, EMPTY
  <2>3. disk' \in [Blocks -> BlockFile]
    BY <1>6, <2>2, ZenonT(40) DEF RejectBlock
  <2> QED
    BY <1>6, <2>1, <2>3, ResetType, ZenonT(40) DEF RejectBlock
<1>7. CASE ValidationThrows
  <2>1. disk' = disk \/ disk' = [disk EXCEPT ![valid].file = "short"]
    BY <1>7 DEF ValidationThrows
  <2>2. ASSUME NEW b \in Blocks
        PROVE  [disk[b] EXCEPT !.file = "short"] \in BlockFile
    BY ZenonT(40) DEF BlockFile
  <2>3. [disk EXCEPT ![valid].file = "short"] \in [Blocks -> BlockFile]
    BY <2>2, ZenonT(40)
  <2>4. disk' \in [Blocks -> BlockFile]
    BY <2>1, <2>3, ZenonT(40)
  <2> QED
    BY <1>7, <2>4, LastingType, StopType, ZenonT(40) DEF ValidationThrows
<1> QED
  BY <1>1, <1>2, <1>3, <1>4, <1>5, <1>6, <1>7, ZenonT(40) DEF Validation

\* SentType: a record of a block stream fits into a slot.
LEMMA SentType ==
    ASSUME TypeOK, NEW c \in Conns
    PROVE  SentRecord(c) \in -1..MaxSeq
BY ChainSlotType, ConstAssumption
   DEF SentRecord, TypeOK, FetchType, Stream, EnvType, EMPTY

\* CallbackType: the on_block_ callbacks keep TypeOK.
LEMMA CallbackType ==
    ASSUME TypeOK, NEW c \in Conns, Callback(c)
    PROVE  TypeOK'
<1> USE ConstAssumption
<1> USE DEF taskVars, topicVars, fetchVars, storeVars, indexVars, envVars,
            TypeOK, TaskType, TopicType, FetchType, StoreType,
            IndexType, EnvType
<1>a. ASSUME Advance(c) PROVE streams' \in [Conns -> Stream]
  <2>1. streams[c] \in Stream
    OBVIOUS
  <2>2. streams[c].pos + 1 \in Nat
    BY <2>1, StreamFieldTypes
  <2>3. [streams[c] EXCEPT !.pos = @ + 1] \in Stream
    BY ONLY <2>1, <2>2, StreamFields
  <2> QED
    BY <1>a, <2>3 DEF Advance
<1>b. ASSUME Close(c) PROVE streams' \in [Conns -> Stream]
  BY <1>b DEF Close, Idle, Stream
<1>c. ASSUME NEW b \in Nat, FetchBlock(c, b)
      PROVE  streams' \in [Conns -> Stream]
  <2>1. [kind |-> "block", arg |-> b, pos |-> 0] \in Stream
    BY DEF Stream
  <2> QED
    BY <1>c, <2>1 DEF FetchBlock
<1>1. CASE ChecksumsEnd(c)
  <2>1. fetch' \in Fetch
    BY <1>1, FetchFields, ZenonT(40) DEF ChecksumsEnd
  <2>2. streams' \in [Conns -> Stream]
    BY <1>1, <1>c, ZenonT(40) DEF ChecksumsEnd
  <2> QED
    BY <1>1, <2>1, <2>2, ZenonT(40) DEF ChecksumsEnd, State
<1>2. CASE ChecksumGot(c)
  <2>1. streams' \in [Conns -> Stream]
    BY <1>2, <1>a DEF ChecksumGot
  <2>2. CASE fetch.last
    <3>1. ResetValidation(tokens) /\ UNCHANGED fetch
      BY <1>2, <2>2 DEF ChecksumGot
    <3> QED
      BY <1>2, <2>1, <3>1, ResetType, ZenonT(40) DEF ChecksumGot
  <2>3. CASE ~fetch.last
    <3>1. PICK size \in ReportedSizes(streams[c].arg, streams[c].pos) :
            /\ fetch' = [fetch EXCEPT !.last = (size < RecCount),
                                      !.recs = @ + size, !.sums = @ + 1]
            /\ UNCHANGED <<state, tiles, tokens, indexVars, truncated>>
      BY <1>2, <2>3, ZenonT(40) DEF ChecksumGot
    <3>2. streams[c].arg \in Nat /\ streams[c].pos \in Nat
      BY StreamFieldTypes
    <3>3. size \in Nat
      <4>1. InChain(streams[c].arg, streams[c].pos)
        BY <1>2 DEF ChecksumGot
      <4> QED
        BY ONLY <3>1, <3>2, <4>1, SizeType
    <3>4. fetch' \in Fetch
      <4>1. /\ fetch.recs + size \in Nat /\ fetch.sums + 1 \in Nat
            /\ (size < RecCount) \in BOOLEAN
        BY <3>3, FetchFieldTypes
      <4> QED
        BY <3>1, <4>1, FetchFields, ZenonT(40)
    <3> QED
      BY <1>2, <2>1, <3>1, <3>4, ZenonT(40) DEF ChecksumGot
  <2> QED
    BY <2>2, <2>3, ZenonT(40)
<1>3. CASE RecordGot(c)
  <2>1. streams' \in [Conns -> Stream]
    BY <1>3, <1>a DEF RecordGot
  <2>2. fetch' \in Fetch
    <3>1. fetch.data + 1 \in Nat
      <4>1. fetch \in Fetch
        OBVIOUS
      <4> QED
        BY ONLY <4>1, FetchFieldTypes
    <3> QED
      BY <1>3, <3>1, FetchFields, ZenonT(40) DEF RecordGot
  <2>3. StoreType'
    BY <1>3, SentType, AppendType, ZenonT(40) DEF RecordGot
  <2> QED
    BY <1>3, <2>1, <2>2, <2>3, ZenonT(40) DEF RecordGot
<1>4. CASE BadRecordCount(c)
  <2>1. streams' \in [Conns -> Stream]
    BY <1>4, <1>b, ZenonT(40) DEF BadRecordCount
  <2>2. ResetValidation(tokens)
    BY <1>4, ZenonT(40) DEF BadRecordCount
  <2> QED
    BY <1>4, <2>1, <2>2, ResetType, ZenonT(40) DEF BadRecordCount
<1>5. CASE FetchDone(c)
  <2>1. streams' \in [Conns -> Stream]
    BY <1>5, <1>b DEF FetchDone
  <2> QED
    <3>1. /\ state' \in State /\ tokens' = tokens + 1 /\ indexed' = 0
          /\ index' \in [Seqs -> Nat]
          /\ UNCHANGED <<up, continues, adding, topicVars, turn, fetch,
                         storeVars, waiting, disk, envVars, truncated>>
      BY <1>5, BlankTypes DEF FetchDone, State
    <3>2. tokens \in Nat
      BY ZenonT(40)
    <3>3. tokens' \in Nat
      BY ONLY <3>1, <3>2
    <3>4. indexed' \in Nat
      BY ONLY <3>1
    <3> QED
      BY <2>1, <3>1, <3>3, <3>4, ZenonT(40)
<1>6. CASE FetchNext(c)
  <2>a. fetch.block + 1 \in Nat
    <3>1. fetch \in Fetch
      OBVIOUS
    <3> QED
      BY ONLY <3>1, FetchFieldTypes
  <2>1. fetch' \in Fetch
    BY <1>6, <2>a, FetchFields, ZenonT(40) DEF FetchNext
  <2>2. streams' \in [Conns -> Stream]
    BY <1>6, <2>a, <1>c, ZenonT(40) DEF FetchNext
  <2> QED
    BY <1>6, <2>1, <2>2, ZenonT(40) DEF FetchNext
<1>7. CASE CallbackThrows(c)
  BY <1>7, LastingType, StopType, ZenonT(40) DEF CallbackThrows, Exit
<1> QED
  BY <1>1, <1>2, <1>3, <1>4, <1>5, <1>6, <1>7, ZenonT(40) DEF Callback

\* BatchTypes: what an iteration of the loop knows of its batch.
LEMMA BatchTypes ==
    ASSUME TypeOK, NEW t \in inbound, Batch(t)
    PROVE  t \in Seqs /\ t \in -1..MaxSeq /\ turn > 1
<1>1. t # 0 /\ turn > 1
  BY DEF Batch, IsTop, RESET
<1>2. inbound \in SUBSET (0..MaxSeq)
  BY Zenon DEF TypeOK, TopicType
<1>3. t \in 0..MaxSeq
  BY ONLY <1>2, t \in inbound
<1>4. MaxSeq \in Nat
  BY ONLY ConstAssumption
<1> QED
  BY ONLY <1>1, <1>3, <1>4 DEF Seqs

\* PopType: removing a batch keeps the buffer and the loop counter typed.
LEMMA PopType ==
    ASSUME TypeOK, NEW t, Pop(t), turn > 1
    PROVE  inbound' \in SUBSET (0..MaxSeq) /\ turn' \in 0..BatchSize+1
<1>1. inbound' = inbound \ {t} /\ turn' = turn - 1
  BY DEF Pop
<1>2. inbound \in SUBSET (0..MaxSeq) /\ turn \in 0..BatchSize+1
  BY DEF TypeOK, TopicType, TaskType
<1>3. inbound' \in SUBSET (0..MaxSeq)
  BY <1>1, <1>2, ZenonT(40)
<1>4. turn' \in 0..BatchSize+1
  BY <1>1, <1>2, ConstAssumption
<1> QED
  BY <1>3, <1>4

\* AppliedType: the indexes stay typed when a transaction is applied.
LEMMA AppliedType ==
    ASSUME TypeOK, NEW t \in Seqs, Applied(t)
    PROVE  index' \in [Seqs -> Nat]
BY DEF TypeOK, IndexType, Applied

\* RemoveType: taking one task from the queue leaves a queue of tasks.
LEMMA RemoveType ==
    ASSUME NEW S, NEW q \in Seq(S), NEW i \in 1..Len(q)
    PROVE  SubSeq(q, 1, i - 1) \o SubSeq(q, i + 1, Len(q)) \in Seq(S)
<1>1. Len(q) \in Nat /\ \A j \in 1..Len(q) : q[j] \in S
  OBVIOUS
<1>2. SubSeq(q, 1, i - 1) \in Seq(S)
  <2>1. 1 \in Int /\ i - 1 \in Int /\ \A j \in 1..(i - 1) : q[j] \in S
    BY <1>1
  <2> QED
    BY ONLY <2>1, SubSeqProperties
<1>3. SubSeq(q, i + 1, Len(q)) \in Seq(S)
  <2>1. i + 1 \in Int /\ Len(q) \in Int /\ \A j \in (i + 1)..Len(q) : q[j] \in S
    BY <1>1
  <2> QED
    BY ONLY <2>1, SubSeqProperties
<1> QED
  BY <1>2, <1>3

\* Frames: parts of the state that a step leaves alone keep their types.
LEMMA Frames ==
    ASSUME TypeOK
    PROVE  /\ UNCHANGED fetchVars => FetchType'
           /\ UNCHANGED <<storeVars, disk>> => StoreType'
           /\ UNCHANGED <<indexVars, waiting>> => IndexType'
           /\ UNCHANGED <<envVars, truncated>> => EnvType'
<1>1. FetchType /\ StoreType /\ IndexType /\ EnvType
  BY DEF TypeOK
<1>2. UNCHANGED fetchVars => FetchType'
  BY ONLY <1>1 DEF FetchType, fetchVars
<1>3. UNCHANGED <<storeVars, disk>> => StoreType'
  BY ONLY <1>1 DEF StoreType, storeVars
<1>4. UNCHANGED <<indexVars, waiting>> => IndexType'
  BY ONLY <1>1 DEF IndexType, indexVars
<1>5. UNCHANGED <<envVars, truncated>> => EnvType'
  BY ONLY <1>1 DEF EnvType, envVars
<1> QED
  BY ONLY <1>2, <1>3, <1>4, <1>5

\* TransactionType: the steps that deliver, buffer and append transactions
\* keep TypeOK.
LEMMA TransactionType ==
    ASSUME TypeOK,
           \/ Deliver
           \/ \E i \in 1..Len(pushq) : PushBatch(i)
           \/ ContinueAdding \/ ContinueTask \/ Loop
           \/ \E s \in PairedSeqs : PairedDone(s)
    PROVE  TypeOK'
<1> USE ConstAssumption
<1> USE DEF taskVars, topicVars, fetchVars, storeVars, indexVars, envVars,
            TypeOK, TaskType, TopicType, FetchType, StoreType,
            IndexType, EnvType
<1>1. CASE Deliver
  <2> DEFINE b == IF next \in ResetSeqs THEN RESET ELSE next
  <2>a. b \in 0..MaxSeq
    <3>1. next <= MaxSeq
      BY <1>1 DEF Deliver
    <3>2. next \in 1..MaxSeq+1
      OBVIOUS
    <3> QED
      BY ONLY <3>1, <3>2, ConstAssumption DEF RESET
  <2>b. pushq' = Append(pushq, b)
    BY <1>1 DEF Deliver
  <2> HIDE DEF b
  <2>1. pushq' \in Seq(0..MaxSeq)
    <3>1. pushq \in Seq(0..MaxSeq)
      OBVIOUS
    <3> QED
      BY ONLY <2>a, <2>b, <3>1, AppendProperties
  <2>2. /\ next' = next + 1 /\ next <= MaxSeq
        /\ UNCHANGED <<up, state, taskVars, inbound, turn, fetchVars, storeVars,
                       indexVars, waiting, disk, envVars, truncated>>
    BY <1>1, ZenonT(40) DEF Deliver
  <2>3. TaskType' /\ TopicType'
    <3>1. TaskType /\ TopicType
      BY DEF TypeOK
    <3> QED
      BY ONLY <3>1, <2>1, <2>2, ConstAssumption DEF TaskType, TopicType, taskVars
  <2> HIDE DEF TypeOK, TaskType, TopicType, FetchType, StoreType, IndexType,
               EnvType
  <2>4. FetchType' /\ StoreType' /\ IndexType' /\ EnvType'
    BY ONLY TypeOK, <2>2, Frames
  <2> QED
    BY ONLY <2>3, <2>4 DEF TypeOK
<1>2. ASSUME NEW i \in 1..Len(pushq), PushBatch(i)
      PROVE  TypeOK'
  <2>1. CASE Exit
    BY <2>1, LastingType, StopType, ZenonT(40) DEF Exit
  <2>2. CASE ~Exit
    <3>1. /\ pushq' = SubSeq(pushq, 1, i - 1) \o SubSeq(pushq, i + 1, Len(pushq))
          /\ inbound' = inbound \cup {pushq[i]}
          /\ adding' = adding + 1 /\ CanRun
          /\ UNCHANGED <<up, state, tokens, continues, next, turn, fetchVars,
                         storeVars, indexVars, waiting, disk, envVars,
                         truncated>>
      BY <1>2, <2>2, ZenonT(40) DEF PushBatch
    <3>2. pushq' \in Seq(0..MaxSeq)
      BY <3>1, RemoveType, ZenonT(40)
    <3>3. pushq[i] \in 0..MaxSeq
      <4>1. pushq \in Seq(0..MaxSeq)
        OBVIOUS
      <4> QED
        BY ONLY <4>1, i \in 1..Len(pushq), ElementOfSeq, ZenonT(40)
    <3>4. inbound' \in SUBSET (0..MaxSeq)
      BY <3>1, <3>3, ZenonT(40)
    <3>5. adding' \in 0..Workers
      BY <3>1 DEF CanRun
    <3> QED
      BY <3>1, <3>2, <3>4, <3>5
  <2> QED
    BY <2>1, <2>2, ZenonT(40)
<1>3. CASE ContinueAdding
  BY <1>3 DEF ContinueAdding, Enter
<1>4. CASE ContinueTask
  BY <1>4 DEF ContinueTask, Enter
<1>5. CASE EndLoop
  BY <1>5 DEF EndLoop
<1>6. ASSUME NEW s \in PairedSeqs, PairedDone(s)
      PROVE  TypeOK'
  BY <1>6 DEF PairedDone
<1>7. ASSUME NEW t \in inbound, Iterate(t)
      PROVE  TypeOK'
  <2>1. CASE LoopThrows(t)
    BY <2>1, LastingType, StopType, ZenonT(40) DEF LoopThrows, Exit
  <2>2. CASE ResetTopic(t)
    <3>1. turn > 1 /\ Pop(t)
      BY <2>2, ZenonT(40) DEF ResetTopic, IsTop
    <3>2. /\ tiles' = 0 /\ indexed' = 0 /\ index' = NoIndex /\ Truncation
          /\ UNCHANGED <<up, state, taskVars, pushq, next, fetchVars, valid,
                         rec_count, waiting, disk, envVars>>
      BY <2>2, ZenonT(40) DEF ResetTopic
    <3>3. TaskType /\ TopicType /\ StoreType /\ IndexType /\ EnvType
      BY ZenonT(40) DEF TypeOK
    <3> HIDE DEF TypeOK, TaskType, TopicType, FetchType, StoreType, IndexType,
                 EnvType
    <3>4. inbound' \in SUBSET (0..MaxSeq) /\ turn' \in 0..BatchSize+1
      BY ONLY TypeOK, <3>1, PopType
    <3>5. TaskType' /\ TopicType'
      BY ONLY <3>2, <3>3, <3>4 DEF TaskType, TopicType, taskVars
    <3>6. StoreType'
      BY ONLY <3>2, <3>3, ConstAssumption DEF StoreType
    <3>7. IndexType'
      BY ONLY <3>2, <3>3, BlankTypes DEF IndexType
    <3>8. EnvType'
      BY ONLY <3>2, <3>3, ConstAssumption DEF EnvType, envVars, Truncation, Smaller
    <3>9. FetchType'
      BY ONLY TypeOK, <3>2, Frames
    <3> QED
      BY ONLY <3>5, <3>6, <3>7, <3>8, <3>9 DEF TypeOK
  <2>3. CASE AppendBatch(t)
    <3>1. t \in Seqs /\ t \in -1..MaxSeq /\ turn > 1
      BY <2>3, BatchTypes DEF AppendBatch, Appending, Accepted
    <3>2. StoreType'
      BY <2>3, <3>1, AppendType, ZenonT(40) DEF AppendBatch, Appending
    <3>3. index' \in [Seqs -> Nat]
      BY <2>3, <3>1, AppliedType DEF AppendBatch
    <3>4. inbound' \in SUBSET (0..MaxSeq) /\ turn' \in 0..BatchSize+1
      BY <2>3, <3>1, PopType DEF AppendBatch
    <3>5. UNCHANGED <<up, state, taskVars, pushq, next, fetchVars, indexed,
                      waiting, envVars, truncated>>
      BY <2>3 DEF AppendBatch
    <3>6. TaskType /\ TopicType /\ IndexType
      BY ZenonT(40) DEF TypeOK
    <3>7. TaskType' /\ TopicType'
      BY ONLY <3>4, <3>5, <3>6 DEF TaskType, TopicType, taskVars
    <3>8. IndexType'
      BY ONLY <3>3, <3>5, <3>6 DEF IndexType
    <3> HIDE DEF TypeOK, TaskType, TopicType, FetchType, StoreType, IndexType,
                 EnvType
    <3>9. FetchType' /\ EnvType'
      BY ONLY TypeOK, <3>5, Frames
    <3> QED
      BY ONLY <3>2, <3>7, <3>8, <3>9 DEF TypeOK
  <2>4. CASE Defer(t)
    <3>1. t \in PairedSeqs
      BY <2>4 DEF Defer
    <3>2. waiting' = waiting \cup {t} /\ turn' = 0
      BY <2>4 DEF Defer
    <3>3. waiting' \in SUBSET PairedSeqs /\ turn' \in 0..BatchSize+1
      BY <3>1, <3>2
    <3>4. UNCHANGED <<up, state, taskVars, topicVars, fetchVars, storeVars,
                      indexVars, disk, envVars, truncated>>
      BY <2>4 DEF Defer
    <3>5. TaskType /\ TopicType /\ IndexType
      BY ZenonT(40) DEF TypeOK
    <3>6. TaskType' /\ TopicType'
      BY ONLY <3>3, <3>4, <3>5 DEF TaskType, TopicType, taskVars, topicVars
    <3>7. IndexType'
      BY ONLY <3>3, <3>4, <3>5 DEF IndexType, indexVars
    <3> HIDE DEF TypeOK, TaskType, TopicType, FetchType, StoreType, IndexType,
                 EnvType
    <3>8. FetchType' /\ StoreType' /\ EnvType'
      BY ONLY TypeOK, <3>4, Frames
    <3> QED
      BY ONLY <3>6, <3>7, <3>8 DEF TypeOK
  <2>5. CASE Omit(t)
    <3>1. inbound' \in SUBSET (0..MaxSeq) /\ turn' \in 0..BatchSize+1
      <4>1. turn > 1 /\ Pop(t)
        BY <2>5 DEF Omit, Rejected, Batch, IsTop
      <4> QED
        BY <4>1, PopType
    <3>2. UNCHANGED <<up, state, taskVars, pushq, next, fetchVars, storeVars,
                      indexVars, waiting, disk, envVars, truncated>>
      BY <2>5 DEF Omit
    <3>3. TaskType /\ TopicType
      BY DEF TypeOK
    <3>4. TaskType' /\ TopicType'
      BY ONLY <3>1, <3>2, <3>3 DEF TaskType, TopicType, taskVars
    <3> HIDE DEF TypeOK, TaskType, TopicType, FetchType, StoreType, IndexType,
                 EnvType
    <3>5. FetchType' /\ StoreType' /\ IndexType' /\ EnvType'
      BY ONLY TypeOK, <3>2, Frames
    <3> QED
      BY ONLY <3>4, <3>5 DEF TypeOK
  <2>6. CASE Hole(t)
    <3>1. ResetValidation(tokens) /\ turn' = 0
      BY <2>6 DEF Hole
    <3>2. UNCHANGED <<up, continues, adding, topicVars, fetchVars, valid,
                      rec_count, waiting, disk, envVars>>
      BY <2>6 DEF Hole
    <3>3. TaskType /\ TopicType /\ StoreType /\ IndexType /\ EnvType
      BY DEF TypeOK
    <3>4. tokens \in Nat
      BY ONLY <3>3 DEF TaskType
    <3>5. /\ state' \in State /\ tokens' \in Nat /\ tiles' \in 0..MaxBlocks
          /\ indexed' \in Nat /\ index' \in [Seqs -> Nat]
          /\ truncated' \in 0..MaxTruncated
      BY ONLY TypeOK, <3>1, <3>4, ResetType
    <3>6. TaskType' /\ TopicType'
      BY ONLY <3>1, <3>2, <3>3, <3>5, ConstAssumption
         DEF TaskType, TopicType, topicVars
    <3>7. StoreType'
      BY ONLY <3>2, <3>3, <3>5 DEF StoreType
    <3>8. IndexType' /\ EnvType'
      BY ONLY <3>2, <3>3, <3>5 DEF IndexType, EnvType, envVars
    <3> HIDE DEF TypeOK, TaskType, TopicType, FetchType, StoreType, IndexType,
                 EnvType
    <3>9. FetchType'
      BY ONLY TypeOK, <3>2, Frames
    <3> QED
      BY ONLY <3>6, <3>7, <3>8, <3>9 DEF TypeOK
  <2> QED
    BY <1>7, <2>1, <2>2, <2>3, <2>4, <2>5, <2>6, ZenonT(40) DEF Iterate
<1> QED
  BY <1>1, <1>2, <1>3, <1>4, <1>5, <1>6, <1>7, ZenonT(40) DEF Loop

\* FailureType: crashes, failed writes and lost streams keep TypeOK.
LEMMA FailureType ==
    ASSUME TypeOK, Failure
    PROVE  TypeOK'
<1> USE ConstAssumption
<1> USE DEF taskVars, topicVars, fetchVars, storeVars, indexVars, envVars,
            TypeOK, TaskType, TopicType, FetchType, StoreType,
            IndexType, EnvType
<1>a. ASSUME Fault PROVE faults' \in 0..MaxFaults
  BY <1>a DEF Fault
<1>1. CASE Crash
  BY <1>1, <1>a, LastingType, StopType, ZenonT(40) DEF Crash
<1>2. ASSUME NEW t \in inbound, CrashInAppend(t)
      PROVE  TypeOK'
  <2>1. t \in -1..MaxSeq /\ ~AppendThrows
    BY <1>2, BatchTypes, ZenonT(40) DEF CrashInAppend, Appending, Accepted
  <2>2. disk' \in [Blocks -> BlockFile]
    BY <1>2, <2>1, TornAppendType DEF CrashInAppend
  <2> QED
    BY <1>2, <2>2, <1>a, LastingType, StopType, ZenonT(40) DEF CrashInAppend
<1>3. ASSUME NEW t \in inbound, AppendFails(t)
      PROVE  TypeOK'
  <2>1. t \in Seqs /\ t \in -1..MaxSeq /\ turn > 1 /\ ~AppendThrows
    BY <1>3, BatchTypes DEF AppendFails, Appending, Accepted
  <2>2. StoreType'
    BY <1>3, <2>1, UnwrittenType DEF AppendFails
  <2>3. index' \in [Seqs -> Nat]
    BY <1>3, <2>1, AppliedType DEF AppendFails
  <2>4. inbound' \in SUBSET (0..MaxSeq) /\ turn' \in 0..BatchSize+1
    BY <1>3, <2>1, PopType DEF AppendFails
  <2>5. faults' \in 0..MaxFaults /\ harm' \in SUBSET Harms
    BY <1>3, <1>a DEF AppendFails, Harms
  <2>6. UNCHANGED <<up, state, taskVars, pushq, next, fetchVars, indexed,
                    waiting, sib, truncated>>
    BY <1>3 DEF AppendFails
  <2> HIDE DEF StoreType
  <2> QED
    BY <2>2, <2>3, <2>4, <2>5, <2>6
<1>4. ASSUME NEW c \in Conns, LoseStream(c)
      PROVE  TypeOK'
  <2>1. streams' \in [Conns -> Stream]
    BY <1>4 DEF LoseStream, Close, Idle, Stream
  <2>2. faults' \in 0..MaxFaults /\ harm' \in SUBSET Harms
    BY <1>4, <1>a DEF LoseStream, Harms
  <2> QED
    BY <1>4, <2>1, <2>2, ZenonT(40) DEF LoseStream
<1>5. ASSUME NEW c \in Conns, CrashInFetch(c)
      PROVE  TypeOK'
  <2>1. disk' \in [Blocks -> BlockFile]
    BY <1>5, SentType, TornAppendType, ZenonT(40) DEF CrashInFetch, Storing
  <2> QED
    BY <1>5, <2>1, <1>a, LastingType, StopType, ZenonT(40) DEF CrashInFetch
<1>6. ASSUME NEW c \in Conns, FetchFails(c)
      PROVE  TypeOK'
  <2>1. streams' \in [Conns -> Stream]
    <3>1. streams[c] \in Stream
      OBVIOUS
    <3>2. streams[c].pos + 1 \in Nat
      BY <3>1, StreamFieldTypes
    <3>3. [streams[c] EXCEPT !.pos = @ + 1] \in Stream
      BY ONLY <3>1, <3>2, StreamFields
    <3> QED
      BY <1>6, <3>3 DEF FetchFails, Advance
  <2>2. fetch' \in Fetch
    <3>1. fetch.data + 1 \in Nat
      <4>1. fetch \in Fetch
        OBVIOUS
      <4> QED
        BY ONLY <4>1, FetchFieldTypes
    <3> QED
      BY <1>6, <3>1, FetchFields, ZenonT(40) DEF FetchFails
  <2>3. StoreType'
    BY <1>6, SentType, UnwrittenType, ZenonT(40) DEF FetchFails, Storing
  <2>4. faults' \in 0..MaxFaults /\ harm' \in SUBSET Harms
    BY <1>6, <1>a DEF FetchFails, Harms
  <2>5. UNCHANGED <<up, state, taskVars, topicVars, turn, indexVars, waiting,
                    sib, truncated>>
    BY <1>6 DEF FetchFails
  <2> HIDE DEF StoreType
  <2> QED
    BY <2>1, <2>2, <2>3, <2>4, <2>5, ZenonT(40)
<1> QED
  BY <1>1, <1>2, <1>3, <1>4, <1>5, <1>6, ZenonT(40) DEF Failure

\* NextType: every step keeps TypeOK.
LEMMA NextType ==
    ASSUME TypeOK, [Next]_vars
    PROVE  TypeOK'
<1> USE DEF taskVars, topicVars, fetchVars, storeVars, indexVars, envVars,
            TypeOK, TaskType, TopicType, FetchType, StoreType,
            IndexType, EnvType
<1>1. CASE SiblingAppends
  BY <1>1, ConstAssumption, ZenonT(40) DEF SiblingAppends
<1>2. CASE Restart
  <2>1. disk' \in [Blocks -> BlockFile]
    BY <1>2, ShortType DEF Restart
  <2>2. tiles' \in 0..MaxBlocks
    BY <1>2, FileCountType DEF Restart
  <2>3. up' \in BOOLEAN
    BY <1>2, Zenon DEF Restart
  <2> QED
    BY <1>2, <2>1, <2>2, <2>3, ConstAssumption DEF Restart
<1>3. CASE UNCHANGED vars
  BY <1>3 DEF vars
<1> QED
  BY <1>1, <1>2, <1>3, ValidationType, CallbackType, TransactionType,
     FailureType, ZenonT(40) DEF Next

\* TypeCorrect: TypeOK is an invariant of every node, whatever its block
\* size, its batch size, its number of workers and the length of its topic.
THEOREM TypeCorrect == Spec => []TypeOK
<1>1. Init => TypeOK
  BY InitType
<1>2. TypeOK /\ [Next]_vars => TypeOK'
  BY NextType
<1> QED
  BY <1>1, <1>2, PTL DEF Spec

=============================================================================
