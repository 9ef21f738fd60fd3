--------------------------- MODULE BlockchainBase ---------------------------
(***************************************************************************)
(* The life of one blockchain of a node (a group blockchain or the group   *)
(* register): BlockchainBaseDeprecated with the storage counters it        *)
(* drives, the ordering topic, the sibling it fetches blocks from, and     *)
(* process termination and restart.                                        *)
(*                                                                         *)
(* Every handler holds main_lock from its first to its last line, so each  *)
(* is one action; the loop of continue_with_transactions, which appends to *)
(* disk once per iteration, takes one step per iteration and the lock is   *)
(* held (turn > 0) in between.  A transaction is one record here and is    *)
(* known by its sequence number.                                           *)
(***************************************************************************)
EXTENDS Integers, Sequences, FiniteSets

CONSTANTS
    RecCount,           \* records in a block (GRADIDO_BLOCK_SIZE)
    BatchSize,          \* blockchain_append_batch_size
    Workers,            \* threads of the worker pool
    TopicResetAllowed,  \* is_topic_reset_allowed()
    HasSibling,         \* sibling_nodes is not empty
    SiblingTrusted,     \* the sibling reports true block sizes
    Conns,              \* connections a block or checksum stream can use
    MaxSeq,             \* messages of the ordering topic
    ResetSeqs,          \* topic positions that hold a reset message
    TopicFrom,          \* positions a new subscription may start at
    Paced,              \* the topic waits until a transaction is settled
    PairedSeqs,         \* transactions that may have to wait for a paired one
    IndexRejects,       \* records add_index_data() refuses
    StartLens, SibLens, \* chain lengths at the start, here and at the sibling
    MaxBlocks,          \* bound: block files
    MaxFaults,          \* bound: crashes, write errors and lost streams
    WriteErrors,        \* writes may fail
    MaxTruncated        \* bound: where the history counter saturates

ASSUME ConstAssumption ==
    /\ RecCount \in Nat /\ RecCount >= 2
    /\ BatchSize \in Nat \ {0} /\ Workers \in Nat \ {0}
    /\ MaxSeq \in Nat /\ MaxBlocks \in Nat \ {0}
    /\ MaxFaults \in Nat /\ MaxTruncated \in Nat \ {0}
    /\ {TopicResetAllowed, HasSibling, SiblingTrusted, Paced, WriteErrors}
         \subseteq BOOLEAN
    /\ TopicFrom \subseteq 1..MaxSeq+1 /\ TopicFrom # {}
    /\ ResetSeqs \subseteq 1..MaxSeq /\ PairedSeqs \subseteq 1..MaxSeq
    /\ IndexRejects \subseteq 1..MaxSeq
    /\ StartLens \subseteq 0..MaxSeq /\ SibLens \subseteq 0..MaxSeq

VARIABLES
    up,          \* the process runs
    state,       \* State
    tokens,      \* ContinueValidationTasks, queued or delayed
    continues,   \* queued ContinueTransactionsTasks
    adding,      \* workers between the two halves of add_transaction()
    pushq,       \* queued PushTransactionsTasks
    inbound,     \* priority queue of batches
    turn,        \* 0: lock free; n + 1: n iterations of the loop are left
    streams,     \* what each connection still has to deliver
    fetch,       \* fetched_* and block_to_fetch
    tiles,       \* tiles.get_tile_count()
    valid,       \* checksum_valid_block_count
    rec_count,
    indexed,     \* indexed_blocks
    index,       \* how often each transaction is applied to the indexes
    waiting,     \* transactions whose paired transaction is requested
    disk,        \* block files
    next,        \* next topic message to be delivered
    sib,         \* length of the sibling's chain
    faults,
    truncated,   \* history: truncations of a chain, saturating
    harm         \* history: failures of which the code keeps no record

taskVars  == <<tokens, continues, adding>>
topicVars == <<pushq, inbound, next>>
fetchVars == <<streams, fetch>>
storeVars == <<tiles, valid, rec_count>>
indexVars == <<indexed, index>>
envVars   == <<sib, faults, harm>>
vars == <<up, state, taskVars, topicVars, turn, fetchVars, storeVars,
          indexVars, waiting, disk, envVars, truncated>>

INITIAL == "INITIAL"
FETCHING_CHECKSUMS == "FETCHING_CHECKSUMS"
FETCHING_BLOCKS == "FETCHING_BLOCKS"
VALIDATING == "VALIDATING"
READY == "READY"
State == {INITIAL, FETCHING_CHECKSUMS, FETCHING_BLOCKS, VALIDATING, READY}

\* RecordType: a slot holds nothing, a checksum or a payload (its number).
EMPTY == 0
CHECKSUM == -1
RESET == 0          \* a batch with reset_blockchain set and no buffer

Offsets == 0..RecCount-1
Blocks == 0..MaxBlocks-1
Payloads == RecCount - 1     \* of a full block
Seqs == 1..MaxSeq
NoIndex == [s \in Seqs |-> 0]

Smaller(a, b) == IF a < b THEN a ELSE b
MaxOf(S) == CHOOSE x \in S : \A y \in S : y <= x

-----------------------------------------------------------------------------
(* Block files *)

\* A block file and the slots a reader sees.  "short": a length open_file()
\* refuses.  "open": the first write of the block failed, the handle is still
\* open and the slots are those in memory.
BlockFile == [file  : {"none", "short", "open", "full"},
              slots : [Offsets -> -1..MaxSeq]]
Blank  == [o \in Offsets |-> EMPTY]
NoFile == [file |-> "none", slots |-> Blank]

InChain(n, b) == b * Payloads < n
\* Slot o of block b of a chain that holds transactions 1 to n.
ChainSlot(n, b, o) ==
    IF o < Payloads /\ b * Payloads + o < n THEN b * Payloads + o + 1
    ELSE IF InChain(n, b) /\ o = Smaller(Payloads, n - b * Payloads) THEN CHECKSUM
    ELSE EMPTY
ChainBlockSize(n, b) == Smaller(Payloads, n - b * Payloads) + 1
ChainFile(n, b) ==
    IF InChain(n, b)
    THEN [file |-> "full", slots |-> [o \in Offsets |-> ChainSlot(n, b, o)]]
    ELSE NoFile

\* get_file_count(): one more than the largest block number in the folder.
FileCount(d) ==
    Cardinality({b \in Blocks : \E c \in b..MaxBlocks-1 : d[c].file # "none"})

\* validate_block(): payloads, one checksum, then only empty slots.  A block
\* that is not full passes wherever it stands, and no checksum is compared.
ValidBlock(s) ==
    \E c \in Offsets \ {0} :
        /\ s[c] = CHECKSUM
        /\ \A o \in 0..c-1 : s[o] > 0
        /\ \A o \in c+1..RecCount-1 : s[o] = EMPTY
MutUsedSlots(s) == Cardinality({o \in Offsets : s[o] > 0})
UsedSlots(s) == Cardinality({o \in Offsets : s[o] # EMPTY})

\* rec_count has no bound in the code: a chain that is truncated again and
\* again keeps counting.  Beyond this bound of the model it loses one block;
\* its offset in the block and that it points past the tile list are kept.
MaxRecs == RecCount * (MaxBlocks + 2)
Grow(n, k) == IF n + k > MaxRecs THEN n + k - RecCount ELSE n + k

\* Blockchain::append().
MutBlockPos == IF rec_count = 0 THEN 0 ELSE (rec_count - 1) % RecCount
BlockPos == rec_count % RecCount
AppendThrows == BlockPos # 0 /\ tiles = 0
NewSlots(p) == [Blank EXCEPT ![0] = p, ![1] = CHECKSUM]
NewBlock(b, p) ==
    [file |-> IF disk[b].file = "short" THEN "short" ELSE "full",
     slots |-> NewSlots(p)]
NewTile(f) ==
    /\ tiles < MaxBlocks
    /\ disk' = [disk EXCEPT ![tiles] = f]
    /\ valid' = IF tiles = valid THEN valid + 1 ELSE valid
    /\ tiles' = tiles + 1
    /\ rec_count' = Grow(rec_count, 2)

\* write() to the tail block, and the next read of the whole file: a block
\* whose first write failed has lost its first record, unless that much of
\* it was written.
FirstSlots(f) ==
    {f.slots[0]} \cup (IF f.file = "open" /\ BlockPos = 2 THEN {EMPTY} ELSE {})
WithTail(f, first, p) ==
    [file |-> IF BlockPos = RecCount - 1 THEN "full" ELSE f.file,
     slots |-> [f.slots EXCEPT ![0] = first, ![BlockPos-1] = p,
                               ![BlockPos] = CHECKSUM]]
Append1(p) ==
    IF BlockPos = 0
    THEN NewTile(NewBlock(tiles, p))
    ELSE /\ UNCHANGED <<tiles, valid>>
         /\ IF disk[tiles-1].file \in {"open", "full"}
            THEN /\ \E first \in FirstSlots(disk[tiles-1]) :
                      disk' = [disk EXCEPT ![tiles-1] = WithTail(@, first, p)]
                 /\ rec_count' = Grow(rec_count, 1)
            ELSE UNCHANGED <<disk, rec_count>>

\* What append() can leave on disk when it does not finish: a new file that
\* is too short, an old one overwritten in part, a record whose checksum is
\* not written yet.
Overwritten(b, p, k) ==
    [disk[b] EXCEPT !.slots =
        [o \in Offsets |-> IF o < k THEN NewBlock(b, p).slots[o] ELSE @[o]]]
TornAppend(p) ==
    IF BlockPos = 0
    THEN /\ tiles < MaxBlocks
         /\ IF disk[tiles].file = "full"
            THEN \E k \in 0..RecCount :
                   disk' = [disk EXCEPT ![tiles] = Overwritten(tiles, p, k)]
            ELSE disk' = [disk EXCEPT ![tiles] = [file |-> "short", slots |-> Blank]]
    ELSE IF disk[tiles-1].file = "full"
         THEN disk' = [disk EXCEPT ![tiles-1].slots = [@ EXCEPT ![BlockPos-1] = p]]
         ELSE UNCHANGED disk

\* append() when a write fails.  A new block is counted all the same, and its
\* handle stays open; a failed write to the tail block counts nothing and
\* closes the file.
AppendUnwritten(p) ==
    IF BlockPos = 0
    THEN /\ disk[tiles].file = "none"
         /\ NewTile([file |-> "open", slots |-> NewSlots(p)])
    ELSE /\ UNCHANGED storeVars
         /\ \/ disk[tiles-1].file # "open" /\ (UNCHANGED disk \/ TornAppend(p))
            \/ /\ disk[tiles-1].file = "open"
               /\ disk' = [disk EXCEPT ![tiles-1].file = "short"]

SlotAt(i) == disk[i \div RecCount].slots[i % RecCount]
BeforeChecksum(i) ==
    \A j \in (i - (i % RecCount))..i : SlotAt(j) # CHECKSUM
\* The slots of blocks a to b - 1 that add_index_data() reads, and how often
\* each transaction is applied then.
Readable(a, b) == {i \in a * RecCount .. b * RecCount - 1 : BeforeChecksum(i)}
IndexWith(a, b) ==
    [s \in Seqs |-> index[s] + Cardinality({i \in Readable(a, b) : SlotAt(i) = s})]

\* get_latest_transaction_id(): the last payload before the last checksum.
LatestThrows == rec_count >= 2 /\ (rec_count - 2) \div RecCount >= tiles
PayloadIndexes == {i \in 0..Smaller(rec_count - 2, tiles * RecCount - 1) :
                      SlotAt(i) > 0}
HasLatest == PayloadIndexes # {}
Latest == SlotAt(MaxOf(PayloadIndexes))

-----------------------------------------------------------------------------
(* Process start and end *)

Idle == [kind |-> "none", arg |-> 0, pos |-> 0]
NoFetch == [sums |-> 0, recs |-> 0, last |-> FALSE, block |-> 0, data |-> 0]

Init ==
    /\ \E n \in StartLens : disk = [b \in Blocks |-> ChainFile(n, b)]
    /\ sib \in SibLens
    /\ next \in TopicFrom
    /\ up = TRUE /\ state = INITIAL
    /\ tokens = 1 /\ continues = 0 /\ adding = 0
    /\ pushq = <<>> /\ inbound = {} /\ turn = 0
    /\ streams = [c \in Conns |-> Idle] /\ fetch = NoFetch
    /\ tiles = FileCount(disk) /\ valid = 0 /\ rec_count = 0
    /\ indexed = 0 /\ index = NoIndex
    /\ waiting = {}
    /\ faults = 0 /\ truncated = 0 /\ harm = {}

\* The process is gone: an exception that leaves a task ends in
\* gf->exit(1), which raises SIGTERM.
Stop ==
    /\ up' = FALSE /\ state' = INITIAL
    /\ tokens' = 0 /\ continues' = 0 /\ adding' = 0
    /\ pushq' = <<>> /\ inbound' = {} /\ turn' = 0
    /\ streams' = [c \in Conns |-> Idle] /\ fetch' = NoFetch
    /\ tiles' = 0 /\ valid' = 0 /\ rec_count' = 0
    /\ indexed' = 0 /\ index' = NoIndex
    /\ waiting' = {}
    /\ UNCHANGED <<next, sib, truncated>>
\* What harm records: a stream that broke, a process that ended inside
\* append(), a failed write to the tail block, any other failed write.  What a
\* lost stream left undone is done again by the next process.
Harms == {"stream", "torn", "tail", "write"}
Lasting == harm \ {"stream"}
Exit == Stop /\ harm' = Lasting /\ UNCHANGED <<disk, faults>>

Fault == up /\ faults < MaxFaults /\ faults' = faults + 1
Crash == Fault /\ Stop /\ harm' = Lasting /\ UNCHANGED disk

\* A new process: init() subscribes to the topic, one ContinueValidationTask
\* is pushed, and a tile is made for each block number in the folder.
Restart ==
    /\ ~up /\ up' = TRUE
    /\ tokens' = 1
    /\ next' \in TopicFrom
    /\ disk' = [b \in Blocks |->
                  IF disk[b].file \in {"none", "full"} THEN disk[b]
                  ELSE [file |-> "short", slots |-> Blank]]
    /\ tiles' = FileCount(disk)
    /\ UNCHANGED <<state, continues, adding, pushq, inbound, turn, fetchVars,
                   valid, rec_count, indexVars, waiting, envVars, truncated>>

-----------------------------------------------------------------------------
(* Validation *)

\* A worker is free to run a task that takes main_lock.
CanRun == up /\ turn = 0 /\ adding < Workers

Truncation == truncated' = Smaller(truncated + 1, MaxTruncated)

MutResetValidation(left) ==
    /\ state' = INITIAL
    /\ tiles' = 0
    /\ indexed' = 0 /\ index' = NoIndex
    /\ tokens' = left + 2
    /\ Truncation
\* reset_validation(): rec_count and checksum_valid_block_count stay.
ResetValidation(left) ==
    /\ state' = INITIAL
    /\ tiles' = 0
    /\ indexed' = 0 /\ index' = NoIndex
    /\ tokens' = left + 1
    /\ Truncation

\* continue_validation() in INITIAL.
StartValidating ==
    /\ CanRun /\ tokens > 0 /\ state = INITIAL /\ tiles > 0
    /\ state' = VALIDATING
    /\ indexed' = 0 /\ index' = NoIndex
    /\ UNCHANGED <<up, taskVars, topicVars, turn, fetchVars, storeVars,
                   waiting, disk, envVars, truncated>>

StartFetching ==
    /\ CanRun /\ tokens > 0 /\ state = INITIAL /\ tiles = 0 /\ HasSibling
    /\ state' = FETCHING_CHECKSUMS
    /\ tokens' = tokens - 1
    /\ fetch' = [fetch EXCEPT !.sums = 0, !.recs = 0, !.last = FALSE]
    /\ \E c \in Conns :
         /\ streams[c] = Idle
         /\ streams' = [streams EXCEPT ![c] =
                           [kind |-> "checksums", arg |-> sib, pos |-> 0]]
    /\ UNCHANGED <<up, continues, adding, topicVars, turn, storeVars,
                   indexVars, waiting, disk, envVars, truncated>>

StartBlank ==
    /\ CanRun /\ tokens > 0 /\ state = INITIAL /\ tiles = 0 /\ ~HasSibling
    /\ state' = READY
    /\ tokens' = tokens - 1
    /\ continues' = continues + 1
    /\ UNCHANGED <<up, adding, topicVars, turn, fetchVars, storeVars,
                   indexVars, waiting, disk, envVars, truncated>>

\* add_index_data() for blocks indexed to v - 1.
IndexAccepts(v) ==
    \A i \in Readable(indexed, v) : SlotAt(i) \notin IndexRejects

\* validate_next_batch(): all blocks are valid.
FinishValidation ==
    /\ CanRun /\ tokens > 0 /\ state = VALIDATING /\ valid = tiles
    /\ IF IndexAccepts(valid)
       THEN /\ state' = READY
            /\ index' = IndexWith(indexed, valid)
            /\ tokens' = tokens - 1
            /\ UNCHANGED <<indexed, tiles, truncated>>
       ELSE ResetValidation(tokens - 1)
    /\ UNCHANGED <<up, continues, adding, topicVars, turn, fetchVars,
                   valid, rec_count, waiting, disk, envVars>>

MutCountIndexed == indexed
CountIndexed == indexed + 1

\* validate_next_batch(): the next block is good.
ValidateBlock ==
    /\ CanRun /\ tokens > 0 /\ state = VALIDATING /\ valid < tiles
    /\ disk[valid].file = "full" /\ ValidBlock(disk[valid].slots)
    /\ valid' = valid + 1
    /\ rec_count' = Grow(rec_count, UsedSlots(disk[valid].slots))
    /\ IF IndexAccepts(valid + 1)
       THEN /\ index' = IndexWith(indexed, valid + 1)
            /\ indexed' = CountIndexed
            /\ UNCHANGED <<state, tiles, tokens, truncated>>
       ELSE ResetValidation(tokens - 1)
    /\ UNCHANGED <<up, continues, adding, topicVars, turn, fetchVars,
                   waiting, disk, envVars>>

\* validate_next_batch(): the next block is bad and moves to a .bad file, or
\* there is no next block.
RejectBlock ==
    /\ CanRun /\ tokens > 0 /\ state = VALIDATING /\ valid # tiles
    /\ valid < tiles => /\ disk[valid].file = "full"
                        /\ ~ValidBlock(disk[valid].slots)
    /\ disk' = IF valid < tiles THEN [disk EXCEPT ![valid] = NoFile] ELSE disk
    /\ ResetValidation(tokens - 1)
    /\ UNCHANGED <<up, continues, adding, topicVars, turn, fetchVars,
                   valid, rec_count, waiting, envVars>>

\* continue_validation() in a state that does not expect it; or
\* validate_next_checksum() on a file it cannot read: open_file() creates a
\* missing file empty, then reading it, or opening a short one, fails.
ValidationThrows ==
    /\ CanRun /\ tokens > 0
    /\ \/ state \in {FETCHING_CHECKSUMS, FETCHING_BLOCKS, READY}
       \/ state = VALIDATING /\ valid < tiles /\ disk[valid].file # "full"
    /\ disk' = IF state = VALIDATING
               THEN [disk EXCEPT ![valid].file = "short"] ELSE disk
    /\ Stop
    /\ harm' = Lasting /\ UNCHANGED faults

-----------------------------------------------------------------------------
(* Fetching from the sibling *)

\* A stream is served by the sibling's providers: checksum sizes from the
\* chain as it was when the stream was opened, records as they are when each
\* one is read.  Its last message has success = false.
Delivering(c, kind) == up /\ turn = 0 /\ streams[c].kind = kind
Advance(c) == streams' = [streams EXCEPT ![c].pos = @ + 1]
Close(c) == streams' = [streams EXCEPT ![c] = Idle]
FetchBlock(c, b) ==
    streams' = [streams EXCEPT ![c] = [kind |-> "block", arg |-> b, pos |-> 0]]

SiblingAppends ==
    /\ HasSibling /\ sib < MaxSeq /\ sib + 1 \in SibLens
    /\ sib' = sib + 1
    /\ UNCHANGED <<up, state, taskVars, topicVars, turn, fetchVars, storeVars,
                   indexVars, waiting, disk, faults, harm, truncated>>

\* A connection that breaks gives the poll service ok = false: no callback.
LoseStream(c) ==
    /\ Fault /\ streams[c] # Idle
    /\ Close(c)
    /\ harm' = harm \cup {"stream"}
    /\ UNCHANGED <<up, state, taskVars, topicVars, turn, fetch, storeVars,
                   indexVars, waiting, disk, sib, truncated>>

\* on_block_checksum().
ChecksumsEnd(c) ==
    /\ Delivering(c, "checksums") /\ state = FETCHING_CHECKSUMS
    /\ ~InChain(streams[c].arg, streams[c].pos)
    /\ state' = FETCHING_BLOCKS
    /\ fetch' = [fetch EXCEPT !.block = 0, !.data = 0]
    /\ FetchBlock(c, 0)
    /\ UNCHANGED <<up, taskVars, topicVars, turn, storeVars, indexVars,
                   waiting, disk, envVars, truncated>>

ReportedSizes(n, b) ==
    IF SiblingTrusted THEN {ChainBlockSize(n, b)} ELSE 1..ChainBlockSize(n, b)

ChecksumGot(c) ==
    /\ Delivering(c, "checksums") /\ state = FETCHING_CHECKSUMS
    /\ InChain(streams[c].arg, streams[c].pos)
    /\ \E size \in ReportedSizes(streams[c].arg, streams[c].pos) :
         IF fetch.last
         THEN ResetValidation(tokens) /\ UNCHANGED fetch
         ELSE /\ fetch' = [fetch EXCEPT !.last = (size < RecCount),
                                        !.recs = @ + size,
                                        !.sums = @ + 1]
              /\ UNCHANGED <<state, tiles, tokens, indexVars, truncated>>
    /\ Advance(c)
    /\ UNCHANGED <<up, continues, adding, topicVars, turn, valid, rec_count,
                   waiting, disk, envVars>>

\* on_block_record().
SentRecord(c) ==
    IF streams[c].pos = RecCount THEN EMPTY
    ELSE ChainSlot(sib, streams[c].arg, streams[c].pos)

\* Checksums are not stored: neither the last record of a block nor the last
\* record of all that are expected.
IsPayload == /\ fetch.data % RecCount < RecCount - 1
             /\ fetch.data + 1 < fetch.recs

RecordGot(c) ==
    /\ Delivering(c, "block") /\ state = FETCHING_BLOCKS
    /\ SentRecord(c) # EMPTY
    /\ IF IsPayload
       THEN ~AppendThrows /\ Append1(SentRecord(c))
       ELSE UNCHANGED <<storeVars, disk>>
    /\ fetch' = [fetch EXCEPT !.data = @ + 1]
    /\ Advance(c)
    /\ UNCHANGED <<up, state, taskVars, topicVars, turn, indexVars, waiting,
                   envVars, truncated>>

\* A callback in the wrong state throws, and so does an append that the tile
\* list does not allow.
CallbackThrows(c) ==
    /\ \/ Delivering(c, "checksums") /\ state # FETCHING_CHECKSUMS
       \/ Delivering(c, "block") /\ state # FETCHING_BLOCKS
       \/ /\ Delivering(c, "block") /\ state = FETCHING_BLOCKS
          /\ SentRecord(c) # EMPTY /\ IsPayload /\ AppendThrows
    /\ Exit

Storing(c) ==
    /\ Delivering(c, "block") /\ state = FETCHING_BLOCKS
    /\ SentRecord(c) # EMPTY /\ IsPayload /\ ~AppendThrows
CrashInFetch(c) ==
    /\ Storing(c) /\ Fault
    /\ TornAppend(SentRecord(c))
    /\ Stop
    /\ harm' = Lasting \cup {"torn"}

\* "TODO: check exit code": a record that was not written counts as fetched.
FetchFails(c) ==
    /\ Storing(c) /\ WriteErrors /\ Fault
    /\ AppendUnwritten(SentRecord(c))
    /\ fetch' = [fetch EXCEPT !.data = @ + 1]
    /\ Advance(c)
    /\ harm' = harm \cup {"write"}
    /\ UNCHANGED <<up, state, taskVars, topicVars, turn, indexVars, waiting,
                   sib, truncated>>

\* The end of a block: the count must already be the total of all blocks.
BlockEnd(c) == /\ Delivering(c, "block") /\ state = FETCHING_BLOCKS
               /\ SentRecord(c) = EMPTY

BadRecordCount(c) ==
    /\ BlockEnd(c) /\ fetch.data # fetch.recs
    /\ Close(c)
    /\ ResetValidation(tokens)
    /\ UNCHANGED <<up, continues, adding, topicVars, turn, fetch, valid,
                   rec_count, waiting, disk, envVars>>

FetchDone(c) ==
    /\ BlockEnd(c) /\ fetch.data = fetch.recs /\ fetch.block = fetch.sums
    /\ Close(c)
    /\ state' = VALIDATING
    /\ tokens' = tokens + 1
    /\ indexed' = 0 /\ index' = NoIndex
    /\ UNCHANGED <<up, continues, adding, topicVars, turn, fetch, storeVars,
                   waiting, disk, envVars, truncated>>

FetchNext(c) ==
    /\ BlockEnd(c) /\ fetch.data = fetch.recs /\ fetch.block # fetch.sums
    /\ fetch' = [fetch EXCEPT !.block = @ + 1]
    /\ FetchBlock(c, fetch.block + 1)
    /\ UNCHANGED <<up, state, taskVars, topicVars, turn, storeVars, indexVars,
                   waiting, disk, envVars, truncated>>

-----------------------------------------------------------------------------
(* Transactions *)

\* on_transaction(): the poll service queues a PushTransactionsTask.
Deliver ==
    /\ up /\ next <= MaxSeq
    /\ Paced => /\ pushq = <<>> /\ inbound = {} /\ adding = 0
                /\ state = READY
    /\ pushq' = Append(pushq, IF next \in ResetSeqs THEN RESET ELSE next)
    /\ next' = next + 1
    /\ UNCHANGED <<up, state, taskVars, inbound, turn, fetchVars, storeVars,
                   indexVars, waiting, disk, envVars, truncated>>

\* add_transaction(), first half.  Tasks leave the queue in order, but any
\* of the workers that hold one may be the first to take main_lock.
\* Comparing a batch that has no buffer reads through a null pointer.
PushBatch(i) ==
    LET b == pushq[i] IN
    /\ CanRun
    /\ i <= Workers - adding
    /\ IF inbound # {} /\ RESET \in inbound \cup {b}
       THEN Exit
       ELSE /\ pushq' = SubSeq(pushq, 1, i - 1) \o SubSeq(pushq, i + 1, Len(pushq))
            /\ inbound' = inbound \cup {b}
            /\ adding' = adding + 1
            /\ UNCHANGED <<up, state, tokens, continues, next, turn, fetchVars,
                           storeVars, indexVars, waiting, disk, envVars,
                           truncated>>

\* continue_with_transactions(), from add_transaction() or from a task.
MutEnter == turn' = IF state = READY THEN BatchSize + 2 ELSE 0
Enter == turn' = IF state = READY THEN BatchSize + 1 ELSE 0
ContinueAdding ==
    /\ up /\ turn = 0 /\ adding > 0
    /\ adding' = adding - 1
    /\ Enter
    /\ UNCHANGED <<up, state, tokens, continues, topicVars, fetchVars,
                   storeVars, indexVars, waiting, disk, envVars, truncated>>
ContinueTask ==
    /\ CanRun /\ continues > 0
    /\ continues' = continues - 1
    /\ Enter
    /\ UNCHANGED <<up, state, tokens, adding, topicVars, fetchVars,
                   storeVars, indexVars, waiting, disk, envVars, truncated>>

\* One iteration, with batch t.  The comparator orders by <, so top() is the
\* largest.
IsTop(t) == up /\ turn > 1 /\ t \in inbound /\ \A b \in inbound : b <= t
Batch(t) == IsTop(t) /\ t # RESET
MutAccepts(t) == \/ HasLatest /\ t > Latest
                 \/ ~HasLatest /\ (TopicResetAllowed \/ t = 1)
MutAcceptsNext(t) == HasLatest /\ t = Latest + 1
Accepts(t) == \/ HasLatest /\ t = Latest + 1
              \/ ~HasLatest /\ (TopicResetAllowed \/ t = 1)
MutOmits(t) == HasLatest /\ t # Latest + 1
Omits(t) == HasLatest /\ t <= Latest
Accepted(t) == Batch(t) /\ ~LatestThrows /\ Accepts(t)
Rejected(t) == Batch(t) /\ ~LatestThrows /\ ~Accepts(t)
Pop(t) == inbound' = inbound \ {t} /\ turn' = turn - 1

LoopThrows(t) ==
    /\ \/ IsTop(t) /\ t = RESET /\ ~TopicResetAllowed
       \/ Batch(t) /\ LatestThrows
       \/ Accepted(t) /\ AppendThrows
    /\ Exit

ResetTopic(t) ==
    /\ IsTop(t) /\ t = RESET /\ TopicResetAllowed
    /\ Pop(t)
    /\ tiles' = 0
    /\ indexed' = 0 /\ index' = NoIndex
    /\ Truncation
    /\ UNCHANGED <<up, state, taskVars, pushq, next, fetchVars, valid,
                   rec_count, waiting, disk, envVars>>

\* calc_fields_and_update_indexes_for() has found all it needs.  For a
\* transaction that may need a paired one that is a matter of what other
\* chains hold and answer: it may be so at once, later or never.
Appending(t) == Accepted(t) /\ ~AppendThrows
Applied(t) == index' = [index EXCEPT ![t] = @ + 1]

AppendBatch(t) ==
    /\ Appending(t)
    /\ Append1(t)
    /\ Applied(t)
    /\ Pop(t)
    /\ UNCHANGED <<up, state, taskVars, pushq, next, fetchVars, indexed,
                   waiting, envVars, truncated>>

\* A write fails; nobody looks at the exit code.
AppendFails(t) ==
    /\ Appending(t) /\ WriteErrors /\ Fault
    /\ AppendUnwritten(t)
    /\ Applied(t)
    /\ Pop(t)
    /\ harm' = harm \cup {IF BlockPos = 0 THEN "write" ELSE "tail"}
    /\ UNCHANGED <<up, state, taskVars, pushq, next, fetchVars, indexed,
                   waiting, sib, truncated>>

CrashInAppend(t) ==
    /\ Appending(t) /\ Fault
    /\ TornAppend(t)
    /\ Stop
    /\ harm' = Lasting \cup {"torn"}

\* calc_fields_and_update_indexes_for() asks for a paired transaction, and the
\* loop ends with the batch still in the buffer.
Defer(t) ==
    /\ Accepted(t) /\ t \in PairedSeqs
    /\ waiting' = waiting \cup {t}
    /\ turn' = 0
    /\ UNCHANGED <<up, state, taskVars, topicVars, fetchVars, storeVars,
                   indexVars, disk, envVars, truncated>>

\* on_paired_transaction(): the answer, of whatever kind, only queues another
\* look at the same batch.
PairedDone(s) ==
    /\ up /\ turn = 0 /\ s \in waiting
    /\ waiting' = waiting \ {s}
    /\ continues' = continues + 1
    /\ UNCHANGED <<up, state, tokens, adding, topicVars, turn, fetchVars,
                   storeVars, indexVars, disk, envVars, truncated>>

Omit(t) ==
    /\ Rejected(t) /\ Omits(t)
    /\ Pop(t)
    /\ UNCHANGED <<up, state, taskVars, pushq, next, fetchVars, storeVars,
                   indexVars, waiting, disk, envVars, truncated>>

Hole(t) ==
    /\ Rejected(t) /\ ~Omits(t)
    /\ ResetValidation(tokens)
    /\ turn' = 0
    /\ UNCHANGED <<up, continues, adding, topicVars, fetchVars, valid,
                   rec_count, waiting, disk, envVars>>

EndLoop ==
    /\ up /\ (turn = 1 \/ (turn > 1 /\ inbound = {}))
    /\ turn' = 0
    /\ continues' = IF inbound = {} THEN continues ELSE continues + 1
    /\ UNCHANGED <<up, state, tokens, adding, topicVars, fetchVars, storeVars,
                   indexVars, waiting, disk, envVars, truncated>>

-----------------------------------------------------------------------------
Validation == \/ StartValidating \/ StartFetching \/ StartBlank
              \/ FinishValidation \/ ValidateBlock \/ RejectBlock
              \/ ValidationThrows
Callback(c) == \/ ChecksumsEnd(c) \/ ChecksumGot(c) \/ RecordGot(c)
               \/ BadRecordCount(c) \/ FetchDone(c) \/ FetchNext(c)
               \/ CallbackThrows(c)
Iterate(t) == \/ LoopThrows(t) \/ ResetTopic(t) \/ AppendBatch(t)
              \/ Defer(t) \/ Omit(t) \/ Hole(t)
Loop == EndLoop \/ \E t \in inbound : Iterate(t)
Failure == \/ Crash
           \/ \E t \in inbound : CrashInAppend(t) \/ AppendFails(t)
           \/ \E c \in Conns : LoseStream(c) \/ CrashInFetch(c) \/ FetchFails(c)

Next ==
    \/ Validation
    \/ \E c \in Conns : Callback(c)
    \/ Deliver
    \/ \E i \in 1..Len(pushq) : PushBatch(i)
    \/ ContinueAdding \/ ContinueTask
    \/ Loop
    \/ \E s \in PairedSeqs : PairedDone(s)
    \/ SiblingAppends
    \/ Failure
    \/ Restart

Spec == Init /\ [][Next]_vars

\* Workers and the poll service run what is queued, a delayed task fires, the
\* topic and an open stream deliver and the process is started again; the
\* sibling, whoever is asked for a pair, and failures owe nothing.
Fairness ==
    /\ WF_vars(Validation)
    /\ WF_vars(\E c \in Conns : Callback(c))
    /\ WF_vars(\E i \in 1..Len(pushq) : PushBatch(i))
    /\ WF_vars(ContinueAdding) /\ WF_vars(ContinueTask)
    /\ WF_vars(Loop)
    /\ WF_vars(Deliver) /\ WF_vars(Restart)
FairSpec == Spec /\ Fairness

-----------------------------------------------------------------------------
(* Properties *)

TaskType ==
    /\ up \in BOOLEAN /\ state \in State
    /\ tokens \in Nat /\ continues \in Nat /\ adding \in 0..Workers
    /\ turn \in 0..BatchSize+1
TopicType ==
    /\ pushq \in Seq(0..MaxSeq) /\ inbound \in SUBSET (0..MaxSeq)
    /\ next \in 1..MaxSeq+1
Stream == [kind : {"none", "checksums", "block"}, arg : Nat, pos : Nat]
Fetch == [sums : Nat, recs : Nat, last : BOOLEAN, block : Nat, data : Nat]
FetchType == streams \in [Conns -> Stream] /\ fetch \in Fetch
StoreType ==
    /\ tiles \in 0..MaxBlocks /\ valid \in 0..MaxBlocks
    /\ rec_count \in 0..MaxRecs /\ disk \in [Blocks -> BlockFile]
IndexType ==
    /\ indexed \in Nat /\ index \in [Seqs -> Nat]
    /\ waiting \in SUBSET PairedSeqs
EnvType ==
    /\ sib \in 0..MaxSeq /\ faults \in 0..MaxFaults
    /\ truncated \in 0..MaxTruncated /\ harm \in SUBSET Harms

\* TypeOK: the types of the variables.  The tile list and
\* checksum_valid_block_count stay within the block files, the loop over
\* transactions within its batch size, and no more workers are inside
\* add_transaction() than the pool has.  The bound on rec_count is the
\* model's (Grow), not the code's.
TypeOK ==
    TaskType /\ TopicType /\ FetchType /\ StoreType /\ IndexType /\ EnvType

\* OneDriver: while siblings report true sizes, exactly one thing drives
\* validation at any time.  A ContinueValidationTask exists only in INITIAL
\* and VALIDATING, and then just one; a stream is open only in the fetching
\* state that expects its messages, and then just one; and as long as no
\* stream was lost in this process there is one.  So neither
\* continue_validation() nor the on_block_ callbacks can meet the state in
\* which they throw, calls to continue_validation() are serial, and a fetch
\* that nothing drives any more is always one whose stream broke.
OneDriver ==
    SiblingTrusted /\ up =>
        /\ tokens = IF state \in {INITIAL, VALIDATING} THEN 1 ELSE 0
        /\ \A c \in Conns :
             /\ streams[c].kind = "checksums" => state = FETCHING_CHECKSUMS
             /\ streams[c].kind = "block" => state = FETCHING_BLOCKS
        /\ \A c, d \in Conns :
             streams[c].kind # "none" /\ streams[d].kind # "none" => c = d
        /\ state \in {FETCHING_CHECKSUMS, FETCHING_BLOCKS} /\ "stream" \notin harm =>
             \E c \in Conns : streams[c].kind # "none"

\* The transactions of the chain, in the order of their records.
Stored ==
    SelectSeq([k \in 1..tiles * RecCount |->
                 IF BeforeChecksum(k - 1) THEN SlotAt(k - 1) ELSE EMPTY],
              LAMBDA v : v > 0)
Times(q, n) == Cardinality({i \in DOMAIN q : q[i] = n})

\* DriverInv: what makes OneDriver inductive.  The loop over transactions
\* runs only in READY and keeps main_lock, a process that is down has left
\* nothing behind, and once a block that is not full was announced its
\* stream has no further checksum to deliver.
DriverInv ==
    /\ turn > 0 => up /\ state = READY
    /\ ~up => state = INITIAL /\ \A c \in Conns : streams[c].kind = "none"
    /\ OneDriver
    /\ SiblingTrusted /\ state = FETCHING_CHECKSUMS /\ fetch.last =>
         \A c \in Conns : streams[c].kind = "checksums" =>
             ~InChain(streams[c].arg, streams[c].pos)

\* A topic that may be reset can start anywhere, any other starts with 1.
Consecutive(s) ==
    \A i \in DOMAIN s : \/ i > 1 /\ s[i] = s[i-1] + 1
                        \/ i = 1 /\ (TopicResetAllowed \/ s[i] = 1)

\* NoHoles: a chain that was never truncated and is READY holds
\* transactions 1 to n without a hole, whatever the order in which workers
\* run, whatever is delivered twice, wherever a process was stopped and
\* whichever write to a tail block failed (#00015).  Two failed writes are
\* excluded, because the code does leave a hole after them: the first write
\* of a block and a write while fetching.
NoHoles ==
    up /\ state = READY /\ truncated = 0 /\ "write" \notin harm =>
        Consecutive(Stored)

NoWriteFailed == harm \cap {"tail", "write"} = {}

\* IndexMatches: without failed writes and truncations the indexes of a READY
\* chain are the result of applying each stored transaction once: building them
\* block by block during validation and record by record while appending
\* gives the same (#00022).
IndexMatches ==
    up /\ state = READY /\ truncated = 0 /\ NoWriteFailed =>
        index = [n \in Seqs |-> Times(Stored, n)]

\* get_transaction_count().
TransactionCount ==
    IF state # READY \/ rec_count = 0 THEN 0 ELSE rec_count - tiles

\* CountMatches: a chain that was never truncated and has seen no failed
\* write reports as many transactions as it holds: the record counter agrees
\* with the block files through validation, fetching and appending.
CountMatches ==
    up /\ state = READY /\ truncated = 0 /\ NoWriteFailed =>
        TransactionCount = Len(Stored)

\* NothingLost: as long as nothing was truncated and no write failed, each
\* message a subscription that starts at 1 has delivered is queued,
\* buffered or stored.
NothingLost ==
    up /\ TopicFrom = {1} /\ truncated = 0 /\ NoWriteFailed =>
        \A n \in 1..next-1 :
            \/ n \in inbound
            \/ \E i \in DOMAIN pushq : pushq[i] = n
            \/ \E i \in DOMAIN Stored : Stored[i] = n

\* AppendOnly: until the chain is truncated or the process ends, a step
\* never changes a stored transaction.  After a failed first write of a
\* block, the next write to it does (FirstSlots).
AppendOnly ==
    [][up /\ up' /\ truncated' = 0 /\ "write" \notin harm =>
          SubSeq(Stored', 1, Len(Stored)) = Stored]_vars

\* AllStored: with a topic that sends the next message once the last one is
\* settled, the chain holds again and again transactions 1 to n, where n is
\* the last of all or the one before a transaction that waits for its pair:
\* such a transaction holds up what is behind it and nothing else does, nor
\* does a crash between two writes.  After a crash inside append() or a
\* failed write, or once a stream of this process was lost, nothing is
\* claimed.
AllStored ==
    []<>(\/ harm # {}
         \/ \E n \in 0..MaxSeq :
              /\ Stored = [i \in 1..n |-> i]
              /\ n = MaxSeq \/ n + 1 \in waiting)

\* EventuallyReady: a node that has a sibling fetches what is missing and
\* becomes READY (#00028).
EventuallyReady == <>(up /\ state = READY)

\* FetchingEnds: something that goes wrong while fetching does not leave the
\* chain in the fetching state: "state can return to INITIAL if something
\* goes wrong; this can happen from any other state".
FetchingEnds ==
    state \in {FETCHING_CHECKSUMS, FETCHING_BLOCKS}
      ~> state \notin {FETCHING_CHECKSUMS, FETCHING_BLOCKS}

\* BufferedProceeds: transactions buffered during validation are taken from
\* the buffer once it is over.
BufferedProceeds == inbound # {} ~> inbound = {}

\* ShortFileMoved: a block file of the wrong length is eventually moved out
\* of the way, as the BAD_LENGTH branch of validate_next_checksum() means to.
ShortFileMoved ==
    (\E b \in Blocks : disk[b].file = "short")
      ~> (\A b \in Blocks : disk[b].file # "short")

\* ReadyHasNoHole: a READY chain has no hole in its sequence numbers, after
\* a truncation as well (#00015).
ReadyHasNoHole == up /\ state = READY => Consecutive(Stored)

\* ReadyCountMatches: get_transaction_count() counts the transactions of the
\* chain, after a truncation as well.
ReadyCountMatches == up /\ state = READY => TransactionCount = Len(Stored)

=============================================================================
