------------------------ MODULE BlockchainBaseDriver ------------------------
(***************************************************************************)
(* Exactly one task or stream drives the validation of a chain until a     *)
(* stream is lost, for every number of workers and connections, every      *)
(* block size and every topic.                                             *)
(*                                                                         *)
(* OneDriver is not inductive: a checksum that arrives after the block     *)
(* that is not full would push a second ContinueValidationTask while the   *)
(* stream is still open.  DriverInv adds that a sibling that reports true  *)
(* sizes has no such checksum, that the loop over transactions runs only   *)
(* in READY, and that a process that is down has left nothing behind.      *)
(***************************************************************************)
EXTENDS BlockchainBaseProofs

\* NextBlock: the product that gives the first transaction of a block.
LEMMA NextBlock ==
    ASSUME NEW b \in Nat
    PROVE  /\ b * Payloads \in Nat /\ Payloads \in Nat
           /\ (b + 1) * Payloads = b * Payloads + Payloads
BY ConstAssumption DEF Payloads

\* ShortBlockIsLast: no block follows one that is not full.
LEMMA ShortBlockIsLast ==
    ASSUME NEW n \in Nat, NEW b \in Nat, ChainBlockSize(n, b) < RecCount
    PROVE  ~InChain(n, b + 1)
<1>1. n - b * Payloads < Payloads
  BY NextBlock, ConstAssumption DEF ChainBlockSize, Smaller, Payloads
<1> QED
  BY <1>1, NextBlock DEF InChain

\* AdvanceFields: delivering a message moves the position of its stream and
\* nothing else.
LEMMA AdvanceFields ==
    ASSUME TypeOK, NEW c \in Conns, Advance(c)
    PROVE  /\ \A d \in Conns : /\ streams'[d].kind = streams[d].kind
                               /\ streams'[d].arg = streams[d].arg
           /\ \A d \in Conns \ {c} : streams'[d] = streams[d]
           /\ streams'[c].pos = streams[c].pos + 1
<1>1. streams \in [Conns -> Stream]
  BY DEF TypeOK, FetchType
<1>2. streams' = [streams EXCEPT ![c] = [streams[c] EXCEPT !.pos = @ + 1]]
  BY DEF Advance
<1>3. /\ streams'[c] = [streams[c] EXCEPT !.pos = @ + 1]
      /\ \A d \in Conns \ {c} : streams'[d] = streams[d]
  BY <1>1, <1>2, Zenon
<1>4. /\ streams'[c].kind = streams[c].kind /\ streams'[c].arg = streams[c].arg
      /\ streams'[c].pos = streams[c].pos + 1
  <2>1. streams[c] \in Stream
    BY <1>1
  <2> QED
    BY <1>3, <2>1, Zenon DEF Stream
<1> QED
  BY <1>3, <1>4, ZenonT(40)

\* StopDriver: a process that ends has no loop and no stream.
LEMMA StopDriver ==
    ASSUME Stop
    PROVE  DriverInv'
<1>1. \A c \in Conns : streams'[c].kind = "none"
  BY DEF Stop, Idle
<1>2. ~up' /\ turn' = 0 /\ state' = INITIAL
  BY DEF Stop
<1> QED
  BY <1>1, <1>2 DEF DriverInv, OneDriver, INITIAL, FETCHING_CHECKSUMS

\* SameDriver: a step that leaves the driving variables alone.
LEMMA SameDriver ==
    ASSUME DriverInv, UNCHANGED <<up, state, tokens, streams, fetch>>,
           harm \subseteq harm', turn' > 0 => up /\ state = READY
    PROVE  DriverInv'
BY DEF DriverInv, OneDriver, InChain

\* ResetDriver: reset_validation() called by the last driver of a chain.
LEMMA ResetDriver ==
    ASSUME TypeOK, DriverInv, up, turn' = 0, UNCHANGED up,
           NEW left \in Nat, ResetValidation(left),
           SiblingTrusted => left = 0,
           SiblingTrusted => \A c \in Conns : streams'[c].kind = "none"
    PROVE  DriverInv'
BY DEF DriverInv, OneDriver, ResetValidation, INITIAL, VALIDATING,
       FETCHING_CHECKSUMS, FETCHING_BLOCKS

\* ValidationDriver: continue_validation() keeps DriverInv.
LEMMA ValidationDriver ==
    ASSUME TypeOK, DriverInv, Validation
    PROVE  DriverInv'
<1> USE ConstAssumption
<1> USE DEF INITIAL, FETCHING_CHECKSUMS, FETCHING_BLOCKS, VALIDATING, READY,
            taskVars, fetchVars, envVars
<1>1. CASE StartValidating
  BY <1>1 DEF StartValidating, CanRun, DriverInv, OneDriver, InChain
<1>2. CASE StartFetching
  <2>1. /\ up /\ up' = up /\ turn = 0 /\ turn' = turn /\ tokens > 0
        /\ state = INITIAL /\ state' = FETCHING_CHECKSUMS /\ tokens' = tokens - 1
    BY <1>2 DEF StartFetching, CanRun
  <2>2. fetch'.last = FALSE
    <3>1. fetch \in Fetch
      BY DEF TypeOK, FetchType
    <3> QED
      BY <1>2, <3>1, Zenon DEF StartFetching, Fetch
  <2>3. PICK c \in Conns :
          streams' = [streams EXCEPT ![c] =
                         [kind |-> "checksums", arg |-> sib, pos |-> 0]]
    BY <1>2, ZenonT(40) DEF StartFetching
  <2>4. SiblingTrusted => \A d \in Conns : streams[d].kind = "none"
    BY <2>1 DEF DriverInv, OneDriver, TypeOK, FetchType, Stream
  <2>5. SiblingTrusted =>
          \A d \in Conns : streams'[d].kind = IF d = c THEN "checksums" ELSE "none"
    BY <2>3, <2>4 DEF TypeOK, FetchType
  <2>6. SiblingTrusted => tokens' = 0
    BY <2>1 DEF DriverInv, OneDriver
  <2> QED
    BY <2>1, <2>2, <2>5, <2>6 DEF DriverInv, OneDriver
<1>3. CASE StartBlank
  BY <1>3 DEF StartBlank, CanRun, DriverInv, OneDriver
<1>4. SiblingTrusted /\ up /\ state \in {INITIAL, VALIDATING} =>
        tokens = 1 /\ \A c \in Conns : streams[c].kind = "none"
  BY DEF DriverInv, OneDriver, TypeOK, FetchType, Stream
<1>5. ASSUME CanRun, tokens > 0, state = VALIDATING,
             ResetValidation(tokens - 1), UNCHANGED <<up, turn, streams>>
      PROVE  DriverInv'
  <2>1. tokens - 1 \in Nat
    BY <1>5 DEF TypeOK, TaskType
  <2> QED
    BY <1>4, <1>5, <2>1, ResetDriver DEF CanRun
<1>6. CASE FinishValidation
  <2>1. CASE IndexAccepts(valid)
    BY <1>4, <1>6, <2>1 DEF FinishValidation, CanRun, DriverInv, OneDriver
  <2>2. CASE ~IndexAccepts(valid)
    BY <1>5, <1>6, <2>2 DEF FinishValidation
  <2> QED
    BY <2>1, <2>2
<1>7. CASE ValidateBlock
  <2>1. CASE IndexAccepts(valid + 1)
    BY <1>7, <2>1, SameDriver DEF ValidateBlock, CanRun
  <2>2. CASE ~IndexAccepts(valid + 1)
    BY <1>5, <1>7, <2>2 DEF ValidateBlock
  <2> QED
    BY <2>1, <2>2
<1>8. CASE RejectBlock
  BY <1>5, <1>8 DEF RejectBlock
<1>9. CASE ValidationThrows
  BY <1>9, StopDriver DEF ValidationThrows
<1> QED
  BY <1>1, <1>2, <1>3, <1>6, <1>7, <1>8, <1>9 DEF Validation

\* CallbackDriver: the on_block_ callbacks keep DriverInv.
LEMMA CallbackDriver ==
    ASSUME TypeOK, DriverInv, NEW c \in Conns, Callback(c)
    PROVE  DriverInv'
<1> USE ConstAssumption
<1> USE DEF INITIAL, FETCHING_CHECKSUMS, FETCHING_BLOCKS, VALIDATING, READY,
            taskVars, fetchVars, envVars
<1>1. streams \in [Conns -> Stream]
  BY DEF TypeOK, FetchType
<1>2. ASSUME SiblingTrusted, up, streams[c].kind # "none"
      PROVE  /\ \A d \in Conns \ {c} : streams[d].kind = "none"
             /\ state \in {FETCHING_CHECKSUMS, FETCHING_BLOCKS} => tokens = 0
  BY <1>1, <1>2 DEF DriverInv, OneDriver, Stream
<1>3. ASSUME Close(c)
      PROVE  /\ streams'[c].kind = "none"
             /\ \A d \in Conns \ {c} : streams'[d] = streams[d]
  BY <1>1, <1>3 DEF Close, Idle
<1>4. ASSUME NEW b, FetchBlock(c, b)
      PROVE  /\ streams'[c].kind = "block"
             /\ \A d \in Conns \ {c} : streams'[d] = streams[d]
  BY <1>1, <1>4 DEF FetchBlock
<1>5. CASE ChecksumsEnd(c)
  <2>1. /\ up /\ up' = up /\ turn = 0 /\ turn' = turn
        /\ streams[c].kind = "checksums" /\ state = FETCHING_CHECKSUMS
        /\ state' = FETCHING_BLOCKS /\ tokens' = tokens /\ FetchBlock(c, 0)
    BY <1>5 DEF ChecksumsEnd, Delivering
  <2> QED
    BY <2>1, <1>2, <1>4 DEF DriverInv, OneDriver
<1>6. CASE ChecksumGot(c)
  <2>1. /\ up /\ up' = up /\ turn = 0 /\ turn' = turn
        /\ streams[c].kind = "checksums" /\ state = FETCHING_CHECKSUMS
        /\ InChain(streams[c].arg, streams[c].pos) /\ Advance(c)
        /\ harm' = harm
    BY <1>6 DEF ChecksumGot, Delivering
  <2>2. CASE fetch.last
    <3>1. ~SiblingTrusted
      BY <2>1, <2>2 DEF DriverInv
    <3>2. ResetValidation(tokens) /\ tokens \in Nat
      BY <1>6, <2>2 DEF ChecksumGot, TypeOK, TaskType
    <3> QED
      BY <2>1, <3>1, <3>2, ResetDriver
  <2>3. CASE ~fetch.last
    <3>1. PICK size \in ReportedSizes(streams[c].arg, streams[c].pos) :
            /\ fetch' = [fetch EXCEPT !.last = (size < RecCount),
                                      !.recs = @ + size, !.sums = @ + 1]
            /\ UNCHANGED <<state, tokens>>
      BY <1>6, <2>3, ZenonT(40) DEF ChecksumGot
    <3>2. fetch'.last = (size < RecCount)
      <4>1. fetch \in Fetch
        BY DEF TypeOK, FetchType
      <4> QED
        BY <3>1, <4>1, Zenon DEF Fetch
    <3>3. streams[c].arg \in Nat /\ streams[c].pos \in Nat
      BY <1>1, StreamFieldTypes
    <3>4. SiblingTrusted /\ size < RecCount =>
            ~InChain(streams[c].arg, streams[c].pos + 1)
      BY <3>1, <3>3, ShortBlockIsLast DEF ReportedSizes
    <3>5. SiblingTrusted /\ fetch'.last =>
            ~InChain(streams'[c].arg, streams'[c].pos)
      BY <2>1, <3>2, <3>4, AdvanceFields, ZenonT(40)
    <3>6. \A d \in Conns : streams'[d].kind = streams[d].kind
      BY <2>1, AdvanceFields
    <3>7. OneDriver'
      BY <2>1, <3>1, <3>6 DEF DriverInv, OneDriver
    <3>8. SiblingTrusted => \A d \in Conns \ {c} : streams'[d].kind = "none"
      BY <2>1, <3>6, <1>2
    <3>9. SiblingTrusted /\ fetch'.last =>
            \A d \in Conns : streams'[d].kind = "checksums" =>
              ~InChain(streams'[d].arg, streams'[d].pos)
      BY <3>5, <3>8
    <3> QED
      BY <2>1, <3>7, <3>9 DEF DriverInv, InChain
  <2> QED
    BY <2>2, <2>3
<1>7. CASE RecordGot(c)
  <2>1. /\ up /\ up' = up /\ turn = 0 /\ turn' = turn
        /\ state = FETCHING_BLOCKS /\ UNCHANGED <<state, tokens>> /\ Advance(c)
        /\ harm' = harm
    BY <1>7 DEF RecordGot, Delivering
  <2>2. \A d \in Conns : streams'[d].kind = streams[d].kind
    BY <2>1, AdvanceFields
  <2> QED
    BY <2>1, <2>2 DEF DriverInv, OneDriver
<1>8. CASE BadRecordCount(c)
  <2>1. /\ up /\ up' = up /\ turn = 0 /\ turn' = turn
        /\ streams[c].kind = "block" /\ state = FETCHING_BLOCKS
        /\ ResetValidation(tokens) /\ tokens \in Nat /\ Close(c)
    BY <1>8 DEF BadRecordCount, BlockEnd, Delivering, TypeOK, TaskType
  <2> QED
    BY <2>1, <1>2, <1>3, ResetDriver
<1>9. CASE FetchDone(c)
  <2>1. /\ up /\ up' = up /\ turn = 0 /\ turn' = turn
        /\ streams[c].kind = "block" /\ state = FETCHING_BLOCKS
        /\ state' = VALIDATING /\ tokens' = tokens + 1 /\ Close(c)
    BY <1>9 DEF FetchDone, BlockEnd, Delivering
  <2> QED
    BY <2>1, <1>2, <1>3 DEF DriverInv, OneDriver
<1>10. CASE FetchNext(c)
  <2>1. /\ up /\ up' = up /\ turn = 0 /\ turn' = turn
        /\ streams[c].kind = "block" /\ state = FETCHING_BLOCKS
        /\ UNCHANGED <<state, tokens>> /\ FetchBlock(c, fetch.block + 1)
    BY <1>10 DEF FetchNext, BlockEnd, Delivering
  <2> QED
    BY <2>1, <1>2, <1>4 DEF DriverInv, OneDriver
<1>11. CASE CallbackThrows(c)
  BY <1>11, StopDriver DEF CallbackThrows, Exit
<1> QED
  BY <1>5, <1>6, <1>7, <1>8, <1>9, <1>10, <1>11 DEF Callback

\* TransactionDriver: delivering, buffering and appending keep DriverInv.
LEMMA TransactionDriver ==
    ASSUME TypeOK, DriverInv,
           \/ Deliver
           \/ \E i \in 1..Len(pushq) : PushBatch(i)
           \/ ContinueAdding \/ ContinueTask \/ Loop
           \/ \E s \in PairedSeqs : PairedDone(s)
    PROVE  DriverInv'
<1> USE DEF taskVars, fetchVars, envVars
<1>1. turn > 0 => up /\ state = READY
  BY DEF DriverInv
<1>2. CASE Deliver
  BY <1>1, <1>2, SameDriver DEF Deliver
<1>3. ASSUME NEW i \in 1..Len(pushq), PushBatch(i)
      PROVE  DriverInv'
  <2>1. CASE Exit
    BY <2>1, StopDriver DEF Exit
  <2>2. CASE ~Exit
    <3>1. UNCHANGED <<up, state, tokens, turn, streams, fetch, harm>>
      BY <1>3, <2>2, ZenonT(40) DEF PushBatch
    <3> QED
      BY <1>1, <3>1, SameDriver
  <2> QED
    BY <2>1, <2>2
<1>4. CASE ContinueAdding
  BY <1>4, SameDriver DEF ContinueAdding, Enter
<1>5. CASE ContinueTask
  BY <1>5, SameDriver DEF ContinueTask, CanRun, Enter
<1>6. CASE EndLoop
  BY <1>6, SameDriver DEF EndLoop
<1>7. ASSUME NEW s \in PairedSeqs, PairedDone(s)
      PROVE  DriverInv'
  BY <1>1, <1>7, SameDriver DEF PairedDone
<1>8. ASSUME NEW t \in inbound, Iterate(t)
      PROVE  DriverInv'
  <2>1. CASE LoopThrows(t)
    BY <2>1, StopDriver DEF LoopThrows, Exit
  <2>2. up /\ turn > 1
    BY <1>8 DEF Iterate, LoopThrows, ResetTopic, AppendBatch, Appending, Defer,
                Omit, Hole, Accepted, Rejected, Batch, IsTop
  <2>3. up /\ state = READY
    BY <1>1, <2>2 DEF TypeOK, TaskType
  <2>4. CASE ResetTopic(t)
    BY <2>3, <2>4, SameDriver DEF ResetTopic
  <2>5. CASE AppendBatch(t)
    BY <2>3, <2>5, SameDriver DEF AppendBatch
  <2>6. CASE Defer(t)
    BY <2>3, <2>6, SameDriver DEF Defer
  <2>7. CASE Omit(t)
    BY <2>3, <2>7, SameDriver DEF Omit
  <2>8. CASE Hole(t)
    <3>1. /\ ResetValidation(tokens) /\ tokens \in Nat
          /\ turn' = 0 /\ UNCHANGED <<up, streams>>
      BY <2>8 DEF Hole, TypeOK, TaskType
    <3>2. SiblingTrusted =>
            tokens = 0 /\ \A c \in Conns : streams[c].kind = "none"
      BY <2>3 DEF DriverInv, OneDriver, TypeOK, FetchType, Stream, INITIAL,
                  VALIDATING, READY, FETCHING_CHECKSUMS, FETCHING_BLOCKS
    <3> QED
      BY <2>3, <3>1, <3>2, ResetDriver
  <2> QED
    BY <1>8, <2>1, <2>4, <2>5, <2>6, <2>7, <2>8 DEF Iterate
<1> QED
  BY <1>2, <1>3, <1>4, <1>5, <1>6, <1>7, <1>8 DEF Loop

\* FailureDriver: crashes, failed writes and lost streams keep DriverInv.
LEMMA FailureDriver ==
    ASSUME TypeOK, DriverInv, Failure
    PROVE  DriverInv'
<1> USE DEF taskVars, fetchVars, envVars
<1>1. CASE Crash
  BY <1>1, StopDriver DEF Crash
<1>2. ASSUME NEW t \in inbound, CrashInAppend(t)
      PROVE  DriverInv'
  BY <1>2, StopDriver DEF CrashInAppend
<1>3. ASSUME NEW t \in inbound, AppendFails(t)
      PROVE  DriverInv'
  <2>1. /\ turn > 1 /\ UNCHANGED <<up, state, tokens, streams, fetch>>
        /\ harm \subseteq harm'
    BY <1>3 DEF AppendFails, Appending, Accepted, Batch, IsTop
  <2>2. up /\ state = READY
    BY <2>1 DEF DriverInv, TypeOK, TaskType
  <2> QED
    BY <2>1, <2>2, SameDriver
<1>4. ASSUME NEW c \in Conns, LoseStream(c)
      PROVE  DriverInv'
  <2>1. /\ up /\ UNCHANGED <<up, state, tokens, turn, fetch>>
        /\ "stream" \in harm'
    BY <1>4 DEF LoseStream, Fault
  <2>2. \A d \in Conns : streams'[d].kind = "none" \/ streams'[d] = streams[d]
    BY <1>4 DEF LoseStream, Close, Idle, TypeOK, FetchType
  <2>3. OneDriver'
    BY <2>1, <2>2 DEF DriverInv, OneDriver
  <2> QED
    BY <2>1, <2>2, <2>3 DEF DriverInv, InChain
<1>5. ASSUME NEW c \in Conns, CrashInFetch(c)
      PROVE  DriverInv'
  BY <1>5, StopDriver DEF CrashInFetch
<1>6. ASSUME NEW c \in Conns, FetchFails(c)
      PROVE  DriverInv'
  <2>1. /\ up /\ up' = up /\ turn = 0 /\ turn' = turn
        /\ state = FETCHING_BLOCKS /\ UNCHANGED <<state, tokens>> /\ Advance(c)
        /\ harm \subseteq harm'
    BY <1>6 DEF FetchFails, Storing, Delivering
  <2>2. \A d \in Conns : streams'[d].kind = streams[d].kind
    BY <2>1, AdvanceFields
  <2> QED
    BY <2>1, <2>2
       DEF DriverInv, OneDriver, FETCHING_BLOCKS, FETCHING_CHECKSUMS, READY
<1> QED
  BY <1>1, <1>2, <1>3, <1>4, <1>5, <1>6 DEF Failure

\* NextDriver: every step keeps DriverInv.
LEMMA NextDriver ==
    ASSUME TypeOK, DriverInv, [Next]_vars
    PROVE  DriverInv'
<1> USE DEF taskVars, fetchVars, envVars
<1>1. turn > 0 => up /\ state = READY
  BY DEF DriverInv
<1>2. CASE SiblingAppends
  BY <1>1, <1>2, SameDriver DEF SiblingAppends
<1>3. CASE Restart
  <2>1. /\ ~up /\ up' /\ tokens' = 1
        /\ UNCHANGED <<state, turn, streams, fetch>>
    BY <1>3 DEF Restart
  <2>2. turn = 0 /\ state = INITIAL /\ \A c \in Conns : streams[c].kind = "none"
    BY <1>1, <2>1 DEF DriverInv, TypeOK, TaskType
  <2> QED
    BY <2>1, <2>2
       DEF DriverInv, OneDriver, INITIAL, FETCHING_CHECKSUMS, FETCHING_BLOCKS
<1>4. CASE UNCHANGED vars
  BY <1>1, <1>4, SameDriver DEF vars
<1> QED
  BY <1>2, <1>3, <1>4, ValidationDriver, CallbackDriver, TransactionDriver,
     FailureDriver DEF Next

\* InitDriver: a new process has one ContinueValidationTask and no stream.
LEMMA InitDriver ==
    ASSUME Init
    PROVE  DriverInv
<1>1. \A c \in Conns : streams[c].kind = "none"
  BY DEF Init, Idle
<1> QED
  BY <1>1 DEF Init, DriverInv, OneDriver, INITIAL, FETCHING_CHECKSUMS,
              FETCHING_BLOCKS

\* DriverCorrect: DriverInv is an invariant, and with it OneDriver: calls of
\* continue_validation() are serial, no callback of a fetch finds the chain
\* in a state it throws in, and only a lost stream leaves a chain that is
\* not READY without anything that drives it, however workers, streams,
\* resets, failed writes, crashes and restarts interleave.
THEOREM DriverCorrect == Spec => [](DriverInv /\ OneDriver)
<1>1. Init => TypeOK /\ DriverInv
  BY InitType, InitDriver
<1>2. TypeOK /\ DriverInv /\ [Next]_vars => (TypeOK /\ DriverInv)'
  BY NextType, NextDriver
<1>3. DriverInv => OneDriver
  BY DEF DriverInv
<1> QED
  BY <1>1, <1>2, <1>3, PTL DEF Spec

=============================================================================
