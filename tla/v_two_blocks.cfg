\* The sibling has two blocks; nothing fails.
CONSTANTS
    RecCount = 3
    BatchSize = 2
    Workers = 1
    TopicResetAllowed = FALSE
    HasSibling = TRUE
    SiblingTrusted = TRUE
    Conns = {c1}
    MaxSeq = 4
    ResetSeqs = {}
    TopicFrom = {5}
    Paced = FALSE
    PairedSeqs = {}
    IndexRejects = {}
    StartLens = {0}
    SibLens = {4}
    MaxBlocks = 3
    MaxFaults = 0
    WriteErrors = FALSE
    MaxTruncated = 2
SPECIFICATION FairSpec
PROPERTY EventuallyReady
CHECK_DEADLOCK FALSE
