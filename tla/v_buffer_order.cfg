\* One worker, no sibling, nothing fails; two transactions.
CONSTANTS
    RecCount = 3
    BatchSize = 2
    Workers = 1
    TopicResetAllowed = FALSE
    HasSibling = FALSE
    SiblingTrusted = TRUE
    Conns = {c1}
    MaxSeq = 2
    ResetSeqs = {}
    TopicFrom = {1}
    Paced = FALSE
    PairedSeqs = {}
    IndexRejects = {}
    StartLens = {0}
    SibLens = {0}
    MaxBlocks = 3
    MaxFaults = 0
    WriteErrors = FALSE
    MaxTruncated = 2
SPECIFICATION FairSpec
PROPERTY BufferedProceeds
CHECK_DEADLOCK FALSE
