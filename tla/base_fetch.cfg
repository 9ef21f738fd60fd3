\* A node with a sibling of one block; a topic that waits for each transaction; lost streams, crashes.
CONSTANTS
    RecCount = 3
    BatchSize = 2
    Workers = 2
    TopicResetAllowed = FALSE
    HasSibling = TRUE
    SiblingTrusted = TRUE
    Conns = {c1, c2}
    MaxSeq = 4
    ResetSeqs = {}
    TopicFrom = {1}
    Paced = TRUE
    PairedSeqs = {3}
    IndexRejects = {}
    StartLens = {0, 3}
    SibLens = {0, 1, 2}
    MaxBlocks = 3
    MaxFaults = 2
    WriteErrors = FALSE
    MaxTruncated = 2
SPECIFICATION FairSpec
INVARIANT DriverInv
INVARIANT CountMatches
PROPERTY AllStored
CHECK_DEADLOCK FALSE
