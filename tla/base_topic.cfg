\* A node without sibling: bursts on the topic, two workers, crashes and failed writes.
CONSTANTS
    RecCount = 3
    BatchSize = 2
    Workers = 2
    TopicResetAllowed = FALSE
    HasSibling = FALSE
    SiblingTrusted = TRUE
    Conns = {c1}
    MaxSeq = 4
    ResetSeqs = {}
    TopicFrom = {1}
    Paced = FALSE
    PairedSeqs = {}
    IndexRejects = {}
    StartLens = {0, 3}
    SibLens = {0}
    MaxBlocks = 3
    MaxFaults = 2
    WriteErrors = TRUE
    MaxTruncated = 2
SPECIFICATION Spec
INVARIANT TypeOK
INVARIANT OneDriver
INVARIANT NoHoles
INVARIANT IndexMatches
INVARIANT CountMatches
INVARIANT NothingLost
PROPERTY AppendOnly
CHECK_DEADLOCK FALSE
