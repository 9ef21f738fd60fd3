\* Everything at once: reset messages, pairs, refused records, write errors, a sibling that misreports sizes.
CONSTANTS
    RecCount = 3
    BatchSize = 2
    Workers = 2
    TopicResetAllowed = TRUE
    HasSibling = TRUE
    SiblingTrusted = FALSE
    Conns = {c1, c2}
    MaxSeq = 4
    ResetSeqs = {3}
    TopicFrom = {1}
    Paced = FALSE
    PairedSeqs = {2}
    IndexRejects = {2}
    StartLens = {0, 2}
    SibLens = {0, 2, 3}
    MaxBlocks = 3
    MaxFaults = 1
    WriteErrors = TRUE
    MaxTruncated = 2
SPECIFICATION Spec
INVARIANT NoHoles
PROPERTY AppendOnly
CHECK_DEADLOCK FALSE
