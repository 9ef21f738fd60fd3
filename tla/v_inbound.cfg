\* The sender's group on the sibling, which has all there is.
CONSTANTS
    A = A
    B = B
    u1 = u1
    u2 = u2
    Groups = {A, B}
    Hosted = {A}
    Repeating = {}
    Users = {u1, u2}
    Ids = {i1}
    Amounts = {3}
    BlockSize = 3
    Conns = {c1, c2}
    Siblings = {1}
    Crashes = FALSE
    SiblingLags = FALSE
    StreamsBreak = FALSE
    Topics <- MCTopics
    Prefix <- MCPrefix
    MaxLen <- ShortLen
    Decay <- MCDecay
    None = None
SPECIFICATION FairSpec
PROPERTY InboundDecided
CHECK_DEADLOCK FALSE
