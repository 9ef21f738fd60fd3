\* Both groups on this node; a sibling that may lag behind, and streams that break.
CONSTANTS
    A = A
    B = B
    u1 = u1
    u2 = u2
    Groups = {A, B}
    Hosted = {A, B}
    Repeating = {A}
    Users = {u1, u2}
    Ids = {i1}
    Amounts = {3}
    BlockSize = 3
    Conns = {c1, c2}
    Siblings = {0, 1}
    Crashes = TRUE
    SiblingLags = TRUE
    StreamsBreak = TRUE
    Topics <- BothTopics
    Prefix <- MCPrefix
    MaxLen <- MCMaxLen
    Decay <- MCDecay
    None = None
SYMMETRY ConnSymmetry
SPECIFICATION Spec
INVARIANTS TypeOK UsersMatch OutboundPoints PairedFirst Awaited 
CHECK_DEADLOCK FALSE
