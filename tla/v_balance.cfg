\* Both groups on this node.
CONSTANTS
    A = A
    B = B
    u1 = u1
    u2 = u2
    Groups = {A, B}
    Hosted = {A, B}
    Repeating = {A}
    Users = {u1, u2}
    Ids = {i1}
    Amounts = {3}
    BlockSize = 3
    Conns = {c1, c2}
    Siblings = {1}
    Crashes = TRUE
    SiblingLags = TRUE
    StreamsBreak = FALSE
    Topics <- MCTopics
    Prefix <- MCPrefix
    MaxLen <- MCMaxLen
    Decay <- MCDecay
    None = None
SPECIFICATION Spec
INVARIANTS BalanceMatches
CHECK_DEADLOCK FALSE
