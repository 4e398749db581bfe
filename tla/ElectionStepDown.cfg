CONSTANTS
    n1 = n1
    n2 = n2
    Node <- TwoNodes
    NoNode = NoNode
    MaxLease = 1
    Watchers <- Nobody
    Crashers <- Nobody
    Closers <- Nobody
    Lossy <- Nobody
SPECIFICATION FairSpec
PROPERTIES ExpiredLeaderStepsDown
CHECK_DEADLOCK FALSE
