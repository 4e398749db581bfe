CONSTANTS
    n1 = n1
    n2 = n2
    Node <- TwoNodes
    NoNode = NoNode
    MaxLease = 2
    Watchers <- Nobody
    Crashers <- Nobody
    Closers <- Nobody
    Lossy <- OnlyFirst
SPECIFICATION FairSpec
PROPERTIES HealthyNodeConverges
CHECK_DEADLOCK FALSE
