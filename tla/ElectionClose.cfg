CONSTANTS
    n1 = n1
    n2 = n2
    Node <- OnlyFirst
    NoNode = NoNode
    MaxLease = 3
    Watchers <- Nobody
    Crashers <- OnlyFirst
    Closers <- OnlyFirst
    Lossy <- OnlyFirst
SPECIFICATION FairSpec
PROPERTIES CloseReturns
CHECK_DEADLOCK FALSE
