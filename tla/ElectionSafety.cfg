CONSTANTS
    n1 = n1
    n2 = n2
    Node <- TwoNodes
    NoNode = NoNode
    MaxLease = 2
    Watchers <- OnlyFirst
    Crashers <- OnlyFirst
    Closers <- Nobody
    Lossy <- OnlyFirst
SPECIFICATION Spec
INVARIANTS TypeOK EpochAgreement TermExclusion SharedLease IndInv
PROPERTIES EpochsIncrease ImplementsTerms ImplementsLeadership
CHECK_DEADLOCK FALSE
