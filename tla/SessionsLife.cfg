CONSTANTS
    w1 = w1
    s1 = s1
    s2 = s2
    s3 = s3
    NoStream = NoStream
    Empty = Empty
    WorkerID <- OneAndEmpty
    Stream <- TwoStreams
    ids <- SecondChanges
    Repeats <- SecondStream
    Faulty <- TwoStreams
    Closer <- Listener
    Recloses <- Nobody
SPECIFICATION FairSessionsSpec
INVARIANTS SessionsTypeOK CountAccounting LeftoverEntries OpenSessionsFound
PROPERTIES CloseReachesEntries ClosedSessionsEnd
CHECK_DEADLOCK FALSE
