CONSTANTS
    w1 = w1
    s1 = s1
    s2 = s2
    s3 = s3
    NoStream = NoStream
    Empty = Empty
    WorkerID <- OneID
    Stream <- ThreeStreams
    ids <- SameWorker
    Repeats <- Nobody
    Faulty <- ThreeStreams
    Closer <- Nobody
    Recloses <- Nobody
SPECIFICATION SessionsSpec
INVARIANTS OneSessionPerWorker
CHECK_DEADLOCK FALSE
