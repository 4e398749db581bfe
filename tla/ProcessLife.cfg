CONSTANTS
    w1 = w1
    s1 = s1
    NoStream = NoStream
    Empty = Empty
    WorkerID <- OneID
    Stream <- OneStream
    ids <- OneWorker
    Repeats <- Nobody
    Faulty <- Nobody
    Closer <- ListenerAndShutdown
    Recloses <- ListenerAndShutdown
SPECIFICATION LiveProcessSpec
INVARIANTS ProcessTypeOK RejoinsCluster EtcdStopsLast
PROPERTIES ProcessExits
CHECK_DEADLOCK FALSE
