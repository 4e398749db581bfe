CONSTANTS
    m = m
    Listener <- OneListener
    Queued <- OneListener
    QueueSize = 1
    listenerQueueSize = 1
    MaxLeaderEvents = 3
    MaxMemberEvents = 2
SPECIFICATION LiveListenersSpec
INVARIANTS ListenersTypeOK LatestHeard
PROPERTIES LeaderFirst BroadcastsReturn ListenersEnd AddersEnd
CHECK_DEADLOCK FALSE
