CONSTANTS
    s1 = s1
    p1 = p1
    p2 = p2
    q = q
    b = b
    NoEvent = NoEvent
    Session <- Sessions
    Sender <- Senders
    Event <- Events
    OutboxSize = 1
    Stalls <- Sessions
    Breaks <- Sessions
    sessionOf <- OnFirst
    payload <- Payloads
    Precedes <- FirstThenSecond
    addressees <- Everyone
SPECIFICATION LiveEventsSpec
INVARIANTS EventsTypeOK NoPanic AckedRecorded
PROPERTIES OutboxDelivers EventsAnswered CallsReturn WritersEnd
CHECK_DEADLOCK FALSE
