CONSTANTS
    t1 = t1
    t2 = t2
    t3 = t3
    p1 = p1
    p2 = p2
    Inner = Inner
    Caller = {t1, t2}
    Pid = {p1, p2}
    Target = {p1, p2, Inner}
    Flag = {2}
    Limit = 4
    MaxMsgs = 4
CHECK_DEADLOCK FALSE
SPECIFICATION FairSpec
INVARIANT SentInOrder
INVARIANT PidsTakeTurns
PROPERTY QueuedIsSent
PROPERTY EnqueueReturns
