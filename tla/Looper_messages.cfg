CONSTANTS
    p1 = p1
    p2 = p2
    w1 = w1
    w2 = w2
    Poster = {p1, p2}
    What = {w1}
    Delay = {0, 1}
    Early = FALSE
    MaxMsgs = 3
    MaxRemoves = 1
    MaxTime = 1
CHECK_DEADLOCK FALSE
SPECIFICATION FairSpec
INVARIANT TypeOK
INVARIANT HandledInOrder
INVARIANT RemovedIsNotHandled
 
PROPERTY PostedIsHandled
PROPERTY DestroyReturns
