CONSTANTS
    a1 = a1
    a2 = a2
    r1 = r1
    r2 = r2
    r3 = r3
    m1 = m1
    m2 = m2
    None = None
    Looper = Looper
    Sender = Sender
    Apps = {a1}
    Request = {r1}
    Mac = {m1}
    MaxConnId = 1
    MaxConnCount = 1
    MaxAccepts = 0
    OptionSide <- AnySide
    MaxCalls = 1
    MaxFrames = 2
    PeerFrame <- AllFrames
CHECK_DEADLOCK FALSE
SPECIFICATION FairSpec
INVARIANT TypeOK
 
INVARIANT NoReferenceLeaked
PROPERTY ClosedSocketForgotten
PROPERTY FoundConnectionCloses
