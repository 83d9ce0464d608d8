CONSTANTS
    a1 = a1
    a2 = a2
    r1 = r1
    r2 = r2
    r3 = r3
    m1 = m1
    m2 = m2
    None = None
    Looper = Looper
    Sender = Sender
    Apps = {a1, a2}
    Request = {r1, r2}
    Mac = {m1, m2}
    MaxConnId = 2
    MaxConnCount = 0
    MaxAccepts = 0
    OptionSide <- AnySide
    MaxCalls = 1
    MaxFrames = 0
    PeerFrame <- AllFrames
CHECK_DEADLOCK FALSE
SPECIFICATION Spec
SYMMETRY RequestSymmetry
INVARIANT AnsweredAtMostOnce
INVARIANT NoReferenceLeaked
 
