CONSTANTS
    t1 = t1
    t2 = t2
    t3 = t3
    p1 = p1
    p2 = p2
    Inner = Inner
    Caller = {t1, t2, t3}
    Pid = {p1}
    Target = {p1, Inner}
    Flag = {2}
    Limit = 3
    MaxMsgs = 5
CHECK_DEADLOCK FALSE
SPECIFICATION Spec
SYMMETRY CallerSymmetry
INVARIANT TypeOK
INVARIANT RefusedIsNotSent
INVARIANT NoMissedWakeup
