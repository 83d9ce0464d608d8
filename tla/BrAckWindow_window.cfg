CONSTANTS
    c1 = c1
    c2 = c2
    Conn = {c1, c2}
    MIN_WINDOWS = 2
    MAX_WINDOWS = 4
    DEFAULT_WINDOWS = 3
    WINDOWS_ACK_FAILED_TIMES = 1
    MaxSeq = 12
CHECK_DEADLOCK FALSE
SPECIFICATION Spec
INVARIANT TypeOK
INVARIANT WithinWindow
INVARIANT OneRequestOpen
INVARIANT TimeoutsRestoreWindow
