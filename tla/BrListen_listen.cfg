CONSTANTS
    User = User
    Stack = Stack
    MaxThreads = 4
    MaxCalls = 3
    MaxFaults = 3
    TRY_OPEN_SERVER_COUNT = 2
CHECK_DEADLOCK FALSE
SPECIFICATION FairSpec
INVARIANT TypeOK
 
PROPERTY StoppedThreadsLeave
