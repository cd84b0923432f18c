\* The v2 chaining buffer and its shutdown.
CONSTANTS
    r1 = r1
    r2 = r2
    r3 = r3
    Req <- MCReq
    RequestBufSize = 1
SPECIFICATION Spec
\* After main returns the process has exited: nothing runs any more.
CHECK_DEADLOCK FALSE
INVARIANTS
    TypeOK
    JobsAccountedFor
PROPERTIES
    EnqueuedAnswered
    ShutdownCompletes
