\* Kills and shutdown signals at any time, one restart.
CONSTANTS
    r1 = r1
    r2 = r2
    u1 = u1
    Zero = Zero
    None = None
    Req <- MCReq
    Uid <- MCUid
    QCap = 1
    MaxBoot = 1
    MaxFault = 1
    EarlySignal = TRUE
SPECIFICATION Spec
\* After the last allowed restart the process stays down.
CHECK_DEADLOCK FALSE
INVARIANTS
    TypeOK
PROPERTIES
    AllAnswered
