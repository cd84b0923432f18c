\* Shutdown signals at any time, also during startup.
CONSTANTS
    r1 = r1
    r2 = r2
    u1 = u1
    Zero = Zero
    None = None
    Req <- MCReq
    Uid <- MCUid
    QCap = 1
    MaxBoot = 1
    MaxFault = 0
    EarlySignal = TRUE
SPECIFICATION Spec
\* After the last allowed restart the process stays down.
CHECK_DEADLOCK FALSE
INVARIANTS
    ExitPersistsAll
