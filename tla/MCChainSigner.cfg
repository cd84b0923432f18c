CONSTANTS
    r1 = r1
    r2 = r2
    r3 = r3
    u1 = u1
    u2 = u2
    Req <- MCReq
    Uid <- MCUid
    Zero = Zero
    Empty = Empty
    None = None
    InitSig <- MCInitSig
    MaxCrash = 1
SPECIFICATION Spec
\* The server idles once every request is answered: no deadlock check.
CHECK_DEADLOCK FALSE
INVARIANTS
    TypeOK
    ChainLinked
    CommitOnlyAfterAccept
    ReceiptsNoFork
PROPERTIES
    RefinesChainLog
    AllAnswered
