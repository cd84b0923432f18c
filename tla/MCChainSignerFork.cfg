CONSTANTS
    r1 = r1
    r2 = r2
    r3 = r3
    u1 = u1
    u2 = u2
    Req <- MCReq2
    Uid <- MCUid1
    Zero = Zero
    Empty = Empty
    None = None
    InitSig <- MCInitSig1
    MaxCrash = 0
SPECIFICATION Spec
CHECK_DEADLOCK FALSE
INVARIANTS
    PublishedNoFork
