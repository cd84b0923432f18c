\* Config.Load: a malformed auth.json entry crashes it.
CONSTANTS
    d1 = d1
    d2 = d2
    t1 = t1
    t2 = t2
    Blank = Blank
    Garbled = Garbled
    Device <- MCDevice
    Token <- MCToken
    SourceContents <- MCSourceContents
    AuthContents <- MCAuthContents
    IdentityContents <- MCIdentityContents
SPECIFICATION Spec
\* Load returns: a run ends in its "done" state.
CHECK_DEADLOCK FALSE
INVARIANTS
    NoPanic
