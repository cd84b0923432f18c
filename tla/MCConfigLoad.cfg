\* Config.Load started from any working directory; identities.json honoured
\* whenever the working directory is the configuration directory.
CONSTANTS
    d1 = d1
    d2 = d2
    t1 = t1
    t2 = t2
    Blank = Blank
    Garbled = Garbled
    Device <- MCDevice
    Token <- MCToken
    SourceContents <- MCSourceContents
    AuthContents <- MCAuthContents
    IdentityContents <- MCIdentityContents
SPECIFICATION Spec
\* Load returns: a run ends in its "done" state.
CHECK_DEADLOCK FALSE
INVARIANTS
    TypeOK
    IdentitiesHonouredFromConfigDir
