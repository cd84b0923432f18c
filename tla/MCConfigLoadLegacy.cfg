\* The legacy Config.Load over every combination of the inputs above.
CONSTANTS
    Garbled = Garbled
    NoURL = NoURL
    SourceContents <- MCSourceContents
SPECIFICATION Spec
\* Load returns: a run ends in its "done" state.
CHECK_DEADLOCK FALSE
INVARIANTS
    TypeOK
