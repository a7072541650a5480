CONSTANTS
    c1 = c1
    c2 = c2
    u1 = u1
    u2 = u2
    u3 = u3
    None = None
    Unsaved = Unsaved
    Caller = {c1}
    Uuid <- MCUuid
    Text <- MCText
    ByteLen <- MCByteLen
    Trimmed <- MCTrimmed
    StartsWith = {}
    Policies <- TwoPolicy
    Settings <- TwoSetting
    I32Max = 4
    Offsets = {1}
    ChannelCap = 1
    MaxFlushes = 1
CONSTRAINT CopiedTexts
SYMMETRY UuidSymmetry
CHECK_DEADLOCK FALSE
SPECIFICATION LifecycleSpec
PROPERTIES
    SavedBeforeExit
