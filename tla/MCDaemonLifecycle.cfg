CONSTANTS
    c1 = c1
    c2 = c2
    u1 = u1
    u2 = u2
    u3 = u3
    None = None
    Unsaved = Unsaved
    Caller = {c1, c2}
    Uuid = {u1}
    Text <- OneText
    ByteLen <- OneByteLen
    Trimmed <- OneTrimmed
    StartsWith = {}
    Policies <- OnePolicy
    Settings <- OneSetting
    I32Max = 4
    Offsets = {0}
    ChannelCap = 1
    MaxFlushes = 1
CHECK_DEADLOCK FALSE
SPECIFICATION LifecycleFairSpec
INVARIANTS
    LifecycleTypeOK
PROPERTIES
    ShutdownCompletes
    CallReturnsOrExit
