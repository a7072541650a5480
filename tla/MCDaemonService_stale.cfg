CONSTANTS
    c1 = c1
    u1 = u1
    u2 = u2
    u3 = u3
    None = None
    Unsaved = Unsaved
    Caller = {c1}
    Uuid <- MCUuid
    Text <- MCText
    ByteLen <- MCByteLen
    Trimmed <- MCTrimmed
    StartsWith <- MCStartsWith
    Policies <- MCPolicies
    Settings <- MCSettings
    I32Max = 4
    Offsets <- MCOffsets
    ChannelCap = 1
    MaxFlushes = 1
SYMMETRY UuidSymmetry
SPECIFICATION Spec
PROPERTY StaleEventsHarmless
