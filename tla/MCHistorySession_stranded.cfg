CONSTANTS
    u1 = u1
    u2 = u2
    u3 = u3
    u4 = u4
    Uuid <- MCUuid
    Text <- MCText
    ByteLen <- MCByteLen
    Trimmed <- MCTrimmed
    StartsWith <- MCStartsWith
    Policies <- PlainPolicies
    I32Max <- MCI32Max
    Offsets <- MCOffsets
SYMMETRY UuidSymmetry
SPECIFICATION Spec
INVARIANT ActiveDesignatesEntry
