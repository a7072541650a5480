CONSTANTS
    a = a
    p = p
    s = s
    i = i
    g = g
    None = None
    Text = {a, p, s, i, g}
    Parts <- MCParts
    UserSelections <- MCSelections
    Image = {i}
    Slow = {s}
    Garbled = {g}
    Writable = {a}
    MaxOffers = 3
    ChannelCap = 1
SPECIFICATION FairSpec
INVARIANTS
    TypeOK
    CapturedInOrder
    SeenWriteDisarms
PROPERTIES
    OnlySlotTheftForgets
    PromptSelectionSettles
