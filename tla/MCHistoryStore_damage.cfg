CONSTANTS
    none = none
    short = short
    long = long
    Absent = Absent
    Damaged = Damaged
    Content <- MCContent
    NoItems = none
    Size <- MCSize
    Evictions <- MCEvictions
    Indices = {0, 1}
    DamageTargets = {"primary", "state"}
    MaxDamages = 2
SPECIFICATION Spec
INVARIANT TypeOK
PROPERTIES
    CompletedSaveReturns
    OnlyDamageLoses
    InMemoryKeepsHistory
    ImplementsRegister
