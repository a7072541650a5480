CONSTANTS
    None = None
    TriggerCap = 1
    EventCap = 1
    MaxPresses = 2
    MaxPopups = 3
SPECIFICATION FairSpec
INVARIANTS
    TypeOK
    TrackedIsShown
PROPERTIES
    OrphansNeedOverlap
    EveryPressIsTaken
