CONSTANTS
    None = None
    s1 = s1
    s2 = s2
    Sessions = {s1, s2}
    Owned = {s1}
    Active = {s1}
    Substantive = {s1}
    Languages = {"zh", "en"}
    Configs <- MCConfigs
    BatchSize = 2
    MaxRenames = 1
    MaxVersion = 1
    MaxGeneration = 2
SPECIFICATION Spec
INVARIANTS
    DoneInTheLanguage
    RunningIsInHand
    RenamedKeepsItsTopic
PROPERTIES
    OffMeansQuiet
    LockedStays
CHECK_DEADLOCK FALSE
