SPECIFICATION CoordinatorSpec
CONSTANTS
    Fields <- MCFields
    Components = {1, 2}
    Spaces = {"input", "holding"}
    MaxSpan = 3
    Variants <- MCVariantsGap
    Tasks = {"coordinator"}
    Values = {plain, odd}
    Undocumented = {odd}
    Users = {u1}
    MaxWrites = 1
    MaxPanel = 1
    MaxFaults = 1
    MaxReloads = 1
    MaxRefusals = 1
    RunningState <- MCRunningState
INVARIANTS
    CoordinatorTypeOK
    MissingIsNoOutage
    DropsAreOfThisDevice
    StaleIsTemporary
PROPERTIES
    ShownIsRecent
    PollingIsSettled
    ViewKept
