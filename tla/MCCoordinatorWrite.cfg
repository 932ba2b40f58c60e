SPECIFICATION CoordinatorSpec
CONSTANTS
    Fields <- MCFieldsTwo
    Components = {1, 2}
    Spaces = {"input", "holding"}
    MaxSpan = 2
    Variants <- MCVariants
    Tasks = {"coordinator"}
    Values = {"old", "new", "odd"}
    Undocumented = {"odd"}
    Users = {"u1"}
    MaxWrites = 1
    MaxPanel = 0
    MaxFaults = 0
    MaxReloads = 1
    MaxRefusals = 0
    RunningState <- MCRunningState
INVARIANT
    WrittenIsShown
