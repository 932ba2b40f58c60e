SPECIFICATION CoordinatorSpec
CONSTANTS
    Fields <- MCFieldsTwo
    Components = {1, 2}
    Spaces = {"input", "holding"}
    MaxSpan = 2
    Variants <- MCVariants
    Tasks = {"coordinator"}
    Values = {"plain", "odd"}
    Undocumented = {"odd"}
    Users = {"u1", "u2"}
    MaxWrites = 2
    MaxPanel = 1
    MaxFaults = 1
    MaxReloads = 1
    MaxRefusals = 0
    RunningState <- MCRunningState
PROPERTIES
    ShowsTheInverter
    CallsReturn
