SPECIFICATION PlannedSpec
CONSTANTS
    Fields <- AllFields
    Components = {1, 2, 3, 4, 5, 6, 7, 8, 9}
    Spaces = {"input", "holding"}
    MaxSpan <- max_span
    Variants <- MCSinglePhase
    Tasks = {"coordinator"}
INVARIANT
    OnlyUnansweredComponentsNarrowed
