SPECIFICATION Spec
CONSTANTS
    Fields <- MCFields
    Components = {1, 2, 3}
    Spaces = {"input", "holding"}
    MaxSpan = 5
    Variants <- MCVariants
    Tasks = {"coordinator", "script"}
INVARIANTS
    TypeOK
    DropsAreJustified
    UpdatedMeansServed
PROPERTIES
    RetriesNarrow
    UpdateEnds
    PromiseKept
