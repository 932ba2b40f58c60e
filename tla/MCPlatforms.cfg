SPECIFICATION Spec
CONSTANTS
    Fields <- MCFields
    Components = {1, 2, 3, 4, 5, 6, 7, 8, 9}
    Spaces = {"input", "holding"}
    MaxSpan <- MCMaxSpan
    Variants <- MCVariants
    Entries = {"roof", "garage"}
INVARIANTS
    OneEntityPerField
    IdsKeepTheirField
