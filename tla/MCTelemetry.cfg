SPECIFICATION Spec
CONSTANTS
    Fields <- AllFields
    Components = {1, 2, 3, 4, 5, 6, 7, 8, 9}
    Spaces = {"input", "holding"}
    MaxSpan <- max_span
    Variants = {}
    None = None
    Resolutions <- MCResolutions
    PlanOf <- MCPlanOf
    Powers <- MCPowers
    MaxChanges = 2
    MaxFaults = 1
INVARIANTS
    TelemetryTypeOK
    ConsumptionIsTrue
    StringPowerIsTrue
    PhasePowerIsBounded
    DirectionsAreTrue
    ChargeIsBounded
    ChargeIsOfThisUpdate
