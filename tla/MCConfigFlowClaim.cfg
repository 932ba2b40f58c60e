SPECIFICATION Spec
CONSTANTS
    Flows = {"first", "second"}
    Endpoints <- MCEndpoints
    LegacyIds = {"sensor.backup_mode_raw", "sensor.total_dc_power", "switch.backup_mode"}
    Suggested = {"sensor.total_dc_power", "switch.backup_mode"}
    MaxReturns = 0
    MaxLinkFaults = 0
INVARIANT
    ClaimNeverMisses
CHECK_DEADLOCK FALSE
