SPECIFICATION Spec
CONSTANTS
    Flows = {"first", "second"}
    Endpoints <- MCEndpoints
    LegacyIds = {"sensor.backup_mode_raw", "sensor.total_dc_power", "switch.backup_mode"}
    Suggested = {"sensor.total_dc_power", "switch.backup_mode"}
    MaxReturns = 1
    MaxLinkFaults = 1
INVARIANTS
    TypeOK
    OneEntryPerInverter
    EntryWasProbed
    MissedOnlyByRace
    HeldByClaimants
CHECK_DEADLOCK FALSE
