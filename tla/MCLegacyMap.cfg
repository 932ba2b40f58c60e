SPECIFICATION Spec
CONSTANTS
    DeviceFields <- MCDeviceFields
    LegacyEntries <- MCLegacyEntries
    Manual <- MCManual
    Acknowledged = {"status_reactive_power"}
INVARIANTS
    EntriesAreAccounted
    PassedKeepsStatistics
    PassedReadsTheRegister
