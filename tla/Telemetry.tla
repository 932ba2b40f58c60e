----------------------------- MODULE Telemetry -----------------------------
(***************************************************************************)
(* The values that the library computes from the registers it has polled:  *)
(* decoding (data_model.py) and the computed properties of the subsystems. *)
(*                                                                         *)
(* An update is many reads, and the house goes on between them.  A value   *)
(* computed from several fields is true of some moment only when all of    *)
(* them came with the same read, or when it is stated so as not to need    *)
(* one moment.  Which fields come together follows from their addresses,   *)
(* max_span, and the plan with the fewest round trips.                     *)
(***************************************************************************)
EXTENDS RegisterTable, Sequences

CONSTANTS
    None,          \* Python's None
    Resolutions,   \* the sets of fields that polling may have settled on
    PlanOf(_),     \* the blocks in which a set of fields is read, one by one
    Powers,        \* battery and grid powers the house may have
    MaxChanges,    \* bound: changes in the house
    MaxFaults      \* bound: updates that fail

VARIABLES
    resolved,  \* the fields that are polled
    phase,     \* the update: "idle", "reading", "updated" or "failed"
    next,      \* the block of the plan that is read next
    house,     \* house[n]: what the registers of field n stand for
    consumed,  \* what the household has really consumed: daily and total
    attr,      \* attr[n]: the decoded value of the component's attribute
    during,    \* history: the house at each moment since the update began
    changes, faults  \* how often each bounded event happened

Plans == [R \in Resolutions |-> PlanOf(R)]

(* The fields that are left to read before the i-th block of the plan. *)
Left(R, i) == {f \in R : \A j \in 1..(i - 1) : ~Covers(Plans[R][j], f)}

(* The plan is the one with the fewest round trips, and reads everything.    *)
ASSUME PlansAssumption ==
    /\ MaxSpan = max_span
    /\ \A R \in Resolutions :
          /\ R \subseteq AllFields
          /\ \A i \in 1..Len(Plans[R]) :
                Left(R, i) # {} /\ Plans[R][i] = NextBlock(Left(R, i))
          /\ Len(Plans[R]) \in Nat
          /\ Left(R, Len(Plans[R]) + 1) = {}

Word == 65536

(* The house keeps to what its registers can hold: a power has 32 bits, and a *)
(* day brings no more changes than a daily counter can count.                 *)
ASSUME HouseAssumption ==
    /\ None \notin Int
    /\ \A p \in Powers : p \in Int /\ 0 - 2147483647 <= p /\ p <= 2147483647
    /\ MaxChanges \in Nat /\ MaxChanges < Word /\ MaxFaults \in Nat

vars == <<resolved, phase, next, house, consumed, attr, during, changes, faults>>

(* The fields that the computed properties use, and where they are. *)
Input == [daily_pv_generation |-> 13001, daily_exported_energy |-> 13044,
          daily_imported_energy |-> 13035, daily_battery_charge |-> 13039,
          daily_battery_discharge |-> 13025,
          total_pv_generation |-> 13002, total_exported_energy |-> 13045,
          total_imported_energy |-> 13036, total_battery_charge |-> 13040,
          total_battery_discharge |-> 13026,
          mppt1_voltage |-> 5010, mppt1_current |-> 5011, total_dc_power |-> 5016,
          phase_a_voltage |-> 5018, phase_a_current |-> 13030,
          power |-> 5213, export_power_raw |-> 13009,
          level |-> 13022, state_of_health |-> 13023,
          capacity_high_precision |-> 5638]

Holding == [max_soc |-> 13057, min_soc |-> 13058]

Attributes == DOMAIN Input \cup DOMAIN Holding

FieldOf[n \in Attributes] ==
    CHOOSE f \in AllFields :
        IF n \in DOMAIN Input THEN f.space = "input" /\ f.addr = Input[n]
                              ELSE f.space = "holding" /\ f.addr = Holding[n]

Signed == {"power", "export_power_raw", "phase_a_current"}

-----------------------------------------------------------------------------
(* Words and values *)

(* A slip of the word order: the high word first. *)
Int32HighFirst(ws) ==
    Word * (IF ws[1] < Word \div 2 THEN ws[1] ELSE ws[1] - Word) + ws[2]

(* uint32_word_swapped and int32_word_swapped: the low word comes first. *)
Uint32(ws) == ws[1] + Word * ws[2]
(* A slip: the register is not signed. *)
Int16Unsigned(ws) == ws[1]

(* int16 *)
Int16(ws) == IF ws[1] < Word \div 2 THEN ws[1] ELSE ws[1] - Word
Int32(ws) == ws[1] + Word * (IF ws[2] < Word \div 2 THEN ws[2] ELSE ws[2] - Word)

(* What the inverter puts into one register, or two. *)
Words(n, v) == IF FieldOf[n].count = 1
               THEN <<v % Word>> ELSE <<v % Word, (v \div Word) % Word>>

(* The nan markers: of the signed 32-bit and the unsigned 16-bit fields that *)
(* declare one.                                                              *)
Nan == [n \in {"export_power_raw", "daily_exported_energy"} |->
          IF n \in Signed THEN 2147483647 ELSE 65535]

Number(n, ws) ==
    IF FieldOf[n].count = 1
    THEN IF n \in Signed THEN Int16(ws) ELSE ws[1]
    ELSE IF n \in Signed THEN Int32(ws) ELSE Uint32(ws)

Decode(n, ws) == IF n \in DOMAIN Nan /\ Number(n, ws) = Nan[n] THEN None
                 ELSE Number(n, ws)

-----------------------------------------------------------------------------
(* Computed properties; quantities are in units of the raw registers *)

(* Rounding to the nearest. *)
Round(num, den) == (2 * num + den) \div (2 * den)

Known(values) == None \notin values

(* daily_consumed_energy and total_consumed_energy *)
ConsumedEnergy(pv, exported, imported, charge, discharge) ==
    IF Known({pv, exported, imported, charge, discharge})
    THEN pv - exported + imported - charge + discharge
    ELSE None

daily_consumed_energy ==
    ConsumedEnergy(attr["daily_pv_generation"], attr["daily_exported_energy"],
                   attr["daily_imported_energy"], attr["daily_battery_charge"],
                   attr["daily_battery_discharge"])

total_consumed_energy ==
    ConsumedEnergy(attr["total_pv_generation"], attr["total_exported_energy"],
                   attr["total_imported_energy"], attr["total_battery_charge"],
                   attr["total_battery_discharge"])

(* A slip: one of the two scales is forgotten. *)
StringPowerSlip(voltage, current) ==
    IF Known({voltage, current}) THEN Round(voltage * current, 10) ELSE None

(* PVStrings._string_power, and InverterStatus._phase_power, which is the same *)
StringPower(voltage, current) ==
    IF Known({voltage, current}) THEN Round(voltage * current, 100) ELSE None

(* A slip: nothing keeps the other direction at zero. *)
PositivePartSlip(v) == IF v = None THEN None ELSE v

(* max(v, 0) and max(-v, 0) *)
PositivePart(v) == IF v = None THEN None ELSE IF v > 0 THEN v ELSE 0
NegativePart(v) == IF v = None THEN None ELSE IF v < 0 THEN 0 - v ELSE 0

(* v > 0 and v < 0, for the flags *)
IsPositive(v) == IF v = None THEN None ELSE v > 0
IsNegative(v) == IF v = None THEN None ELSE v < 0

charging_power    == NegativePart(attr["power"])
discharging_power == PositivePart(attr["power"])
import_power      == NegativePart(attr["export_power_raw"])
export_power      == PositivePart(attr["export_power_raw"])

is_pv_generating       == IsPositive(attr["total_dc_power"])
is_battery_charging    == IsNegative(attr["power"])
is_battery_discharging == IsPositive(attr["power"])
is_importing_from_grid == IsNegative(attr["export_power_raw"])
is_exporting_to_grid   == IsPositive(attr["export_power_raw"])

mppt1_power == StringPower(attr["mppt1_voltage"], attr["mppt1_current"])

phase_a_power == StringPower(attr["phase_a_voltage"], attr["phase_a_current"])

(* A slip: the level is scaled to the upper limit, not to the band. *)
NominalLevelSlip(level, min, max) ==
    IF Known({level, min, max}) THEN min + Round(max * level, 1000) ELSE None

NominalLevel(level, min, max) ==
    IF Known({level, min, max}) THEN min + Round((max - min) * level, 1000) ELSE None

UsableCharge(capacity, level, min, max) ==
    IF Known({capacity, level, min, max})
    THEN Round(capacity * (max - min) * level, 1000000) ELSE None

HealthRatedCharge(charge, health) ==
    IF Known({charge, health}) THEN Round(charge * health, 1000) ELSE None

battery_level_nominal ==
    NominalLevel(attr["level"], attr["min_soc"], attr["max_soc"])

battery_usable_charge_kwh ==
    UsableCharge(attr["capacity_high_precision"], attr["level"],
                 attr["min_soc"], attr["max_soc"])

battery_health_rated_charge_kwh ==
    HealthRatedCharge(battery_usable_charge_kwh, attr["state_of_health"])

-----------------------------------------------------------------------------
(* The house, as seen at its registers *)

Snapshot ==
    [daily |-> consumed.daily, total |-> consumed.total,
     string |-> Round(house["mppt1_voltage"] * house["mppt1_current"], 100),
     voltage |-> house["phase_a_voltage"], current |-> house["phase_a_current"],
     level |-> house["level"], band |-> <<house["min_soc"], house["max_soc"]>>,
     dc |-> house["total_dc_power"], battery |-> house["power"], grid |-> house["export_power_raw"]]

Sources == {"pv_generation", "imported_energy", "battery_discharge"}
Sinks   == {"exported_energy", "battery_charge"}

Daily == [pv_generation |-> "daily_pv_generation",
          imported_energy |-> "daily_imported_energy",
          battery_discharge |-> "daily_battery_discharge",
          exported_energy |-> "daily_exported_energy",
          battery_charge |-> "daily_battery_charge"]

Total == [pv_generation |-> "total_pv_generation",
          imported_energy |-> "total_imported_energy",
          battery_discharge |-> "total_battery_discharge",
          exported_energy |-> "total_exported_energy",
          battery_charge |-> "total_battery_charge"]

Change ==
    /\ changes < MaxChanges
    /\ changes' = changes + 1
    /\ during' = during \cup {Snapshot'}
    /\ UNCHANGED <<resolved, phase, next, attr, faults>>

(* A unit of energy goes from a source to a sink, or to the household. *)
Flow(source, sink) ==
    LET meters == {source, sink} \cap DOMAIN Daily
        counters == {Daily[m] : m \in meters} \cup {Total[m] : m \in meters}
    IN  /\ house' = [n \in Attributes |-> IF n \in counters THEN house[n] + 1 ELSE house[n]]
        /\ consumed' = IF sink = "household"
                       THEN [daily |-> consumed.daily + 1, total |-> consumed.total + 1]
                       ELSE consumed
        /\ Change

Midnight ==
    /\ house' = [n \in Attributes |-> IF \E m \in DOMAIN Daily : n = Daily[m]
                                      THEN 0 ELSE house[n]]
    /\ consumed' = [consumed EXCEPT !.daily = 0]
    /\ Change

(* The values of these fields change together. *)
Set(values) ==
    /\ house' = [n \in Attributes |-> IF n \in DOMAIN values THEN values[n] ELSE house[n]]
    /\ house' # house
    /\ UNCHANGED consumed
    /\ Change

(* The sun on an inverter with a single string. *)
Weather ==
    \E v \in {0, 3500, 3601} :
        Set([mppt1_voltage |-> v, mppt1_current |-> v \div 40,
             total_dc_power |-> Round(v * (v \div 40), 100)])

(* The grid's voltage and the inverter's current, which flows either way. *)
Phase ==
    \/ \E v \in {2300, 2415} : Set([phase_a_voltage |-> v])
    \/ \E c \in {60, 0 - 60} : Set([phase_a_current |-> c])

Battery ==
    \/ \E p \in Powers : Set([power |-> p])
    \/ \E l \in {0, 333, 1000} : Set([level |-> l])

Grid == \E p \in Powers \cup {Nan["export_power_raw"]} : Set([export_power_raw |-> p])

SettingsChange ==
    \/ \E v \in {500, 900, 1000} : Set([max_soc |-> v])
    \/ \E v \in {0, 50, 500} : Set([min_soc |-> v])

House ==
    \/ \E source \in Sources : Flow(source, "household")
    \/ \E sink \in Sinks : Flow("pv_generation", sink)
    \/ Flow("imported_energy", "battery_charge")
    \/ Flow("battery_discharge", "exported_energy")
    \/ Midnight \/ Weather \/ Phase \/ Battery \/ Grid \/ SettingsChange

-----------------------------------------------------------------------------
(* One update of the fields that are resolved *)

StartUpdate ==
    /\ phase # "reading"
    /\ phase' = "reading"
    /\ next' = 1
    /\ during' = {Snapshot}
    /\ UNCHANGED <<resolved, house, consumed, attr, changes, faults>>

ReadBlockOfPlan ==
    /\ phase = "reading"
    /\ next <= Len(Plans[resolved])
    /\ next' = next + 1
    /\ attr' = [n \in Attributes |->
                  IF FieldOf[n] \in resolved /\ Covers(Plans[resolved][next], FieldOf[n])
                  THEN Decode(n, Words(n, house[n])) ELSE attr[n]]
    /\ UNCHANGED <<resolved, phase, house, consumed, during, changes, faults>>

FinishUpdate ==
    /\ phase = "reading"
    /\ next > Len(Plans[resolved])
    /\ phase' = "updated"
    /\ UNCHANGED <<resolved, next, house, consumed, attr, during, changes, faults>>

(* A slip: the error is swallowed, and the update taken for finished. *)
LinkErrorSwallowed ==
    /\ phase = "reading"
    /\ faults < MaxFaults
    /\ faults' = faults + 1
    /\ phase' = "updated"
    /\ UNCHANGED <<resolved, next, house, consumed, attr, during, changes>>

LinkError ==
    /\ phase = "reading"
    /\ faults < MaxFaults
    /\ faults' = faults + 1
    /\ phase' = "failed"
    /\ UNCHANGED <<resolved, next, house, consumed, attr, during, changes>>

-----------------------------------------------------------------------------
(* A house whose lifetime counters are about to need their high word. *)
Start == [level |-> 550, state_of_health |-> 993, max_soc |-> 900,
          capacity_high_precision |-> 960, phase_a_voltage |-> 2300,
          total_pv_generation |-> 65535, total_imported_energy |-> 65535]

Init ==
    /\ resolved \in Resolutions
    /\ phase = "idle"
    /\ next = 1
    /\ house = [n \in Attributes |-> IF n \in DOMAIN Start THEN Start[n] ELSE 0]
    /\ attr = [n \in Attributes |-> None]
    /\ consumed = [daily |-> 0, total |-> 131070]
    /\ during = {Snapshot}
    /\ changes = 0 /\ faults = 0

Next == House \/ StartUpdate \/ ReadBlockOfPlan \/ FinishUpdate \/ LinkError

Spec == Init /\ [][Next]_vars

-----------------------------------------------------------------------------
(* Properties *)

(* Type correctness: a decoded value is one that its registers can hold. *)
TelemetryTypeOK ==
    /\ resolved \in Resolutions
    /\ phase \in {"idle", "reading", "updated", "failed"}
    /\ next \in 1..(Len(Plans[resolved]) + 1)
    /\ \A n \in Attributes :
          LET ws == Words(n, house[n])
          IN  /\ \A i \in DOMAIN ws : ws[i] \in 0..(Word - 1)
              /\ attr[n] # None => attr[n] = Number(n, Words(n, attr[n]))
    /\ changes \in 0..MaxChanges /\ faults \in 0..MaxFaults

(* After an update the computed consumption is what the household had really *)
(* consumed at one moment of that update: its five counters are never torn   *)
(* between two reads, across midnight, or where a counter needs its high     *)
(* word.  (energy.py:72-103)                                                 *)
ConsumptionIsTrue ==
    phase = "updated" =>
        /\ daily_consumed_energy # None
             => \E s \in during : daily_consumed_energy = s.daily
        /\ total_consumed_energy # None
             => \E s \in during : total_consumed_energy = s.total

(* The power of a string is voltage times current of one moment, and the     *)
(* flag of the total DC power is of the same moment.  (pv.py:25-56)          *)
StringPowerIsTrue ==
    phase = "updated" /\ mppt1_power # None =>
        \E s \in during : /\ mppt1_power = s.string
                          /\ is_pv_generating # None => is_pv_generating = (s.dc > 0)

(* Voltage and current of a phase come with different reads.  The power is   *)
(* true of one moment of the update unless both have changed meanwhile; then *)
(* it is still the product of a voltage and a current of that update.        *)
(* (inverter.py:44-54)                                                       *)
PhasePowerIsBounded ==
    phase = "updated" /\ phase_a_power # None =>
        LET Voltages == {s.voltage : s \in during}
            Currents == {s.current : s \in during}
            PowerOf(v, c) == Round(v * c, 100)
        IN  IF Cardinality(Voltages) = 1 \/ Cardinality(Currents) = 1
            THEN \E s \in during : phase_a_power = PowerOf(s.voltage, s.current)
            ELSE \E v \in Voltages, c \in Currents : phase_a_power = PowerOf(v, c)

(* The two directions of battery and grid power belong to one power that was *)
(* there during the update, never both differ from zero, and agree with the  *)
(* flags.  (battery.py:54-80, grid.py:78-104)                                *)
DirectionsAreTrue ==
    phase = "updated" =>
        /\ attr["power"] # None =>
              /\ charging_power = 0 \/ discharging_power = 0
              /\ is_battery_charging = (charging_power > 0)
              /\ is_battery_discharging = (discharging_power > 0)
              /\ \E s \in during : discharging_power - charging_power = s.battery
        /\ attr["export_power_raw"] # None =>
              /\ import_power = 0 \/ export_power = 0
              /\ is_importing_from_grid = (import_power > 0)
              /\ is_exporting_to_grid = (export_power > 0)
              /\ \E s \in during : export_power - import_power = s.grid

(* Level, capacity, health and limits of the battery come with different     *)
(* reads, and are of different moments; yet the nominal level stays within   *)
(* the limits, the usable charge within the capacity, and the health-rated   *)
(* charge within the usable one.  (battery.py:82-110)                        *)
ChargeIsBounded ==
    /\ battery_level_nominal # None
         => battery_level_nominal \in attr["min_soc"]..attr["max_soc"]
    /\ battery_usable_charge_kwh # None
         => battery_usable_charge_kwh \in 0..attr["capacity_high_precision"]
    /\ battery_health_rated_charge_kwh # None
         => battery_health_rated_charge_kwh \in 0..battery_usable_charge_kwh

(* The nominal level is of one moment of the update when either the level or *)
(* the band of usable charge did not change meanwhile.  When both did, it is *)
(* a level of the update within a band of the update: both limits come with  *)
(* one read, the level with an earlier one.  (sungrow.py:158-163,            *)
(* battery.py:82-88)                                                         *)
ChargeIsOfThisUpdate ==
    phase = "updated" /\ battery_level_nominal # None =>
        LET Levels == {s.level : s \in during}
            Bands == {s.band : s \in during}
            Shown(l, b) == b[1] + Round((b[2] - b[1]) * l, 1000)
        IN  IF Cardinality(Levels) = 1 \/ Cardinality(Bands) = 1
            THEN \E s \in during : battery_level_nominal = Shown(s.level, s.band)
            ELSE \E l \in Levels, b \in Bands : battery_level_nominal = Shown(l, b)
=============================================================================
