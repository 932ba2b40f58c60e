# Verification of ha-sungrow-shx

TLA+ specifications of the Home Assistant integration for Sungrow SHx hybrid
inverters, checked with TLC and proved with TLAPS. Paths are relative to the
repository; `sungrow/` stands for `src/custom_components/sungrow/`.

To check one configuration: `tlc -config MCSungrowSHx.cfg MCSungrowSHx`. To check
the proofs of one module: `tlapm CoordinatorProofs.tla`, and so for each of the eight
modules whose names end in `Proofs`.

## 1. The system

An inverter answers Modbus reads of *input* registers (telemetry) and *holding*
registers (settings). The device library declares the registers as fields of nine
components, and polls them in blocks. The integration polls the library on a
schedule, shows the fields as entities, and writes settings on service calls.

| Component | State | Operations | Talks to |
|---|---|---|---|
| Polling core, `sungrow_modbus/sungrow.py` | fields still resolved in each component | `async_update`, `_drop_fields_in`, start, stop | pooled reads of `modbus-connection` |
| Register map, `device_info.py`, `subsystems/*` | none; 99 fields over 9 components | derived values | field kinds |
| Field kinds, `data_model.py`, `metadata.py` | none | decode, encode, metadata | registers |
| Coordinator, `coordinator.py` | last success, scheduled refresh, debouncer (in Home Assistant) | `_async_update_data` | polling core; entities listen |
| Entities, `number.py`, `switch.py`, `select.py`, `sensor.py`, `binary_sensor.py`, `button.py` | their state in Home Assistant | read an attribute; write, then request a refresh | coordinator, component |
| Setup and unload, `__init__.py` | the config entry | claim a unit, first refresh, forward the platforms, unload | coordinator |
| Config flow, `config_flow.py` | the form shown, pending data, unique id | user, tcp or serial, probe, migrating, legacy naming | a temporary unit, entry list, entity registry |
| Legacy ids, `legacy_naming.py`, `entity.py` | none of their own; the entity registry | list of ids, candidate by platform, claim at setup | entity registry |
| Field index and units, `field_index.py`, `unit_mapping.py` | none | which field becomes which entity | platforms |
| Legacy map generator, `src/scripts/generate_legacy_entity_map.py` | none | matches YAML sensors to fields, offline | writes the JSON the legacy ids come from |

### What is hard

* **An unsupported block is blamed on somebody.** A pooled read spans several
  components, and the error names the block, not the register. The library drops
  fields of the *first* component in the block, and tries again; a wrong overlap
  test drops the wrong space, drops too much, or drops nothing and loops for ever.
* **A drop lasts** until the entry is reloaded, so what is dropped must be justified.
* **Refreshes race service calls.** A refresh takes many requests. A write may land
  between two of them, its answer may be lost, and the refresh it then requests is
  debounced by a cooldown or dropped because one is in flight.
* **Reloads** replace device and coordinator under service calls in progress.
* **The first refresh** may fail with a device half narrowed; the setup starts again.
* **Flows run side by side.** Each awaits a probe after it has checked the unique
  id; the registry of legacy ids is checked when a form is submitted and claimed
  much later, when the entry has been set up.
* **Buttons act late.** The inverter obeys some time after the command, and the
  refresh after the press may read the old running state.
* **Four platforms filter one index.** Nothing but their filters keeps a field from
  becoming two entities, or none, and the legacy map must give each entity the
  history of its own register, although both spaces use the same addresses.
* **Values change form.** A number is scaled, rounded and cut to 16 bits on its way
  into a register; ranges that are not declared default to 0..100000.

### What makes it correct

* polling core: only justified drops; success means that what is left is served;
  a missing register is never fatal; every retry makes progress; an update ends;
* coordinator: no stale value appears, and none turns unknown unread; the polled fields are settled before
  entities exist; a missing register is no outage; finally what is shown is what
  is in the inverter; service calls return;
* settings: what was accepted is shown again, in range, and the battery's two limits
  never pass each other;
* platforms and legacy ids: one entity for each public field, of the right kind;
  an entity id, and the history under it, never passes to another field; the committed map
  is current;
* config flow: no unique id twice; an entry is the endpoint that was probed; a
  claimed legacy id is held by its claimant.

`PROJECT.json` lists each hazard at its line, with the properties that cover it.

## 2. The modules

| Module | Models | Uses |
|---|---|---|
| `Registers` | fields, blocks, overlap, which blocks a plan may read | |
| `DeviceUpdate` | the abstract promise of `async_update` | `Registers` |
| `SungrowSHx` | `async_update` and `_drop_fields_in`, one step per request | `Registers`; `DeviceUpdate` by `INSTANCE` |
| `SungrowSHxProofs` | theorems about `SungrowSHx` | `SungrowSHx` |
| `RegisterTable` | the 99 declared fields, and the plan with the fewest round trips | `Registers` |
| `RegisterMap` | the loop over these fields | `SungrowSHx`, `RegisterTable` |
| `RegisterMapProofs` | theorems about `RegisterMap` | `RegisterMap`, `SungrowSHxProofs` |
| `Telemetry` | decoding, and the values computed from several fields | `RegisterTable` |
| `TelemetryProofs` | theorems about `Telemetry` | `Telemetry` |
| `InverterView` | what a loaded entry promises its user | |
| `Coordinator` | setup, unload, refreshes, entities, service calls, buttons | `SungrowSHx`; `InverterView` by `INSTANCE` |
| `CoordinatorProofs` | theorems about `Coordinator` | `Coordinator`, `SungrowSHxProofs` |
| `SettingValues` | the settings' ranges, scales and codes; what is written and shown | |
| `SettingValuesProofs` | theorems about `SettingValues` | `SettingValues` |
| `Platforms` | field index, six platforms, unique ids, legacy ids, entity registry | `RegisterTable` |
| `PlatformsProofs` | theorems about `Platforms` | `Platforms` |
| `LegacyMap` | the generator of `legacy_entity_map.json`, units and classes | |
| `LegacyMapProofs` | theorems about `LegacyMap` | `LegacyMap` |
| `ConfigFlow` | flows, probes, unique ids, entries, legacy ids in the registry | |
| `ConfigFlowProofs` | theorems about `ConfigFlow` | `ConfigFlow` |
| `MC...` | constants for TLC | |

### SungrowSHx

`resolved` is the union of `resolved_fields` of all components, `missing` the
registers this inverter lacks, `todo[t]` the fields that the call of
`ComponentGroup.async_update` in task `t` has still to read, `status[t]` where
the `while True` loop is or how it ended. A field is a record of the position of
its component in the tuple `components`, its space, first address and width.

| Code | Definition |
|---|---|
| `async_update` is called (76-88) | `StartUpdate` |
| a block is answered | `ReadServed` |
| a block is unsupported and named (89-91) | `ReadUnsupported`, by `DropFieldsIn` |
| an error without a block (90) | `ReadUnnamed` |
| any other `ModbusError` | `LinkError` |
| the group returns (92-93) | `FinishUpdate` |
| the set `hit` (104-110) | `Hit`, `Overlaps` |
| first component with a hit (102-112) | `FirstHit` |
| `restrict_fields` and retry (121) | first disjunct of `DropFieldsIn` |
| `return False`, `raise` (123, 91) | second disjunct of `DropFieldsIn` |

How `ComponentGroup` cuts fields into blocks is in another package. `Blocks`
therefore allows *every* block from one field still to read to another in the same
space, no wider than `max_span`, in any order; a planner that reads across gaps and
one that does not are both among them. An inverter refuses a block exactly when it
lacks one of its registers.

A few definitions come with a *slip* beside them: the same operator with a
mistake that is easily made in that code (no register space in the overlap test,
an end off by one, a drop without effect). They are in no specification. They are
there to be put in place of the definition they accompany, to see that the
properties notice.

### DeviceUpdate

The promise without blocks: an update narrows fields of one component at a time,
each `Near` a missing register; it succeeds only when everything resolved is
served; it ends. `PromiseKept` states that `SungrowSHx` implements it, with
`Phase` as refinement mapping: the three ways to fail are one.

### RegisterTable and RegisterMap

The tables are the declarations of `device_info.py` and `subsystems/`, by
component, space and width. `LayoutAssumption`: no register belongs to two fields,
no field is wider than a read, a component keeps to one space. `NextBlock` is the
plan of fewest round trips which the docstring of `SungrowSHx` asks for (12
requests for the complete map). Each of its steps is one the core allows
(`NextBlockFacts`, `PlannedInvariant`), so whatever is proved of every plan holds of this
map. Both are the model's: how the connection library plans is not in this repository.
`SpacesAssumption`: the library declares input and holding registers, and no others.

`settled` is history: an update of this device object has succeeded. Under *any*
plan a later update may still drop a field, because a block may read a gap that no
block had read before (`Coordinator` shows it). `PlanConverges` is what fixes that
for the plan with the fewest round trips: the same fields are cut into the same
blocks, so after the first success nothing is dropped any more.

`requests[t]` counts the reads that the update of `t` has sent (`PlannedRead`).
`RequestsAreBounded` limits it by `|Fields| * (dropped + 1)`: it is the safety
counterpart of `UpdateEnds`, with a number in place of fairness.

### Telemetry

One update after another over the plan of `RegisterTable`, while the house goes on
between the reads: energy flows, midnight, weather, voltage and current of a phase,
battery and grid power, settings.
`house` is what the registers stand for, `Words` how the inverter holds it (16-bit
words of full width, low word first), `attr` the decoded attributes, `consumed` what
the household has really consumed, which no register tells, and `during` (history)
the house at each moment since the update began. Computed properties keep their
names. `resolved` is what polling has settled on: everything, or what is left when
the block 12999-13098 of the input registers has been dropped. `PlanOf` gives the
blocks of such a set, and `PlansAssumption` says that they are those of `NextBlock`,
one after the other, until nothing is `Left`; `MCTelemetry` computes them. Scales are
left out: quantities are in units of the raw registers, and rounding is to the nearest.

That the five counters of the consumption come with one read follows from their
addresses (13001-13046), `max_span` and the plan; with a `max_span` of 20 TLC shows
them torn. A plan that cut blocks at gaps would tear them as well: this property,
unlike those of `SungrowSHx`, is one of the plan with the fewest round trips.
Phase voltage and current are 8000 registers apart and never come together:
`PhasePowerIsBounded` says what is left, that their product is of one moment unless
both have changed during the update. The battery's level and its limits come with
different reads too, an input and a holding block: `ChargeIsOfThisUpdate` says the same of
the nominal level, for which both limits must come together.

### Coordinator

On top of `SungrowSHx` with the one task `coordinator`: `reg` is the inverter,
`cache` the component attributes, `shown` the states in Home Assistant, `entry` the
config entry, `success`, `armed`, `cooldown`, `again` and `cause` the coordinator
and its debouncer, `call` the service calls. `Decode` turns a register's value into the
attribute: values in `Undocumented` (codes that no enumeration lists,
`sungrow/sungrow_modbus/enums.py:5-8`, and markers for "not available") decode to `None`
and show as unknown; the inverter and its panel may hold them, service calls and buttons
write only `Documented` ones. `held` is history: the values each
field has had since the refresh in flight began.

| Code | Definition |
|---|---|
| `_async_update_data` | `PollBlock`, `PollSucceeds`, `PollFails` |
| `update_interval` | `ScheduledRefresh` |
| `async_set_native_value`, `async_turn_on`/`off`, `async_select_option` | `SendWrite`, `WriteEnds`, `RequestRefresh` |
| `native_value`, `is_on`, `current_option` | `Attribute` |
| `async_press`, `async_start_inverter`, `async_stop_inverter` | `Press`, then as any write; `Obey` when the inverter has acted |
| `async_setup_entry` | `SetUpEntry` or `ClaimFails`, then the poll steps |
| `async_unload_entry` | `UnloadEntry`; then `AbandonedReturns` for a call that awaits the old refresh |

Taken from Home Assistant as the integration uses it: refreshes are serialised by
the debouncer's lock; a refresh cancels the scheduled one and the debouncer's
timer; a request within the cooldown is kept for its end; a request during a
refresh is dropped; after a requested refresh a cooldown runs; a coordinator that
is shut down ignores requests; only available entities are called. Entities exist
for every declared field, also for dropped ones (`iter_fields` reads
`declared_fields`), so that a service call may write a register that is missing.

`command` is what the inverter has been told and not yet done. `RefusedInPassing`
is an *unsupported* answer to a block that the inverter serves at other times, say
while it restarts; `refused` (history) holds these blocks. `sungrow.py:29` takes the
error codes for permanent, so the fields are dropped all the same;
`DropsAreOfThisDevice` bounds what that costs: the fields of those blocks, until the
next setup. A refresh in flight at an unload goes on with the old device; what it
does there is seen by nobody but a call that awaits it (`AbandonedReturns`,
`Detached`).

`PollingIsSettled` is the property with a history. That nothing is dropped once an
entry is loaded is false, even without refusals in passing: a block may read *across*
a register that no field holds, and a plan that first reads there after the setup is
refused there. So the instance has such a register, and the property names both
exceptions: a refusal in passing, and a missing register that no polled field holds.

`StaleIsTemporary` is the safety core of `ShowsTheInverter`: between two refreshes an
entity differs from its registers only when these have changed since the last refresh
began, and the next refresh is scheduled. This must survive all that cancels and renews
the schedule: a requested refresh, a cooldown, a failure, a refusal in passing, a reload.

### InverterView

The coordinator without blocks, drops, attributes, timers and faults. `Refresh` starts
a refresh, for at most one service call; `Show` changes all entities at once, each to
the `Meaning` of a value its registers held since that refresh began; `Fail` and `Unload` make all of
them unavailable. A call in `waiting` is resumed by the end of *its* refresh, which
began after its write, so that it cannot come back to values from before: this is what
the dropped request of `write_during_refresh` does not give, because that call does
not wait. `ViewKept` states that `Coordinator` implements it. The mapping: `recent` is
`held`, `polled` is `resolved`, `reading` is `Refreshing`, `waiting` are the calls in
step `refreshing`. The abstract module has no `cache`: that every attribute is of the
refresh that shows it is what the mapping has to show.

### SettingValues

The numbers, selects and switches over the holding registers, named by address, with
the declared scales, ranges and codes; numbers are counted in tenths of their unit.
`SetValue` and `SetOption` are what a service call may ask for (Home Assistant
refuses values outside the entity's range and options it does not know), `PanelChange`
what happens at the inverter. Assumed of the panel: it keeps the declared range of a
number that has one; other registers may get any word. What the Modbus library does with a value that its
register cannot hold is not decided in this repository; both outcomes are modelled.

### Platforms

`iter_fields`, `is_writable`, `value_kind` and `PLATFORMS` keep their names, over the
real table of 99 fields; `Described(p)` is the filter of each platform's
`async_setup_entry`. A key is component and address in place of component and
attribute. `legacy_entity_map.json` is the operator `Candidates`: each public field
has one legacy sensor, booleans also a switch, as in the committed file; names are
opaque. `registry` is Home Assistant's entity registry as far as it decides ids, and
`past` (history) every id there ever was with the key it was for. Home Assistant keeps
recorded history by entity id, so an id that is freed and given to another field would
continue the wrong history. `IdsKeepTheirField` says that this never happens, although two
fields share an attribute, and with it the modern name, and entries come and go in any
order with either kind of name. It rests on both fields having a legacy sensor each in the
committed map, and on each inverter having both or neither.

### LegacyMap

`document` are the entries of the legacy YAML, `fields` the library's fields,
`committed` the JSON file, `exit` how the last run ended. `Generate` and `Check` are
`main` without and with `--check`. The document and the library change between runs.
Parsing is left out: an entry is its section, space, address, id, unit and classes;
a field's name matters only by the two hints `unit_mapping.py` takes from it.
`LegacyMapAssumption` says that no register belongs to two fields, and that `Manual`,
the overrides of the script, are of entities that no field declares.

### ConfigFlow

`step`, `kind`, `uniqueId` and `pending` are the state of each flow; `entries` and
`owner` are the entry list and the registry entries of the legacy ids; `lacking`
are the endpoints whose inverter refuses a register of the `info` component.
`probed`, `clear` and `missed` are history. Setting the unique id and aborting
(136-139) is one step, since nothing is awaited between; the probe (140) is
another. `Suggested` are the legacy ids in the domain of the entity's own platform
(`suggested_object_id_for`): the registry is checked for all legacy ids, and only
these are claimed. A claim happens in `AddEntities`, the setup of the entry, which may come
long after the form: the inverter may be off and the setup retried.

## 3. The runs

| Run | Question | Bounds | States |
|---|---|---|---|
| `update` | Is every drop justified, does success mean served, does the update end, and does it keep the abstract promise? | 5 fields of widths 1 and 2, 3 components, 2 spaces with coinciding addresses, a gap; 8 inverters that lack none, one or two of 5 registers; `MaxSpan` 5, so that the input fields but not both spaces fit a read; 2 tasks | 95 168 |
| `register_map` | What does one hole cost in the real map, how many reads may an update send, and does the drop converge? | all 99 fields; the first and the last register of each missing in turn, and the B/C phases of the meter | 5 395 |
| `single_phase_meter` | Does the docstring's single-phase meter lose only what it lacks? | the real map | violation |
| `telemetry` | Are values computed from several fields true of one moment? | 22 fields of the real map, 2 changes of the house, 1 failed update, counters at the edge of a word | 309 209 |
| `coordinator` | Stale values, settled polling, outages, drops, the schedule; does all of it implement `InverterView`? | a setting, the running state and a current, with a register between that no field holds; 2 values, one of which has no meaning, 1 user, 1 service call or press, 1 change at the panel, 1 link fault, 1 refusal in passing, 1 reload, 4 inverters; `MaxSpan` 3 | 1 489 168 |
| `coordinator_live` | Does it end up right, do calls return? | a setting and the running state; 2 values, one of which has no meaning, 2 users, 2 service calls or presses, 1 change at the panel, 1 link fault, 1 reload, no refusal, 3 inverters | 425 994 |
| `write_during_refresh` | Does a call that returned show its value? | 1 call, no faults | violation |
| `setting_values` | Do values survive registers and ranges? | 5 settings (both limits, a start power with its marker, a number without maximum, a select), 12 requests around every end, 5 panel words | 81 312 |
| `platforms` | Which entities exist, with which ids? | all 99 fields, 2 entries, each legacy or modern at every adding | 682 |
| `legacy_map` | Is the map sound and current when the script passes? | 4 fields in 6 versions, 6 legacy entries, 1 override, 1 acknowledged mismatch; all their changes | 221 184 |
| `config_flow` | Two flows side by side | 4 endpoints, two behind one gateway and two on one serial line; 3 legacy ids, one of which no entity suggests; 1 return of the YAML package; 1 link fault | 553 568 |
| `legacy_claim_race` | Does a claim ever land on the second id? | the same, no faults | violation |

**Why these bounds are enough.** In `update` a hole can hit a narrow field, a half
of a wide one, the gap, either component of a shared block, or the other space at
the same address; a second refused block after a drop, and a third, occur. Theorems
(below) remove the bounds from all its safety properties. In `telemetry` one change
can fall between two reads of one computed value, and two between reads of three. In
`coordinator` one fault can hit a poll, a write whose answer is lost, or a setup; after
one reload, a call of the old coordinator is pending; a block can span the gap before
and after the setup. Two calls, of which one requests a refresh during the other's or
within its cooldown, are in `coordinator_live`; for the safety properties of
`coordinator` the theorems remove these bounds. In `platforms` two entries can ask for one id in either order,
before or after one of them is removed. In `setting_values` `PanelWords` and
`Requests` have a value on each side of every end of a range; the theorems remove
these bounds. In `legacy_map` two fields share an address in two spaces, two entries
share a register, and every version of the document meets every version of the
library. In `config_flow` every race is between two flows; two ids that are suggested let a claim succeed half-way, and
endpoints that differ in the port only, and in the unit only, show what the unique
id tells apart. Deadlock is not checked
for the flows: users may stop. All other runs check it.

**Fairness.** `SungrowSHx`: a request is answered, refused or times out, so a task
in the loop takes a step (weak fairness of `UpdateStep`). Coordinator: polls move
on, timers fire (`ScheduledRefresh`, `CooldownEnds`), a setup that is not ready is
retried by Home Assistant (`SetUpEntry`), a write is answered or fails
(`CallStep`), a command that was delivered is obeyed (`Obey`). Nothing is assumed of users, of the panel, or of the link: faults are
bounded, which stands for "once the link has settled".

**What the runs show.** In the real map one missing register costs at most 28 of
the 99 fields, of at most four components (the block 12999-13098 of the input
registers is the worst). In this repository only the coordinator
updates a device, one refresh at a time, so that one task is all the code needs. The core is
modelled and proved for any number of them all the same: "success means all that is left
is served" still holds with two; that a missing register is never fatal would not, since
another task might already have dropped what the refused block held, and is
proved for one (`MissingIsNeverFatal`) and of the coordinator's
(`MissingIsNoOutage`). The drop converges under the plan with the fewest round trips
(`PlanConverges`), not under every plan (see `PollingIsSettled`). `ShowsTheInverter`
holds although refresh requests are dropped: the
scheduled refresh repairs it, which nothing ever cancels without putting another in
its place (`StaleIsTemporary`). Under the user's view (`ViewKept`) none of the
polling core's retries and drops shows, but for a field that becomes unknown.

### Where the code and what is said of it differ

1. `single_phase_meter`. The docstring (`sungrow/sungrow_modbus/sungrow.py:79`)
   promises that a component whose block is unsupported loses its fields. With its
   own example, a single-phase meter, `BatteryTelemetry` loses 5627-5638, which
   the inverter serves, because it comes before `GridMeter` in the refused block.
2. `write_during_refresh`. After a service call has returned, the entity may show
   the old value until the next scheduled refresh, if the write met a refresh in
   flight (`sungrow/number.py:92`); `src/tests/test_number.py:44` expects the new one.
3. `legacy_claim_race`. Two flows, or one flow after another whose entry waits for
   its inverter, both find the legacy ids free; the second claim quietly lands on
   `_2`, which the comment at `sungrow/config_flow.py:173` wants to rule out.
   `MissedOnlyByRace` shows that this and a YAML package that comes back are the
   only ways.

Five more were met while modelling. They follow from one definition each, and the
properties that hold are stated so as to leave them room; no run is spent on them:

* The unique id leaves out the port (`sungrow/config_flow.py:137`, `Uid`), and an
  inverter behind another port of the same gateway is "already configured".
* The probe reads `info` without the drop of `async_update`
  (`sungrow/config_flow.py:203`, `ProbeAnswered`): an inverter that lacks one register
  there "cannot connect", though a set-up entry would poll it.
* A number without a declared maximum accepts 100000 (`sungrow/number.py:46`,
  `High`), more than its register holds, and the export limit ignores the range that
  the inverter reports, of which its description speaks
  (`sungrow/sungrow_modbus/subsystems/controls.py:41`). `AcceptedIsShown` says that
  only such numbers, and only values of more than a word, may be lost (`Fits`); of those
  values it says nothing.
* With legacy naming, settings that were legacy *sensors* are numbers, selects and
  switches now, and those sensors' ids are claimed by nothing
  (`sungrow/legacy_naming.py:38`, `suggested_object_id_for`), though the form promises
  that automations keep working unchanged.
* A field with two legacy sensors is compared with neither
  (`src/scripts/generate_legacy_entity_map.py:304`, `UnitMismatches`), although the
  comment at line 46 says that what is not listed fails the check.
  `PassedKeepsStatistics` is stated for a sensor that a field takes over alone.

## 4. The proofs

A theorem holds for every value of the constants that satisfies the assumptions of
its module; TLC evaluates those on every run. The assumptions say what the code
gives: fields are well formed and none is wider than a read
(`ConstantsAssumption`), no register belongs to two fields (`LayoutAssumption`,
`LegacyMapAssumption`), there are two register spaces (`SpacesAssumption`), the
coordinator's is the only task (`CoordinatorAssumption`), special values such as
`None` are not values, and bounds are numbers. Each module below takes an invariant
that a run checks, strengthens it to one that every step keeps (TLC was asked first),
and proves it action by action.

| Module | Theorem | States |
|---|---|---|
| `SungrowSHxProofs` | `TypeCorrect` | `Spec => []TypeOK` |
| | `DropsJustified` | `Spec => []DropsAreJustified` |
| | `SuccessIsStable` | `Spec => []UpdatedMeansServed`, for any number of tasks |
| | `RetriesProgress` | `Spec => RetriesNarrow` |
| | `MissingIsNeverFatal` | `Spec => []MissingNeverFatal`, for one task |
| | `PromiseIsSafe` | `Spec => Promise!Safe`: initial states and steps map to those of `DeviceUpdate` |
| `RegisterMapProofs` | `SpacesStayIndependent` | `PlannedSpec => []SpacesAreIndependent` |
| | `DropConverges` | `PlannedSpec => PlanConverges`, for one task |
| | `RequestsStayBounded` | `PlannedSpec => []RequestsAreBounded`, for any number of tasks |
| `TelemetryProofs` | `TelemetryTypeCorrect` | `Spec => []TelemetryTypeOK` |
| | `ConsumptionStaysTrue` | `Spec => []ConsumptionIsTrue` |
| | `StringPowerStaysTrue` | `Spec => []StringPowerIsTrue` |
| | `PhasePowerStaysBounded` | `Spec => []PhasePowerIsBounded` |
| | `DirectionsStayTrue` | `Spec => []DirectionsAreTrue` |
| | `ChargeStaysBounded` | `Spec => []ChargeIsBounded` |
| | `ChargeStaysOfThisUpdate` | `Spec => []ChargeIsOfThisUpdate` |
| `CoordinatorProofs` | `CoordinatorTypeCorrect` | `CoordinatorSpec => []CoordinatorTypeOK` |
| | `DropsBelongToTheDevice` | `CoordinatorSpec => []DropsAreOfThisDevice` |
| | `PollingStaysSettled` | `CoordinatorSpec => PollingIsSettled` |
| | `ShownStaysRecent` | `CoordinatorSpec => ShownIsRecent` |
| | `MissingMakesNoOutage` | `CoordinatorSpec => []MissingIsNoOutage` |
| | `StaleStaysTemporary` | `CoordinatorSpec => []StaleIsTemporary` |
| | `ViewStaysKept` | `CoordinatorSpec => ViewKept`: initial states and steps map to those of `InverterView` |
| `SettingValuesProofs` | `SettingsTypeCorrect` | `Spec => []TypeOK` |
| | `BandStaysOrdered` | `Spec => []SocBandOrdered` |
| | `AcceptedStaysShown` | `Spec => []AcceptedIsShown`, of the values a register can hold |
| `PlatformsProofs` | `FieldsHaveOneEntity` | `Spec => []OneEntityPerField` |
| `LegacyMapProofs` | `NothingLostOrShared` | `Spec => []EntriesAreAccounted` |
| | `PassedMapIsCurrent` | `Spec => []PassedReadsTheRegister` |
| | `StatisticsAreKept` | `Spec => []PassedKeepsStatistics` |
| `ConfigFlowProofs` | `FlowTypeCorrect` | `Spec => []TypeOK` |
| | `NoInverterTwice` | `Spec => []OneEntryPerInverter`: no unique id twice, whatever the ports |
| | `EntriesWereProbed` | `Spec => []EntryWasProbed` |
| | `IdsAreHeldByClaimants` | `Spec => []HeldByClaimants` |
| | `ClaimsMissOnlyByRace` | `Spec => []MissedOnlyByRace` |

### The polling core

`UpdatedMeansServed` is not inductive: at `FinishUpdate` one must know that what is
no longer in `todo[t]` was answered, and a second task may narrow `resolved`
meanwhile. `DropInv` adds `ReadSoFarServed` (while `t` reads, every resolved field
outside `todo[t]` is served), and `DropsAreJustified` and `TypeOK`, which the
refinement needs. The lemmas carry the geometry: a block of any plan is no wider
than `MaxSpan`, a field that overlaps a refused block is `Near` the missing
register, a field covered by an answered block is served, a block overlaps a field
it was built from.

`MissingIsNeverFatal` needs `TodoResolved`, `todo[t] \subseteq resolved`, which
only a single task keeps; `OneTask` is its assumption, and the coordinator, which
never overlaps two refreshes, is its justification.

### The plan

`NextBlockFacts` shows that the block chosen by `NextBlock` is among `Blocks`: its
first and last field exist, by the well-foundedness of `<` on numbers, and span no
more than `MaxSpan`; and that it covers at least one field still to read. So every planned step is one of the core,
and `DropInv` holds of the planned loop too (`SpacesStayIndependent`).

`PlanConverges` relates two updates that lie any number of steps apart. The sets of
fields that an update has still to read are a chain, from `resolved` down by `Rest`.
`PlanSoFar` says that some set of such sets holds the first and the present one, and
that every one of its members but the present one was answered and has its rest in
it. When nothing is left, the chain is complete; `PlanIsSettled` keeps it, and a
later update, which starts at the same `resolved`, never leaves it. The chain is a
set under an existential quantifier, so that no recursion is needed.

`RequestsAreBounded` says nothing of the steps to come, so `RequestInv` counts them:
the reads sent and the fields left to read are together at most
`|Fields| * (dropped + 1)`. An answered block takes one from the second number for the
one it adds to the first (`NextBlockFacts`); a drop may put back up to `|Fields|`, and
raises the bound by as much (`BoundGrows`); so may the drop of another task. The
cardinalities are those of `FiniteSetTheorems`.

### Telemetry

The theorems hold for every family of resolved sets and any powers within 32 bits.
`HouseAssumption` keeps the number of changes below 65536, since a daily counter of
16 bits would otherwise overflow between two midnights.

* The plan. `DeclaredInputs` finds two gaps in the declared input addresses, 4911-4917
  and 12902-12946, both just `max_span` before a group of fields: the strings at 5010
  and the energy counters at 13001; and that no holding field begins at 12958, `max_span`
  before the end of the battery's first limit at 13057. `WindowComesTogether`: a block that begins before
  such a gap ends before the group, and one that begins behind it takes all of the
  group that is left. `Whole` (of a group all is left to read, or nothing) follows,
  with `Ordered` (what was read lies before what is left), which keeps a block from
  touching anything twice.
* The house. `Balanced`: the counters add up to what was consumed; `CountersAreSlow`
  and `HouseFits`: every value fits its registers, so that decoding gives it back
  (`WordsKeepTheValue`, for 16 and 32 bits, signed or not).
* The update. `ReadIsTrue`: as soon as a group has been read, one moment of `during`
  matches all of it, and an attribute read alone matches some moment.
  `UnpolledIsUnknown` excludes values from before.

`ChargeIsBounded` needs no moment: it follows from the ranges of the five registers,
by rounding (`PerMilleIsWithin`, `PerMillionIsWithin`). That they are of this update is
`ChargeIsOfThisUpdate`, from `ReadIsTrue` for the level and for the two limits (`BandAt`).

### Coordinator

`DeviceSteps` says once what each action of the coordinator does to the polling core
(answers a block, narrows, begins, succeeds, ends, replaces the device, or leaves it
alone); the other proofs have one case for each of these instead of one per action.

* `DeviceInv`: `TodoResolved`, `DropsAreKnown` (every drop has its register or its
  refusal, also while the entry is not loaded), `ReadSoFarServed`, `LoadedIsServed`
  (once loaded, every field left is served by the inverter). `PollingIsSettled` follows: a
  loaded entry can only be refused a block over a register that no polled field holds.
* `ReadInv`: `HeldIsCurrent` (the history has the present value) and `ReadSoFarHeld`
  (what the refresh has read so far is, decoded, in the history of that refresh).
  `ShownIsRecent` follows, also for what is shown as unknown.
* `MissingIsNoOutage` is inductive together with `DeviceInv`: an update that fails
  without a fault would need a refused block that overlaps nothing resolved.
* `RestInv`: at rest a loaded entry has its next refresh scheduled, and each entity
  shows a value of the history, or is unavailable after a failure. Since `ReadInv`
  keeps the present value in the history, `StaleIsTemporary` follows.
* `ViewKept`. `ViewSteps` maps every action to a step of `InverterView` or to one that
  changes nothing there, by the kinds of `DeviceSteps`. Beside the invariants above it
  needs two facts about service calls. `CallsAreOfEntry`: a call that is not orphaned has a
  loaded entry, since its request would otherwise be a refresh of nothing.
  `WaitingReads`: a call that waits has its refresh in flight. The latter is kept by
  every step of the *abstract* module, so it is proved there, once, and carried over by
  the mapping. The fields a poll shows come from `AttributesAreHeld`.

### Settings

`SocBandOrdered` relates two registers that no step relates, and is not inductive:
from a band 60..70 % one legal write of the upper limit would turn it over. `InRange`
adds that the lower limit stays at or below 50 % and the upper at or above it.
`AcceptedStaysShown` rests on two lemmas about the scales: rounding to a step and
back moves a value by half a step (`RoundingIsClose`), and a value in a declared
range fits its register and is not the marker for no value (`RangeFits`).

### Platforms, legacy map and flows

* `PlatformsInv`: every row of the registry is described by its platform, a platform
  has one row for a unique id, a loaded entry has all its rows. `FiltersPartition` is
  the core: for each public field exactly one platform's filter lets it through.
* `MapInv`: a version of the library declares each key once, and a map that passed is
  the one the script would write now. `MapOfField` reads a candidate back from it.
* `UidInv` makes `OneEntryPerInverter` inductive, which speaks of unique ids and not of
  endpoints: two ports of one host are one id. An entry is created long after its
  unique id was compared, with a probe between: `CheckedIsFree` (from the check on, no
  entry has the id), because `IdsInProgressDiffer` (nor has another flow in progress).
  `ReadBeforeCreation` ties the entry to the endpoint that was probed.
* `LegacyInv`: `ClaimsWereClear` (who claims had found the ids free) is what
  `MissedOnlyByRace` needs, and `HeldByClaimants` names who can hold an id.

### What TLC alone checks

Everything under fairness: `UpdateEnds`, the liveness of `PromiseKept`,
`ShowsTheInverter` and `CallsReturn`, which this prover cannot do.
`HoleCostIsBounded` counts fields of one concrete table, which TLC does by going
through all its registers. `IdsKeepTheirField` is about the ids of 99 fields under one
naming of the registry, which TLC goes through for two entries. The three disagreements of section 3 are counterexamples.

## 5. Not modelled, and the plan

Not modelled: the strings of the device information and the names of models; scales
of read-only fields, which no property tells apart; which codes count as running
(`status.is_running`), a list without a second source to compare it with; form
schemas and wording; serial line settings; the helpers of `addresses.py`, which only
tests use; the parsing of YAML and Jinja in the generator; the legacy YAML package.

What was done, in order: `Registers` and `SungrowSHx`, `DeviceUpdate` and the
refinement, `SungrowSHxProofs`, `RegisterMap`, `Telemetry`, `Coordinator`,
`ConfigFlow`; then buttons and refusals in passing in `Coordinator`, `LegacyMap`,
`Platforms`, `SettingValues` with its proofs, and phase powers in `Telemetry`; then
the proofs about every other component.

`InverterView` and its refinement, the bound on requests and the state between two
refreshes came last.

What remains open:

1. The promise of `DeviceUpdate` for one refresh of the coordinator. Its parts are
   proved (`DropsAreOfThisDevice`, `MissingIsNoOutage`, `ViewKept`); a refinement of the
   whole would need an abstract device that is replaced and refuses in passing.
2. Liveness by proof, with a prover that has `ENABLED`.
3. The scales of read-only fields, once a property tells them apart.
