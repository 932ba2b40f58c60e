----------------------------- MODULE Platforms -----------------------------
(***************************************************************************)
(* Which field becomes which entity: the index of fields (field_index.py), *)
(* the six platforms, the identity of an entity (entity.py), and the       *)
(* legacy ids it may continue (legacy_naming.py, legacy_entity_map.json),  *)
(* over the declared registers of RegisterTable.                           *)
(*                                                                         *)
(* Home Assistant's entity registry is not in this repository: an entity   *)
(* without a row is given the id it asks for, with a number when the id is *)
(* taken, and keeps its row until the entry is removed; a second entity of *)
(* one platform with the same unique id is refused.                        *)
(***************************************************************************)
EXTENDS RegisterTable

CONSTANT Entries  \* config entries, of inverters of one model

VARIABLES
    naming,    \* naming[e]: "absent", or the entry's choice, "legacy" or "modern"
    loaded,    \* loaded[e]: the entry's platforms are set up
    registry,  \* the rows of the entity registry
    past       \* history: the ids there ever were, each with the key it was for

vars == <<naming, loaded, registry, past>>

-----------------------------------------------------------------------------
(* field_index.py *)

Named(comp, addr) == CHOOSE f \in AllFields : f.comp = comp /\ f.addr = addr

(* Firmware version parts, which only computed properties use. *)
Internal == {f \in AllFields : f.comp = 1 /\ f.addr \in {2581, 2596, 2612, 2628}}

iter_fields == AllFields \ Internal

(* value_kind, as data_model.py attaches it. *)
Enums == {Named(3, 12999), Named(5, 13050), Named(9, 13001), Named(9, 13049)}
Booleans == {Named(9, 13010), Named(9, 13074), Named(9, 13086)}

value_kind(f) ==
    IF f \in Enums THEN "enum"
    ELSE IF f \in Booleans THEN "boolean"
    ELSE IF f.count > 2 THEN "string" ELSE "number"

writable(f) == f.space = "holding"

_READ_ONLY_OVERRIDE == {Named(9, 13088)}

is_writable(f) == writable(f) /\ f \notin _READ_ONLY_OVERRIDE

(* A field's component and attribute.  The entities without a field have     *)
(* keys of their own.                                                        *)
Key(f) == <<f.comp, f.addr>>

Flags == {<<0, n>> : n \in 1..4}     \* PV generating, charging, importing, running
IsRunning == <<0, 4>>
Actions == {<<0, n>> : n \in 5..6}   \* start and stop

-----------------------------------------------------------------------------
(* The platforms: sensor.py, number.py, select.py, switch.py,                *)
(* binary_sensor.py, button.py                                               *)

PLATFORMS == {"sensor", "number", "select", "switch", "binary_sensor", "button"}

(* The fields that a platform describes. *)
Described(p) ==
    CASE p = "sensor" -> {f \in iter_fields : ~is_writable(f)}
      [] p = "number" -> {f \in iter_fields : is_writable(f) /\ value_kind(f) = "number"}
      [] p = "select" -> {f \in iter_fields : is_writable(f) /\ value_kind(f) = "enum"}
      [] p = "switch" -> {f \in iter_fields : is_writable(f) /\ value_kind(f) = "boolean"}
      [] p \in {"binary_sensor", "button"} -> {}

Keys(p) ==
    IF p = "binary_sensor" THEN Flags
    ELSE IF p = "button" THEN Actions
    ELSE {Key(f) : f \in Described(p)}

-----------------------------------------------------------------------------
(* The legacy map and the entity's identity *)

(* An id is its domain and the legacy entity's name, which no other entry of *)
(* the map has.                                                              *)
Legacy(domain, key) == [domain |-> domain, object |-> <<"legacy", domain, key>>, n |-> 1]

(* A slip: the map lacks one of two fields that have one attribute. *)
CandidatesButOne(key) ==
    IF key = <<4, 13024>> THEN {}
    ELSE {Legacy(d, key) : d \in {"sensor", "switch", "binary_sensor", "button"}}

(* legacy_entity_map.json: every public field has a legacy sensor, those of  *)
(* kind boolean a legacy switch after it; the other entities have one of     *)
(* their own domain, but for the running flag.                               *)
Candidates(key) ==
    IF key[1] # 0
    THEN {Legacy("sensor", key)} \cup {Legacy("switch", key) : f \in {g \in Booleans : Key(g) = key}}
    ELSE IF key \in Actions THEN {Legacy("button", key)}
    ELSE IF key # IsRunning THEN {Legacy("binary_sensor", key)} ELSE {}

(* The name of a legacy entity of this platform, if there is one. *)
suggested_object_id_for(key, p) ==
    {c.object : c \in {d \in Candidates(key) : d.domain = p}}

(* Modern names have the device's model and the attribute, which two fields  *)
(* of different components share: the temperatures.                          *)
InverterTemperature == <<3, 5007>>
BatteryTemperature == <<4, 13024>>

Modern(key) ==
    <<"modern", "", IF key = BatteryTemperature THEN InverterTemperature ELSE key>>

(* A slip: the unique id is made of the attribute, without its component. *)
UniqueIdOfAttribute(e, key) == <<e, Modern(key)>>

UniqueId(e, key) == <<e, key>>

ObjectFor(e, key, p) ==
    IF naming[e] = "legacy" /\ suggested_object_id_for(key, p) # {}
    THEN CHOOSE o \in suggested_object_id_for(key, p) : TRUE
    ELSE Modern(key)

-----------------------------------------------------------------------------
(* The entity registry *)

Ids == {row.id : row \in registry}

(* The i-th free id of that name. *)
FreeId(p, object, i) ==
    LET free == {n \in 1..(Cardinality(Entries) * 2 + 2) :
                    [domain |-> p, object |-> object, n |-> n] \notin Ids}
    IN  [domain |-> p, object |-> object,
         n |-> CHOOSE n \in free : Cardinality({m \in free : m < n}) = i]

(* The new rows of one platform, in the order of its fields. *)
NewRows(e, p) ==
    LET new == {k \in Keys(p) : ~\E row \in registry :
                    row.platform = p /\ row.unique_id = UniqueId(e, k)}
        kept == {k \in new : ~\E j \in new : /\ UniqueId(e, j) = UniqueId(e, k)
                                             /\ j[1] < k[1]}
        before(k) == {j \in kept : /\ ObjectFor(e, j, p) = ObjectFor(e, k, p)
                                   /\ j[1] < k[1]}
    IN  {[entry |-> e, platform |-> p, key |-> k, unique_id |-> UniqueId(e, k),
          id |-> FreeId(p, ObjectFor(e, k, p), Cardinality(before(k)))] : k \in kept}

-----------------------------------------------------------------------------
(* The life of an entry *)

AddEntry(e) ==
    /\ naming[e] = "absent"
    /\ \E choice \in {"legacy", "modern"} : naming' = [naming EXCEPT ![e] = choice]
    /\ UNCHANGED <<loaded, registry, past>>

(* async_setup_entry: async_forward_entry_setups.  The platforms' domains    *)
(* differ, so that their order tells nothing.                                *)
SetUpPlatforms(e) ==
    /\ naming[e] # "absent" /\ ~loaded[e]
    /\ loaded' = [loaded EXCEPT ![e] = TRUE]
    /\ registry' = registry \cup UNION {NewRows(e, p) : p \in PLATFORMS}
    /\ past' = past \cup {[id |-> row.id, key |-> row.key] : row \in registry'}
    /\ UNCHANGED naming

(* async_unload_entry: the rows stay. *)
UnloadPlatforms(e) ==
    /\ loaded[e]
    /\ loaded' = [loaded EXCEPT ![e] = FALSE]
    /\ UNCHANGED <<naming, registry, past>>

RemoveEntry(e) ==
    /\ naming[e] # "absent" /\ ~loaded[e]
    /\ naming' = [naming EXCEPT ![e] = "absent"]
    /\ registry' = {row \in registry : row.entry # e}
    /\ UNCHANGED <<loaded, past>>

Init ==
    /\ naming = [e \in Entries |-> "absent"]
    /\ loaded = [e \in Entries |-> FALSE]
    /\ registry = {} /\ past = {}

Next == \E e \in Entries :
    AddEntry(e) \/ SetUpPlatforms(e) \/ UnloadPlatforms(e) \/ RemoveEntry(e)

Spec == Init /\ [][Next]_vars

-----------------------------------------------------------------------------
(* Properties *)

RowsOf(e) == {row \in registry : row.entry = e}

(* Every public field of a loaded entry is one entity, neither none nor two, *)
(* of a platform that can show its kind, and that writes it exactly when the *)
(* index allows it: four filters in four modules and the unique id agree.    *)
(* (sensor.py:84-89, number.py:60-65, select.py:53-58, switch.py:50-55,      *)
(* field_index.py:94-98, entity.py:35)                                       *)
Control == [number |-> "number", boolean |-> "switch", enum |-> "select"]

OneEntityPerField ==
    \A e \in {d \in Entries : loaded[d]} :
        \A f \in iter_fields :
            LET mine == {row \in RowsOf(e) : row.key = Key(f)}
            IN  /\ Cardinality(mine) = 1
                /\ \A row \in mine :
                      row.platform = IF f.space = "holding" /\ Key(f) # <<9, 13088>>
                                     THEN Control[value_kind(f)] ELSE "sensor"

(* Recorder history is kept by entity id, and an id whose entity is gone is  *)
(* free again.  Through any adding and removing of inverters with legacy and *)
(* modern ids, no id passes from one field to another, though the two        *)
(* temperatures ask for one modern id and are told apart only by the number  *)
(* that the registry gives them, and some entities of a legacy entry have no *)
(* legacy id.  (legacy_naming.py:8-10, field_index.py:58-91,                 *)
(* entity.py:36-44)                                                          *)
IdsKeepTheirField == \A c, d \in past : c.id = d.id => c.key = d.key
=============================================================================
