----------------------------- MODULE LegacyMap -----------------------------
(***************************************************************************)
(* The script that makes legacy_entity_map.json: it matches every field of *)
(* the library with the sensors and switches of the legacy YAML package,   *)
(* refuses units and classes that differ, and writes the map, or, with     *)
(* --check, compares it with the committed one                             *)
(* (scripts/generate_legacy_entity_map.py, unit_mapping.py).               *)
(*                                                                         *)
(* Between runs of the script the legacy document and the library change,  *)
(* so that a committed map may be stale.                                   *)
(***************************************************************************)
EXTENDS Naturals, FiniteSets

CONSTANTS
    DeviceFields,  \* the fields that the library declares in one version or another
    LegacyEntries, \* the entries that the legacy document may hold
    Manual,        \* the keys of the hand-written overrides, with their candidates
    Acknowledged   \* the keys whose mismatch was reviewed and is left as it is

VARIABLES
    document,   \* the entries of the legacy document
    fields,     \* the fields that the library declares
    committed,  \* the map in the repository
    exit        \* what the last run ended with; "none" once its inputs have changed

vars == <<document, fields, committed, exit>>

(* "none" stands for a value that is not given.  Names matter to the units   *)
(* only by two hints: a state of charge, and the prefix daily_.              *)
DeviceField ==
    [key: STRING, space: {"input", "holding"}, addr: Nat,
     kind: {"number", "enum", "boolean", "string"}, unit: STRING,
     soc: BOOLEAN, daily: BOOLEAN]

LegacyEntry ==
    [section: {"sensors", "switches"}, space: {"input", "holding", "none"},
     addr: Nat, id: STRING, unit: STRING, class: STRING, state: STRING]

(* No register belongs to two fields; the overrides are of entities that no   *)
(* field declares.                                                            *)
ASSUME LegacyMapAssumption ==
    /\ DeviceFields \subseteq DeviceField
    /\ LegacyEntries \subseteq LegacyEntry
    /\ \A f, g \in DeviceFields : f.space = g.space /\ f.addr = g.addr => f.key = g.key
    /\ \A f \in DeviceFields : f.key \notin DOMAIN Manual

-----------------------------------------------------------------------------
(* unit_mapping.py *)

ClassOfUnit ==
    [W |-> "power", var |-> "reactive_power", V |-> "voltage", A |-> "current",
     Hz |-> "frequency", C |-> "temperature", kWh |-> "energy"]

NativeUnit(f) == IF f.unit = "none" /\ f.soc THEN "%" ELSE f.unit

DeviceClass(f) ==
    IF NativeUnit(f) = "%" THEN IF f.soc THEN "battery" ELSE "none"
    ELSE IF f.unit \in DOMAIN ClassOfUnit THEN ClassOfUnit[f.unit] ELSE "none"

StateClass(f) ==
    CASE f.unit = "none" -> "none"
      [] f.unit = "kWh"  -> IF f.daily THEN "total_increasing" ELSE "total"
      [] OTHER           -> "measurement"

-----------------------------------------------------------------------------
(* _legacy_candidates and build_map *)

(* A sensor names its register space; a switch may leave it out. *)
SpaceOf(e) == IF e.space = "none" THEN "holding" ELSE e.space

(* A slip: entries are indexed by address only. *)
MatchesAddress(f, e) == e.addr = f.addr

Matches(f, e) == SpaceOf(e) = f.space /\ e.addr = f.addr

Candidates(f) == {e \in document : Matches(f, e)}

Matched == {f \in fields : Candidates(f) # {}}

(* What the report lists as found in the legacy document only. *)
LegacyOnly == {e \in document : \A f \in Matched : ~Matches(f, e)}

(* The overrides replace what was matched for their keys. *)
EntityMap ==
    [k \in {f.key : f \in Matched} \cup DOMAIN Manual |->
        IF k \in DOMAIN Manual THEN Manual[k]
        ELSE Candidates(CHOOSE f \in Matched : f.key = k)]

Differ(theirs, ours) == theirs # "none" /\ ours # "none" /\ theirs # ours

(* _check_unit_match; a switch has no unit and no classes. *)
Mismatch(f, e) ==
    /\ e.section = "sensors"
    /\ \/ Differ(e.unit, NativeUnit(f))
       \/ Differ(e.class, DeviceClass(f))
       \/ Differ(e.state, StateClass(f))

(* The keys of coverage.unit_mismatches: only a field with one candidate is  *)
(* compared.                                                                 *)
UnitMismatches ==
    {f.key : f \in {g \in Matched :
                      /\ g.kind = "number"
                      /\ Cardinality(Candidates(g)) = 1
                      /\ \E e \in Candidates(g) : Mismatch(g, e)
                      /\ g.key \notin Acknowledged}}

-----------------------------------------------------------------------------
(* main *)

(* Slips of the operators below: --check finds no map stale that has the      *)
(* same keys; mismatches are refused only when the map is written.           *)
SameKeys == DOMAIN committed = DOMAIN EntityMap

RefusedOnWrite(check) == ~check /\ UnitMismatches # {}

UpToDate == committed = EntityMap

Refused(check) == UnitMismatches # {}

(* Without --check the map is written. *)
Generate ==
    /\ IF Refused(FALSE)
       THEN exit' = "failed" /\ UNCHANGED committed
       ELSE exit' = "passed" /\ committed' = EntityMap
    /\ UNCHANGED <<document, fields>>

(* With --check a stale map fails, and nothing is written. *)
Check ==
    /\ exit' = IF ~Refused(TRUE) /\ UpToDate THEN "passed" ELSE "failed"
    /\ UNCHANGED <<document, fields, committed>>

(* An entry comes or goes in the legacy document; a field is added to the    *)
(* library, removed, or declared anew.                                       *)
DocumentChanges ==
    /\ \E e \in LegacyEntries :
          document' = IF e \in document THEN document \ {e} ELSE document \cup {e}
    /\ exit' = "none"
    /\ UNCHANGED <<fields, committed>>

LibraryChanges ==
    /\ \E f \in DeviceFields :
          fields' = IF f \in fields THEN fields \ {f}
                    ELSE {g \in fields : g.key # f.key} \cup {f}
    /\ exit' = "none"
    /\ UNCHANGED <<document, committed>>

Init ==
    /\ document \in SUBSET LegacyEntries
    /\ fields = {}
    /\ committed = Manual
    /\ exit = "none"

Next == Generate \/ Check \/ DocumentChanges \/ LibraryChanges

Spec == Init /\ [][Next]_vars

-----------------------------------------------------------------------------
(* Properties *)

(* No legacy entity is lost and none is given away twice: each entry of the  *)
(* document is a candidate of exactly one field or reported as legacy only,  *)
(* though both register spaces use the same addresses.                       *)
(* (generate_legacy_entity_map.py:191-222, :282-308)                         *)
EntriesAreAccounted ==
    \A e \in document :
        IF e \in LegacyOnly
        THEN \A k \in DOMAIN EntityMap \ DOMAIN Manual : e \notin EntityMap[k]
        ELSE Cardinality({k \in DOMAIN EntityMap \ DOMAIN Manual :
                            e \in EntityMap[k]}) = 1

(* A map that passed, as it is committed, does not freeze the statistics of  *)
(* a legacy sensor whose id a field takes over alone: unit, device class and *)
(* state class agree, unless the mismatch was acknowledged or one side has   *)
(* none.  (generate_legacy_entity_map.py:304-305, :349-355)                  *)
PassedKeepsStatistics ==
    exit = "passed" =>
        \A f \in fields : \A e \in document :
            (/\ f.kind = "number" /\ f.key \in DOMAIN committed \ Acknowledged
             /\ committed[f.key] = {e})
                => ~Mismatch(f, e)

(* Every candidate of a map that passed reads the register that its field    *)
(* has now, whatever changed and whichever runs failed since it was written. *)
(* (generate_legacy_entity_map.py:287-302, :359-366)                         *)
PassedReadsTheRegister ==
    exit = "passed" =>
        \A f \in fields :
            f.key \in DOMAIN committed \ DOMAIN Manual =>
                \A e \in committed[f.key] : SpaceOf(e) = f.space /\ e.addr = f.addr
=============================================================================
