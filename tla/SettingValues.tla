--------------------------- MODULE SettingValues ---------------------------
(***************************************************************************)
(* What the settings hold and show: the numbers, selects and switches over *)
(* the holding registers, with the scales, ranges and codes that           *)
(* BatterySettings and Controls declare.                                   *)
(*                                                                         *)
(* A setting is named by its register's address.  Numbers are counted in   *)
(* tenths of their unit, so that every scale is whole.                     *)
(***************************************************************************)
EXTENDS Integers

CONSTANTS
    Settings,   \* the settings that are looked at
    Requests,   \* the numbers, in tenths, that service calls ask for
    PanelWords  \* the words that the panel or another client stores

(* A word of a register, and what an entity shows when it has no value. *)
MaxWord == 65535
Word == 0..MaxWord
None == -1

VARIABLES
    reg,   \* reg[s]: the word in the setting's register
    last   \* the service call accepted last, unless the panel changed something since

vars == <<reg, last>>

-----------------------------------------------------------------------------
(* The declared settings *)

max_soc == 13057
min_soc == 13058
reserved_soc_for_backup == 13099
export_power_limit == 13073
StartPowers == {33148, 33149}
ChargePowers == {33046, 33047}

Percentages == {max_soc, min_soc, reserved_soc_for_backup}

(* 13088 is writable too, but shown as a sensor. *)
Numbers == Percentages \cup StartPowers \cup ChargePowers
             \cup {13051, export_power_limit, 13089, 31212}

(* Those with a declared maximum. *)
Bounded == Percentages \cup StartPowers

(* EmsMode, ForcedChargeDischargeCommand, LoadAdjustmentMode and OnOffCode. *)
Selects == {13001, 13049, 13050}
Switches == {13010, 13074, 13086}

OptionCodes(s) ==
    IF s = 13001 THEN 0..3
    ELSE IF s = 13049 THEN {0, 2, 3, 4}
    ELSE IF s = 13050 THEN {204, 170, 187} ELSE {170, 85}

Declared == Numbers \cup Selects \cup Switches

ASSUME SettingValuesAssumption ==
    /\ Settings \subseteq Declared
    /\ Requests \subseteq Nat
    /\ PanelWords \subseteq Word

NoCall == [setting |-> 0, value |-> None]

(* Tenths of the unit in one step of the register. *)
Scale(s) ==
    IF s \in {max_soc, min_soc, 13089} THEN 1
    ELSE IF s \in StartPowers \cup ChargePowers THEN 100 ELSE 10

HasNan(s) == s \in StartPowers

-----------------------------------------------------------------------------
(* number.py: the range of the entity *)

Low(s) == IF s = max_soc THEN 500 ELSE IF s \in ChargePowers THEN 100 ELSE 0

(* A slip: the declared maximum is not passed on. *)
HighUndeclared(s) == 1000000

High(s) ==
    IF s = min_soc THEN 500
    ELSE IF s \in {max_soc, reserved_soc_for_backup} THEN 1000
    ELSE IF s \in StartPowers THEN 10000 ELSE 1000000

-----------------------------------------------------------------------------
(* Values and words *)

(* A slip: the value is cut off, not rounded. *)
EncodeCut(s, v) == v \div Scale(s)

(* The nearest step of the register; here a value half way goes up.          *)
Encode(s, v) == (v + Scale(s) \div 2) \div Scale(s)

(* current_option and is_on: codes that are not declared have no value.      *)
OptionShown(s) == IF reg[s] \in OptionCodes(s) THEN reg[s] ELSE None

(* What the entity shows: a number in tenths, or the code of an option.      *)
Shown(s) ==
    IF s \in Numbers
    THEN IF HasNan(s) /\ reg[s] = MaxWord THEN None ELSE reg[s] * Scale(s)
    ELSE OptionShown(s)

-----------------------------------------------------------------------------
(* A slip: the value is stored whatever the width of the register.           *)
SetValueUnchecked(s, v) ==
    /\ s \in Numbers
    /\ Low(s) <= v /\ v <= High(s)
    /\ reg' = [reg EXCEPT ![s] = Encode(s, v)]
    /\ last' = [setting |-> s, value |-> v]

(* async_set_native_value.  A value that its register cannot hold is refused *)
(* by the Modbus library or loses its upper bits; which one is not decided   *)
(* in this repository.                                                       *)
SetValue(s, v) ==
    /\ s \in Numbers
    /\ Low(s) <= v /\ v <= High(s)
    /\ \/ Encode(s, v) \in Word /\ reg' = [reg EXCEPT ![s] = Encode(s, v)]
       \/ Encode(s, v) \notin Word /\ reg' = [reg EXCEPT ![s] = Encode(s, v) % (MaxWord + 1)]
       \/ Encode(s, v) \notin Word /\ reg' = reg
    /\ last' = [setting |-> s, value |-> v]

(* async_select_option, async_turn_on and async_turn_off. *)
SetOption(s, code) ==
    /\ s \in Selects \cup Switches
    /\ code \in OptionCodes(s)
    /\ reg' = [reg EXCEPT ![s] = code]
    /\ last' = [setting |-> s, value |-> code]

(* What the inverter allows at its panel: the declared range of a bounded    *)
(* number, and otherwise any word, also codes that the library does not know.*)
Allowed(s, w) ==
    s \in Bounded => Low(s) <= w * Scale(s) /\ w * Scale(s) <= High(s)

PanelChange(s, w) ==
    /\ Allowed(s, w)
    /\ reg' = [reg EXCEPT ![s] = w]
    /\ last' = NoCall

Init ==
    /\ reg \in [Settings -> PanelWords]
    /\ \A s \in Settings : Allowed(s, reg[s])
    /\ last = NoCall

Next ==
    \E s \in Settings :
        \/ \E v \in Requests : SetValue(s, v)
        \/ \E code \in OptionCodes(s) : SetOption(s, code)
        \/ \E w \in PanelWords : PanelChange(s, w)

Spec == Init /\ [][Next]_vars

-----------------------------------------------------------------------------
(* Properties *)

(* Type correctness. *)
TypeOK ==
    /\ reg \in [Settings -> Word]
    /\ last.setting \in Settings \cup {0}
    /\ last.value \in Nat \cup {None}

(* The battery's band is never turned over: the lower limit of the state of  *)
(* charge stays at or below the upper one, whatever is set in Home Assistant *)
(* and at the panel, and in which order, though neither entity looks at the  *)
(* other's value.  (battery.py:133-150, number.py:45-46)                     *)
SocBandOrdered ==
    {min_soc, max_soc} \subseteq Settings => reg[min_soc] <= reg[max_soc]

(* The numbers whose range is the default of the entity and exceeds the      *)
(* register.                                                                 *)
Unlimited == {13051, export_power_limit, 13089, 31212}

Fits(s, v) == s \in Unlimited => Encode(s, v) \in Word

(* What a service call set, and the register can hold, is what the entity    *)
(* shows until something changes it: within half a step of the register,     *)
(* never as a missing value, and an option as itself.  Exempt are the values *)
(* above a word that a number without a declared maximum accepts.            *)
(* (number.py:84-92, select.py:76-87, switch.py:74-90)                       *)
AcceptedIsShown ==
    last.setting \in Settings /\ Fits(last.setting, last.value) =>
        LET shown == Shown(last.setting) IN
        /\ shown # None
        /\ IF last.setting \in Numbers
           THEN /\ 2 * (shown - last.value) <= Scale(last.setting)
                /\ 2 * (last.value - shown) <= Scale(last.setting)
           ELSE shown = last.value
=============================================================================
