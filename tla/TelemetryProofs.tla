-------------------------- MODULE TelemetryProofs --------------------------
(***************************************************************************)
(* Proofs about Telemetry: for every set of fields that polling may have   *)
(* settled on, and any number of changes in the house between the reads,   *)
(* the computed values are true of moments of the update.                  *)
(***************************************************************************)
EXTENDS Telemetry, FiniteSetTheorems, WellFoundedInduction, TLAPS

-----------------------------------------------------------------------------
(* Lemmas about the declared registers *)

(* What every declared field has in common, two gaps in the addresses of the *)
(* input registers, and an address no holding register begins at.            *)
LEMMA DeclaredInputs ==
    ASSUME NEW f \in AllFields
    PROVE  /\ f.addr \in Nat /\ f.count \in Nat \ {0}
           /\ f.space \in {"input", "holding"}
           /\ f.space = "input" => f.addr \notin 4911..4917 /\ f.addr \notin 12902..12946
           /\ f.space = "holding" => f.addr # 12958
  <1> USE DEF At
  <1>1. CASE f \in DeviceInformation
    BY <1>1 DEF DeviceInformation
  <1>2. CASE f \in PVStrings
    BY <1>2 DEF PVStrings
  <1>3. CASE f \in InverterStatus
    BY <1>3 DEF InverterStatus
  <1>4. CASE f \in BatteryTelemetry
    BY <1>4 DEF BatteryTelemetry
  <1>5. CASE f \in BatterySettings
    BY <1>5 DEF BatterySettings
  <1>6. CASE f \in GridMeter
    BY <1>6 DEF GridMeter
  <1>7. CASE f \in BackupPower
    BY <1>7 DEF BackupPower
  <1>8. CASE f \in EnergyTotals
    BY <1>8 DEF EnergyTotals
  <1>9. CASE f \in Controls
    BY <1>9 DEF Controls
  <1>10. QED
    BY <1>1, <1>2, <1>3, <1>4, <1>5, <1>6, <1>7, <1>8, <1>9 DEF AllFields

(* An address and a space name one field. *)
LEMMA AddressIsUnique ==
    ASSUME NEW f \in AllFields, NEW g \in AllFields, f.space = g.space, f.addr = g.addr
    PROVE  f = g
  <1>1. f.addr <= g.addr /\ g.addr < End(f)
    BY DeclaredInputs DEF End
  <1>2. QED
    BY <1>1, LayoutAssumption

(* The field behind an attribute. *)
LEMMA FieldOfInput ==
    ASSUME NEW n \in DOMAIN Input, NEW f \in AllFields,
           f.space = "input", f.addr = Input[n]
    PROVE  n \in Attributes /\ FieldOf[n] = f
  <1>1. n \in Attributes
    BY DEF Attributes
  <1>2. FieldOf[n] = CHOOSE g \in AllFields : g.space = "input" /\ g.addr = Input[n]
    BY <1>1 DEF FieldOf
  <1>3. \A g \in AllFields : g.space = "input" /\ g.addr = Input[n] => g = f
    BY AddressIsUnique
  <1>4. QED
    BY <1>1, <1>2, <1>3

LEMMA FieldIsAt ==
    ASSUME NEW comp, NEW space, NEW count, NEW addresses, NEW a \in addresses,
           At(comp, space, count, addresses) \subseteq AllFields
    PROVE  \E f \in AllFields : f.space = space /\ f.addr = a /\ f.count = count
  <1>1. \E f \in At(comp, space, count, addresses) :
            f.space = space /\ f.addr = a /\ f.count = count
    <2> DEFINE f == [comp |-> comp, name |-> Names[comp], space |-> space,
                     addr |-> a, count |-> count]
    <2>1. f \in At(comp, space, count, addresses)
      BY DEF At
    <2>2. f.space = space /\ f.addr = a /\ f.count = count
      OBVIOUS
    <2>3. QED
      BY <2>1, <2>2
  <1>2. QED
    BY <1>1

(* The attributes of two registers. *)
Wide == {"power", "export_power_raw", "total_dc_power",
         "total_pv_generation", "total_exported_energy", "total_imported_energy",
         "total_battery_charge", "total_battery_discharge"}

(* The fields behind the attributes of the input registers. *)
LEMMA InputFields ==
    ASSUME NEW n \in DOMAIN Input
    PROVE  /\ n \in Attributes /\ FieldOf[n] \in AllFields
           /\ FieldOf[n].space = "input" /\ FieldOf[n].addr = Input[n]
           /\ FieldOf[n].count = IF n \in Wide THEN 2 ELSE 1
  <1> DEFINE Found(w) == \E f \in AllFields : /\ f.space = "input" /\ f.addr = Input[n]
                                              /\ f.count = w
  <1>1. CASE n \in {"daily_pv_generation", "daily_exported_energy", "daily_imported_energy",
                    "daily_battery_charge", "daily_battery_discharge"}
    <2> DEFINE addresses == {5002, 13001, 13004, 13011, 13016, 13025, 13035, 13039, 13044}
    <2>1. Input[n] \in addresses
      BY <1>1 DEF Input
    <2>2. At(8, "input", 1, addresses) \subseteq AllFields
      BY DEF AllFields, EnergyTotals
    <2>3. Found(1)
      BY <2>1, <2>2, FieldIsAt
    <2>4. QED
      BY <1>1, <2>3, FieldOfInput DEF Wide
  <1>2. CASE n \in {"total_pv_generation", "total_exported_energy", "total_imported_energy",
                    "total_battery_charge", "total_battery_discharge"}
    <2> DEFINE addresses == {5003, 13002, 13005, 13012, 13017, 13026, 13036, 13040, 13045}
    <2>1. Input[n] \in addresses
      BY <1>2 DEF Input
    <2>2. At(8, "input", 2, addresses) \subseteq AllFields
      BY DEF AllFields, EnergyTotals
    <2>3. Found(2)
      BY <2>1, <2>2, FieldIsAt
    <2>4. QED
      BY <1>2, <2>3, FieldOfInput DEF Wide
  <1>3. CASE n \in {"mppt1_voltage", "mppt1_current"}
    <2> DEFINE addresses == 5010..5015 \cup {5114, 5115}
    <2>1. Input[n] \in addresses
      BY <1>3 DEF Input
    <2>2. At(2, "input", 1, addresses) \subseteq AllFields
      BY DEF AllFields, PVStrings
    <2>3. Found(1)
      BY <2>1, <2>2, FieldIsAt
    <2>4. QED
      BY <1>3, <2>3, FieldOfInput DEF Wide
  <1>4. CASE n = "total_dc_power"
    <2>1. Input[n] \in {5016}
      BY <1>4 DEF Input
    <2>2. At(2, "input", 2, {5016}) \subseteq AllFields
      BY DEF AllFields, PVStrings
    <2>3. Found(2)
      BY <2>1, <2>2, FieldIsAt
    <2>4. QED
      BY <1>4, <2>3, FieldOfInput DEF Wide
  <1>5. CASE n \in {"phase_a_voltage", "phase_a_current"}
    <2> DEFINE addresses == {5007, 5018, 5019, 5020, 5034, 12999, 13000, 13030, 13031, 13032}
    <2>1. Input[n] \in addresses
      BY <1>5 DEF Input
    <2>2. At(3, "input", 1, addresses) \subseteq AllFields
      BY DEF AllFields, InverterStatus
    <2>3. Found(1)
      BY <2>1, <2>2, FieldIsAt
    <2>4. QED
      BY <1>5, <2>3, FieldOfInput DEF Wide
  <1>6. CASE n = "power"
    <2>1. Input[n] \in {5213}
      BY <1>6 DEF Input
    <2>2. At(4, "input", 2, {5213}) \subseteq AllFields
      BY DEF AllFields, BatteryTelemetry
    <2>3. Found(2)
      BY <2>1, <2>2, FieldIsAt
    <2>4. QED
      BY <1>6, <2>3, FieldOfInput DEF Wide
  <1>7. CASE n = "export_power_raw"
    <2> DEFINE addresses == {5600, 5602, 5604, 5606, 13007, 13009}
    <2>1. Input[n] \in addresses
      BY <1>7 DEF Input
    <2>2. At(6, "input", 2, addresses) \subseteq AllFields
      BY DEF AllFields, GridMeter
    <2>3. Found(2)
      BY <2>1, <2>2, FieldIsAt
    <2>4. QED
      BY <1>7, <2>3, FieldOfInput DEF Wide
  <1>8. CASE n \in {"level", "state_of_health", "capacity_high_precision"}
    <2> DEFINE addresses == {5627, 5630, 5634, 5635, 5638, 13019, 13022, 13023, 13024}
    <2>1. Input[n] \in addresses
      BY <1>8 DEF Input
    <2>2. At(4, "input", 1, addresses) \subseteq AllFields
      BY DEF AllFields, BatteryTelemetry
    <2>3. Found(1)
      BY <2>1, <2>2, FieldIsAt
    <2>4. QED
      BY <1>8, <2>3, FieldOfInput DEF Wide
  <1>9. QED
    BY <1>1, <1>2, <1>3, <1>4, <1>5, <1>6, <1>7, <1>8 DEF Input

(* The fields behind both limits of the battery. *)
LEMMA HoldingFields ==
    ASSUME NEW n \in DOMAIN Holding
    PROVE  /\ n \in Attributes /\ FieldOf[n] \in AllFields
           /\ FieldOf[n].space = "holding" /\ FieldOf[n].addr = Holding[n]
           /\ FieldOf[n].count = 1
  <1> DEFINE addresses == {13050, 13051, 13057, 13058, 13099, 33046, 33047, 33148, 33149}
  <1>1. Holding[n] \in addresses
    BY DEF Holding
  <1>2. At(5, "holding", 1, addresses) \subseteq AllFields
    BY DEF AllFields, BatterySettings
  <1>3. PICK f \in AllFields : f.space = "holding" /\ f.addr = Holding[n] /\ f.count = 1
    BY <1>1, <1>2, FieldIsAt
  <1>4. n \in Attributes /\ n \notin DOMAIN Input
    BY DEF Attributes, Holding, Input
  <1>5. FieldOf[n] = CHOOSE g \in AllFields : g.space = "holding" /\ g.addr = Holding[n]
    BY <1>4 DEF FieldOf
  <1>6. \A g \in AllFields : g.space = "holding" /\ g.addr = Holding[n] => g = f
    BY <1>3, AddressIsUnique
  <1>7. FieldOf[n] = f
    BY <1>3, <1>5, <1>6
  <1>8. QED
    BY <1>3, <1>4, <1>7

-----------------------------------------------------------------------------
(* Lemmas about the plan *)

LEMMA SmallestNumber ==
    ASSUME NEW S \in SUBSET Nat, S # {}
    PROVE  \E n \in S : \A k \in S : n <= k
  <1> DEFINE R == OpToRel(<, Nat)
  <1>1. IsWellFoundedOn(R, Nat)
    BY NatLessThanWellFounded
  <1> HIDE DEF R
  <1>2. PICK n \in S : \A k \in S : <<k, n>> \notin R
    BY <1>1, WFMin
  <1>3. \A k \in S : k < n => <<k, n>> \in R
    BY DEF R, OpToRel
  <1>4. \A k \in S : ~(k < n)
    BY <1>2, <1>3
  <1>5. \A k \in S : n <= k
    BY <1>4
  <1>6. QED
    BY <1>5

(* The next block begins with the first field left in its space, takes input *)
(* registers before holding registers, and ends with the last field that     *)
(* fits.                                                                     *)
LEMMA BlockOfPlan ==
    ASSUME NEW S \in SUBSET AllFields, S # {}
    PROVE  \E first \in S, last \in S :
              /\ NextBlock(S) = Span(first, last) /\ last.space = first.space
              /\ (\E f \in S : f.space = "input") => first.space = "input"
              /\ \A g \in S : g.space = first.space => first.addr <= g.addr
              /\ End(last) <= first.addr + max_span
              /\ \A g \in S : g.space = first.space /\ End(g) <= first.addr + max_span
                                => g.addr <= last.addr
  <1> DEFINE space == IF \E f \in S : f.space = "input" THEN "input" ELSE "holding"
             mine  == {f \in S : f.space = space}
             first == CHOOSE f \in mine : \A g \in mine : f.addr <= g.addr
             fits  == {g \in mine : End(g) - first.addr <= MaxSpan}
             last  == CHOOSE g \in fits : \A h \in fits : h.addr <= g.addr
             top   == first.addr + max_span
  <1>1. \A f \in S : /\ f.addr \in Nat /\ f.count \in Nat \ {0} /\ f.count <= max_span
                     /\ f.space \in {"input", "holding"}
    BY DeclaredInputs, LayoutAssumption
  <1>2. mine \subseteq S /\ mine # {}
    BY <1>1
  <1>3. (\E f \in S : f.space = "input") => space = "input"
    OBVIOUS
  <1>4. NextBlock(S) = Span(first, last)
    BY DEF NextBlock
  <1>5. \A f \in mine : f.space = space
    OBVIOUS
  <1>6. \A f \in S : f.space = space => f \in mine
    OBVIOUS
  <1> HIDE DEF space, mine
  <1>7. first \in mine /\ \A g \in mine : first.addr <= g.addr
    <2>1. {f.addr : f \in mine} \in SUBSET Nat /\ {f.addr : f \in mine} # {}
      BY <1>1, <1>2
    <2>2. PICK n \in {f.addr : f \in mine} : \A k \in {f.addr : f \in mine} : n <= k
      BY <2>1, SmallestNumber
    <2>3. \E f \in mine : \A g \in mine : f.addr <= g.addr
      BY <2>2
    <2>4. QED
      BY <2>3
  <1> HIDE DEF first
  <1>8. first \in S /\ first.addr \in Nat /\ top \in Nat /\ MaxSpan = max_span /\ max_span \in Nat
    BY <1>1, <1>2, <1>7, PlansAssumption DEF max_span
  <1>9. \A g \in mine : g \in fits <=> End(g) <= top
    BY <1>1, <1>2, <1>8 DEF End
  <1>10. first \in fits
    BY <1>1, <1>7, <1>8, <1>9 DEF End
  <1>11. fits \subseteq mine
    OBVIOUS
  <1> HIDE DEF fits
  <1>12. last \in fits /\ \A h \in fits : h.addr <= last.addr
    <2> DEFINE distances == {top - f.addr : f \in fits}
    <2>1. \A f \in fits : f.addr \in Nat /\ f.addr <= top
      BY <1>1, <1>2, <1>8, <1>9, <1>11 DEF End
    <2>2. distances \in SUBSET Nat /\ distances # {}
      BY <1>8, <1>10, <2>1
    <2>3. PICK n \in distances : \A k \in distances : n <= k
      BY <2>2, SmallestNumber
    <2>4. PICK g \in fits : n = top - g.addr
      BY <2>3
    <2>5. \A h \in fits : top - g.addr <= top - h.addr
      BY <2>3, <2>4
    <2>6. \A h \in fits : h.addr <= g.addr
      BY <1>8, <2>1, <2>5
    <2>7. QED
      BY <2>6
  <1> HIDE DEF last
  <1>13. last \in S /\ End(last) <= top
    BY <1>2, <1>9, <1>11, <1>12
  <1>14. first.space = space /\ last.space = space
    BY <1>5, <1>7, <1>11, <1>12
  <1>15. \A g \in S : g.space = space => first.addr <= g.addr
    BY <1>6, <1>7
  <1>16. \A g \in S : g.space = space /\ End(g) <= top => g.addr <= last.addr
    BY <1>6, <1>9, <1>12
  <1>17. QED
    BY <1>3, <1>4, <1>8, <1>13, <1>14, <1>15, <1>16

(* Fields of a window before which       the addresses leave a gap of the    *)
(* right place come with one read: a block that begins before the gap ends   *)
(* before the window, and any other takes all that is left in it.            *)
LEMMA WindowComesTogether ==
    ASSUME NEW S \in SUBSET AllFields, S # {},
           NEW low \in Nat, NEW high \in Nat,
           NEW f \in S, NEW g \in S, f.space = g.space,
           \A h \in AllFields : h.space = f.space =>
               h.addr + max_span <= low \/ high <= h.addr + max_span,
           low < End(f), End(g) <= high,
           Covers(NextBlock(S), f)
    PROVE  Covers(NextBlock(S), g)
  <1>1. PICK first \in S, last \in S :
              /\ NextBlock(S) = Span(first, last) /\ last.space = first.space
              /\ \A h \in S : h.space = first.space => first.addr <= h.addr
              /\ End(last) <= first.addr + max_span
              /\ \A h \in S : h.space = first.space /\ End(h) <= first.addr + max_span
                                => h.addr <= last.addr
    BY BlockOfPlan
  <1>2. first.space = f.space /\ last.space = f.space
    BY <1>1 DEF Covers, Span
  <1>3. /\ first.addr \in Nat /\ last.addr \in Nat /\ g.addr \in Nat /\ f.addr \in Nat
        /\ last.count \in Nat \ {0} /\ g.count \in Nat \ {0} /\ f.count \in Nat \ {0}
        /\ max_span \in Nat
    BY DeclaredInputs DEF max_span
  <1>4. End(f) <= End(last)
    BY <1>1, <1>3 DEF Covers, Span, End
  <1>5. high <= first.addr + max_span
    BY <1>1, <1>2, <1>3, <1>4 DEF End
  <1>6. g.addr <= last.addr
    BY <1>1, <1>2, <1>3, <1>5 DEF End
  <1>7. End(g) <= End(last)
    <2>1. CASE last.addr < End(g)
      BY <1>2, <1>6, <2>1, LayoutAssumption, <1>3 DEF End
    <2>2. CASE End(g) <= last.addr
      BY <1>3, <2>2 DEF End
    <2>3. QED
      BY <1>3, <2>1, <2>2 DEF End
  <1>8. first.addr <= g.addr
    BY <1>1, <1>2
  <1>9. QED
    BY <1>1, <1>2, <1>3, <1>7, <1>8 DEF Covers, Span, End

-----------------------------------------------------------------------------
(* Lemmas about words and values *)

(* The value is one that the registers of the attribute can hold. *)
InRegister(n, v) ==
    /\ v \in Int
    /\ n \in Wide /\ n \in Signed       => 0 - 2147483648 <= v /\ v <= 2147483647
    /\ n \in Wide /\ n \notin Signed    => 0 <= v /\ v <= 4294967295
    /\ n \notin Wide /\ n \in Signed    => 0 - 32768 <= v /\ v <= 32767
    /\ n \notin Wide /\ n \notin Signed => 0 <= v /\ v <= 65535

LEMMA AttributeFields ==
    ASSUME NEW n \in Attributes
    PROVE  FieldOf[n] \in AllFields /\ FieldOf[n].count = IF n \in Wide THEN 2 ELSE 1
  <1>1. CASE n \in DOMAIN Input
    BY <1>1, InputFields
  <1>2. CASE n \in DOMAIN Holding
    BY <1>2, HoldingFields DEF Holding, Wide
  <1>3. QED
    BY <1>1, <1>2 DEF Attributes

(* A word is what is left of a value in a register.                          *)
LEMMA WordFacts ==
    ASSUME NEW v \in Int
    PROVE  v % Word \in 0..(Word - 1) /\ (v \div Word) \in Int
  <1>1. /\ Word \in Int /\ v % Word \in Int /\ 0 <= v % Word /\ v % Word < Word
        /\ (v \div Word) \in Int
    BY SMT DEF Word
  <1>2. QED
    BY <1>1

LEMMA WordsAreWords ==
    ASSUME NEW n \in Attributes, NEW v \in Int
    PROVE  \A i \in DOMAIN Words(n, v) : Words(n, v)[i] \in 0..(Word - 1)
  <1>1. v % Word \in 0..(Word - 1) /\ (v \div Word) % Word \in 0..(Word - 1)
    BY WordFacts
  <1>2. \/ Words(n, v) = <<v % Word>>
        \/ Words(n, v) = <<v % Word, (v \div Word) % Word>>
    BY DEF Words
  <1>3. QED
    BY <1>1, <1>2

(* Words give back the value they stand for.                                 *)
LEMMA WordsKeepTheValue ==
    ASSUME NEW n \in Attributes, NEW v, InRegister(n, v)
    PROVE  Number(n, Words(n, v)) = v
  <1>1. v \in Int
    BY DEF InRegister
  <1>2. CASE n \in Wide
    <2>1. Words(n, v) = <<v % Word, (v \div Word) % Word>>
      BY <1>2, AttributeFields DEF Words
    <2>2. Number(n, Words(n, v)) =
            IF n \in Signed THEN Int32(Words(n, v)) ELSE Uint32(Words(n, v))
      BY <1>2, AttributeFields DEF Number
    <2>3. CASE n \in Signed
      <3>1. 0 - 2147483648 <= v /\ v <= 2147483647
        BY <1>2, <2>3, SMT DEF InRegister
      <3>2. Int32(Words(n, v)) = v
        BY <1>1, <2>1, <3>1, SMT DEF Int32, Word
      <3>3. QED
        BY <2>2, <2>3, <3>2
    <2>4. CASE n \notin Signed
      <3>1. 0 <= v /\ v <= 4294967295
        BY <1>2, <2>4, SMT DEF InRegister
      <3>2. Uint32(Words(n, v)) = v
        BY <1>1, <2>1, <3>1, SMT DEF Uint32, Word
      <3>3. QED
        BY <2>2, <2>4, <3>2
    <2>5. QED
      BY <2>3, <2>4
  <1>3. CASE n \notin Wide
    <2>1. Words(n, v) = <<v % Word>>
      BY <1>3, AttributeFields DEF Words
    <2>2. Number(n, Words(n, v)) =
            IF n \in Signed THEN Int16(Words(n, v)) ELSE Words(n, v)[1]
      BY <1>3, AttributeFields DEF Number
    <2>3. CASE n \in Signed
      <3>1. 0 - 32768 <= v /\ v <= 32767
        BY <1>3, <2>3, SMT DEF InRegister
      <3>2. Int16(Words(n, v)) = v
        BY <1>1, <2>1, <3>1, SMT DEF Int16, Word
      <3>3. QED
        BY <2>2, <2>3, <3>2
    <2>4. CASE n \notin Signed
      <3>1. 0 <= v /\ v <= 65535
        BY <1>3, <2>4, SMT DEF InRegister
      <3>2. Words(n, v)[1] = v
        BY <1>1, <2>1, <3>1, SMT DEF Word
      <3>3. QED
        BY <2>2, <2>4, <3>2
    <2>5. QED
      BY <2>3, <2>4
  <1>4. QED
    BY <1>2, <1>3

(* What is decoded is the value, or nothing where it is the marker.          *)
LEMMA DecodeGivesTheValue ==
    ASSUME NEW n \in Attributes, NEW v, InRegister(n, v), Decode(n, Words(n, v)) # None
    PROVE  Decode(n, Words(n, v)) = v
  BY WordsKeepTheValue DEF Decode

-----------------------------------------------------------------------------
(* The inductive invariant *)

(* What a field can stand for. *)
Fits(n, v) ==
    /\ InRegister(n, v)
    /\ n \in {"level", "state_of_health"} => v <= 1000
    /\ n = "min_soc" => v <= 500
    /\ n = "max_soc" => 500 <= v /\ v <= 1000

Types ==
    /\ resolved \in Resolutions
    /\ phase \in {"idle", "reading", "updated", "failed"}
    /\ next \in Nat /\ 1 <= next /\ next <= Len(Plans[resolved]) + 1
    /\ house = [n \in Attributes |-> house[n]] /\ attr = [n \in Attributes |-> attr[n]]
    /\ consumed \in [daily : Int, total : Int]
    /\ IsFiniteSet(during)
    /\ changes \in Nat /\ changes <= MaxChanges
    /\ faults \in Nat /\ faults <= MaxFaults

(* The registers hold what the house has, and so do the decoded values. *)
HouseFits == \A n \in Attributes : Fits(n, house[n])
AttrFits  == \A n \in Attributes : attr[n] # None => Fits(n, attr[n])

(* No counter runs ahead of the changes in the house. *)
CountersAreSlow ==
    \A m \in DOMAIN Daily : /\ house[Daily[m]] <= changes
                            /\ house[Total[m]] <= 65535 + changes

(* Energy is neither made nor lost. *)
Balanced ==
    /\ consumed.daily =
         house["daily_pv_generation"] - house["daily_exported_energy"]
         + house["daily_imported_energy"] - house["daily_battery_charge"]
         + house["daily_battery_discharge"]
    /\ consumed.total =
         house["total_pv_generation"] - house["total_exported_energy"]
         + house["total_imported_energy"] - house["total_battery_charge"]
         + house["total_battery_discharge"]

(* Attributes whose registers lie in one window. *)
Energy  == {Daily[m] : m \in DOMAIN Daily} \cup {Total[m] : m \in DOMAIN Total}
Strings == {"mppt1_voltage", "mppt1_current", "total_dc_power"}
Limits  == {"min_soc", "max_soc"}

(* The attribute's field is polled, and the update has read it. *)
Read(n) == FieldOf[n] \in resolved \ Left(resolved, next)

(* The plan goes through the addresses in order, and takes a window at once. *)
Ordered(R, i) ==
    \A f \in Left(R, i), g \in R \ Left(R, i) : f.space = g.space => End(g) <= f.addr

Whole(R, i, G) ==
    \A n, m \in G : FieldOf[n] \in Left(R, i) /\ FieldOf[m] \in R
                        => FieldOf[m] \in Left(R, i)

PlanIsKept ==
    /\ Ordered(resolved, next)
    /\ Whole(resolved, next, Energy) /\ Whole(resolved, next, Strings)
    /\ Whole(resolved, next, Limits)
    /\ phase = "updated" => Left(resolved, next) = {}

UnpolledIsUnknown == \A n \in Attributes : FieldOf[n] \notin resolved => attr[n] = None

(* What has been read in this update is of a moment of this update. *)
Moment == [power |-> "battery", export_power_raw |-> "grid",
           phase_a_voltage |-> "voltage", phase_a_current |-> "current",
           level |-> "level"]

EnergyAt(s) ==
    /\ daily_consumed_energy # None => daily_consumed_energy = s.daily
    /\ total_consumed_energy # None => total_consumed_energy = s.total

StringsAt(s) ==
    /\ mppt1_power # None => mppt1_power = s.string
    /\ attr["total_dc_power"] # None => attr["total_dc_power"] = s.dc

BandAt(s) ==
    /\ attr["min_soc"] # None => attr["min_soc"] = s.band[1]
    /\ attr["max_soc"] # None => attr["max_soc"] = s.band[2]

ReadIsTrue ==
    /\ (\E n \in Energy : Read(n))  => \E s \in during : EnergyAt(s)
    /\ (\E n \in Strings : Read(n)) => \E s \in during : StringsAt(s)
    /\ (\E n \in Limits : Read(n))  => \E s \in during : BandAt(s)
    /\ \A n \in DOMAIN Moment :
          Read(n) /\ attr[n] # None => \E s \in during : attr[n] = s[Moment[n]]

TelemetryInv ==
    /\ Types /\ HouseFits /\ AttrFits /\ CountersAreSlow /\ Balanced
    /\ PlanIsKept /\ UnpolledIsUnknown
    /\ Snapshot \in during
    /\ phase \in {"reading", "updated"} => ReadIsTrue

-----------------------------------------------------------------------------
(* The plan is kept *)

LEMMA BlockOfStep ==
    ASSUME NEW R \in Resolutions, NEW i \in Nat, 1 <= i, i <= Len(Plans[R])
    PROVE  /\ Left(R, i) \in SUBSET AllFields /\ Left(R, i) \subseteq R /\ Left(R, i) # {}
           /\ Plans[R][i] = NextBlock(Left(R, i))
           /\ Left(R, i + 1) = {f \in Left(R, i) : ~Covers(Plans[R][i], f)}
  <1>1. R \subseteq AllFields /\ Len(Plans[R]) \in Nat
    BY PlansAssumption
  <1>2. Left(R, i) \subseteq R
    BY DEF Left
  <1>3. i \in 1..Len(Plans[R])
    BY <1>1
  <1>4. Left(R, i) # {} /\ Plans[R][i] = NextBlock(Left(R, i))
    BY <1>3, PlansAssumption
  <1>5. \A j \in Int : j \in 1..((i + 1) - 1) <=> j \in 1..(i - 1) \/ j = i
    OBVIOUS
  <1>6. Left(R, i + 1) = {f \in Left(R, i) : ~Covers(Plans[R][i], f)}
    <2>1. ASSUME NEW f \in R
          PROVE  f \in Left(R, i + 1) <=> f \in Left(R, i) /\ ~Covers(Plans[R][i], f)
      BY <1>5 DEF Left
    <2>2. Left(R, i + 1) \subseteq R
      BY DEF Left
    <2>3. QED
      BY <1>2, <2>1, <2>2
  <1>7. QED
    BY <1>1, <1>2, <1>4, <1>6

(* A block reads nothing twice, and leaves only what lies behind it. *)
LEMMA OrderGoesOn ==
    ASSUME NEW R \in Resolutions, NEW i \in Nat, 1 <= i, i <= Len(Plans[R]),
           Ordered(R, i)
    PROVE  /\ Ordered(R, i + 1)
           /\ \A f \in R : Covers(Plans[R][i], f) => f \in Left(R, i)
  <1> DEFINE S == Left(R, i)
  <1>1. /\ S \in SUBSET AllFields /\ S \subseteq R /\ S # {} /\ R \subseteq AllFields
        /\ Plans[R][i] = NextBlock(S)
        /\ Left(R, i + 1) = {f \in S : ~Covers(Plans[R][i], f)}
    <2>1. R \subseteq AllFields
      BY PlansAssumption
    <2>2. QED
      BY <2>1, BlockOfStep
  <1>2. \A f \in S, g \in R \ S : f.space = g.space => End(g) <= f.addr
    BY DEF Ordered
  <1> HIDE DEF S
  <1>3. PICK first \in S, last \in S :
              /\ NextBlock(S) = Span(first, last) /\ last.space = first.space
              /\ \A g \in S : g.space = first.space => first.addr <= g.addr
    BY <1>1, BlockOfPlan
  <1>4. \A f \in R : f.addr \in Nat /\ f.count \in Nat \ {0}
    BY <1>1, DeclaredInputs
  <1>5. \A f \in R : Covers(Plans[R][i], f) <=>
                /\ f.space = first.space /\ first.addr <= f.addr /\ End(f) <= End(last)
    BY <1>1, <1>3, <1>4 DEF Covers, Span, End
  <1>6. ASSUME NEW f \in R, Covers(Plans[R][i], f)
        PROVE  f \in S
    <2>1. f.space = first.space /\ first.addr <= f.addr
      BY <1>5, <1>6
    <2>2. first \in R
      BY <1>1, <1>3
    <2>3. CASE f \notin S
      BY <1>2, <1>3, <1>4, <2>1, <2>2, <2>3 DEF End
    <2>4. QED
      BY <2>3
  <1>7. ASSUME NEW f \in S, ~Covers(Plans[R][i], f), f.space = first.space
        PROVE  End(last) <= f.addr
    <2>1. f \in R /\ last \in R /\ f \in AllFields /\ last \in AllFields
      BY <1>1, <1>3
    <2>2. /\ f.addr \in Nat /\ last.addr \in Nat
          /\ f.count \in Nat \ {0} /\ last.count \in Nat \ {0}
      BY <1>4, <2>1
    <2>3. first.addr <= f.addr
      BY <1>3, <1>7
    <2>4. End(last) < End(f)
      BY <1>5, <1>7, <2>1, <2>2, <2>3 DEF End
    <2>5. CASE f.addr <= last.addr
      <3>1. last.addr < End(f)
        BY <2>2, <2>4 DEF End
      <3>2. f = last
        BY <1>3, <1>7, <2>1, <2>5, <3>1, LayoutAssumption
      <3>3. QED
        BY <2>2, <2>4, <3>2 DEF End
    <2>6. CASE last.addr < f.addr /\ f.addr < End(last)
      <3>1. f = last
        BY <1>3, <1>7, <2>1, <2>2, <2>6, LayoutAssumption
      <3>2. QED
        BY <2>2, <2>4, <3>1 DEF End
    <2>7. QED
      BY <2>2, <2>5, <2>6 DEF End
  <1>8. ASSUME NEW f \in Left(R, i + 1), NEW g \in R \ Left(R, i + 1), f.space = g.space
        PROVE  End(g) <= f.addr
    <2>1. f \in S /\ ~Covers(Plans[R][i], f)
      BY <1>1
    <2>2. CASE g \notin S
      BY <1>2, <1>8, <2>1, <2>2
    <2>3. CASE g \in S
      <3>1. Covers(Plans[R][i], g)
        BY <1>1, <2>3
      <3>2. g.space = first.space /\ End(g) <= End(last)
        BY <1>5, <3>1
      <3>3. End(last) <= f.addr
        BY <1>7, <1>8, <2>1, <3>2
      <3>4. f \in R /\ last \in R
        BY <1>1, <1>3, <2>1
      <3>5. QED
        BY <1>4, <3>2, <3>3, <3>4 DEF End
    <2>4. QED
      BY <2>2, <2>3
  <1>9. Ordered(R, i + 1)
    BY <1>8 DEF Ordered
  <1>10. QED
    BY <1>6, <1>9 DEF S

(* The fields of a window come with one block. *)
Window(G, space, low, high) ==
    /\ G \subseteq Attributes /\ low \in Nat /\ high \in Nat
    /\ \A n \in G : /\ FieldOf[n].space = space
                     /\ low < End(FieldOf[n]) /\ End(FieldOf[n]) <= high
    /\ \A h \in AllFields : h.space = space =>
          h.addr + max_span <= low \/ high <= h.addr + max_span

LEMMA WindowGoesOn ==
    ASSUME NEW R \in Resolutions, NEW i \in Nat, 1 <= i, i <= Len(Plans[R]),
           NEW G, NEW space, NEW low, NEW high, Window(G, space, low, high), Whole(R, i, G)
    PROVE  /\ Whole(R, i + 1, G)
           /\ \A n, m \in G :
                 FieldOf[n] \in Left(R, i) /\ Covers(Plans[R][i], FieldOf[n])
                   /\ FieldOf[m] \in R
                 => FieldOf[m] \in Left(R, i) /\ Covers(Plans[R][i], FieldOf[m])
  <1>1. /\ Left(R, i) \in SUBSET AllFields /\ Left(R, i) # {} /\ Left(R, i) \subseteq R
        /\ Plans[R][i] = NextBlock(Left(R, i))
        /\ Left(R, i + 1) = {f \in Left(R, i) : ~Covers(Plans[R][i], f)}
    BY BlockOfStep
  <1>2. ASSUME NEW n \in G, NEW m \in G, FieldOf[n] \in Left(R, i),
               Covers(Plans[R][i], FieldOf[n]), FieldOf[m] \in R
        PROVE  FieldOf[m] \in Left(R, i) /\ Covers(Plans[R][i], FieldOf[m])
    <2>1. FieldOf[m] \in Left(R, i)
      BY <1>2 DEF Whole
    <2>3. FieldOf[n].space = space /\ FieldOf[m].space = space
      BY DEF Window
    <2>4. /\ low \in Nat /\ high \in Nat
          /\ low < End(FieldOf[n]) /\ End(FieldOf[m]) <= high
          /\ \A h \in AllFields : h.space = space =>
                h.addr + max_span <= low \/ high <= h.addr + max_span
      BY DEF Window
    <2>5. Covers(Plans[R][i], FieldOf[m])
      BY <1>1, <1>2, <2>1, <2>3, <2>4, WindowComesTogether
    <2>6. QED
      BY <2>1, <2>5
  <1>3. ASSUME NEW n \in G, NEW m \in G, FieldOf[n] \in Left(R, i + 1), FieldOf[m] \in R
        PROVE  FieldOf[m] \in Left(R, i + 1)
    <2>1. FieldOf[n] \in Left(R, i) /\ FieldOf[n] \in R /\ ~Covers(Plans[R][i], FieldOf[n])
      BY <1>1, <1>3
    <2>2. FieldOf[m] \in Left(R, i)
      BY <1>3, <2>1 DEF Whole
    <2>3. ~Covers(Plans[R][i], FieldOf[m])
      BY <1>2, <2>1, <2>2
    <2>4. QED
      BY <1>1, <2>2, <2>3
  <1>4. Whole(R, i + 1, G)
    BY <1>3 DEF Whole
  <1>5. QED
    BY <1>2, <1>4

LEMMA EnergyNames ==
    /\ Energy = {"daily_pv_generation", "daily_exported_energy", "daily_imported_energy",
                 "daily_battery_charge", "daily_battery_discharge",
                 "total_pv_generation", "total_exported_energy", "total_imported_energy",
                 "total_battery_charge", "total_battery_discharge"}
    /\ Energy \subseteq DOMAIN Input /\ Strings \subseteq DOMAIN Input
    /\ Energy \subseteq Attributes /\ Strings \subseteq Attributes
  <1>1. DOMAIN Daily = {"pv_generation", "imported_energy", "battery_discharge",
                        "exported_energy", "battery_charge"} /\ DOMAIN Total = DOMAIN Daily
    BY DEF Daily, Total
  <1>2. Energy = {"daily_pv_generation", "daily_exported_energy", "daily_imported_energy",
                 "daily_battery_charge", "daily_battery_discharge",
                 "total_pv_generation", "total_exported_energy", "total_imported_energy",
                 "total_battery_charge", "total_battery_discharge"}
    BY <1>1 DEF Energy, Daily, Total
  <1>3. QED
    BY <1>2 DEF Strings, Input, Attributes

LEMMA Windows ==
    /\ Window(Energy, "input", 13001, 13047) /\ Window(Strings, "input", 5010, 5018)
    /\ Window(Limits, "holding", 13057, 13059)
  <1>1. \A h \in AllFields : h.space = "input" =>
            /\ h.addr \in Nat
            /\ h.addr + max_span <= 13001 \/ 13047 <= h.addr + max_span
            /\ h.addr + max_span <= 5010 \/ 5018 <= h.addr + max_span
    BY DeclaredInputs DEF max_span
  <1>2. ASSUME NEW n \in Energy
        PROVE  FieldOf[n].space = "input" /\ 13001 < End(FieldOf[n]) /\ End(FieldOf[n]) <= 13047
    <2>1. /\ FieldOf[n].space = "input" /\ FieldOf[n].addr = Input[n]
          /\ FieldOf[n].count = IF n \in Wide THEN 2 ELSE 1
      BY EnergyNames, InputFields
    <2>2. Input[n] \in Nat /\ 13001 <= Input[n] /\ Input[n] <= 13045
      BY EnergyNames DEF Input
    <2>3. n = "daily_exported_energy" \/ n \notin Wide \/ Input[n] + 2 <= 13047
      BY <2>2
    <2>4. QED
      BY <2>1, <2>2 DEF End
  <1>3. ASSUME NEW n \in Strings
        PROVE  FieldOf[n].space = "input" /\ 5010 < End(FieldOf[n]) /\ End(FieldOf[n]) <= 5018
    <2>1. /\ FieldOf[n].space = "input" /\ FieldOf[n].addr = Input[n]
          /\ FieldOf[n].count = IF n \in Wide THEN 2 ELSE 1
      BY EnergyNames, InputFields
    <2>2. Input[n] \in Nat /\ 5010 <= Input[n] /\ Input[n] <= 5016
      BY DEF Strings, Input
    <2>3. QED
      BY <2>1, <2>2 DEF End
  <1>4. \A h \in AllFields : h.space = "holding" =>
            h.addr + max_span <= 13057 \/ 13059 <= h.addr + max_span
    BY DeclaredInputs DEF max_span
  <1>5. ASSUME NEW n \in Limits
        PROVE  /\ n \in Attributes /\ FieldOf[n].space = "holding"
               /\ 13057 < End(FieldOf[n]) /\ End(FieldOf[n]) <= 13059
    <2>1. n \in DOMAIN Holding /\ Holding[n] \in {13057, 13058}
      BY DEF Limits, Holding
    <2>2. QED
      BY <2>1, HoldingFields DEF End
  <1>6. Window(Energy, "input", 13001, 13047)
    BY <1>1, <1>2, EnergyNames DEF Window
  <1>7. Window(Strings, "input", 5010, 5018)
    BY <1>1, <1>3, EnergyNames DEF Window
  <1>8. Window(Limits, "holding", 13057, 13059)
    BY <1>4, <1>5 DEF Window
  <1>9. QED
    BY <1>6, <1>7, <1>8

-----------------------------------------------------------------------------
(* The house *)

(* What a house step leaves of the invariant to show. *)
HouseIsSound ==
    /\ house' = [n \in Attributes |-> house'[n]] /\ consumed' \in [daily : Int, total : Int]
    /\ HouseFits' /\ CountersAreSlow' /\ Balanced'
    /\ Change

LEMMA CounterFacts ==
    ASSUME HouseFits
    PROVE  \A n \in Energy : n \in Attributes /\ house[n] \in Int /\ 0 <= house[n]
  <1>1. \A n \in Energy : n \notin Signed
    BY EnergyNames DEF Signed
  <1>2. ASSUME NEW n \in Energy
        PROVE  n \in Attributes /\ house[n] \in Int /\ 0 <= house[n]
    <2>1. n \in Attributes /\ n \notin Signed
      BY <1>1, EnergyNames
    <2>2. InRegister(n, house[n])
      BY <2>1 DEF HouseFits, Fits
    <2>3. QED
      BY <2>1, <2>2 DEF InRegister
  <1>3. QED
    BY <1>2

(* A counter within the bounds of the changes fits into its registers. *)
LEMMA CounterFits ==
    ASSUME NEW m \in DOMAIN Daily, NEW c \in Nat, c <= MaxChanges, NEW v \in Int, 0 <= v
    PROVE  /\ v <= c => Fits(Daily[m], v)
           /\ v <= 65535 + c => Fits(Total[m], v)
  <1>1. c <= 65535
    BY HouseAssumption, SMT DEF Word
  <1>2. Daily[m] \in Energy /\ Total[m] \in Energy
    BY DEF Energy, Daily, Total
  <1>3. /\ Daily[m] \notin Wide /\ Daily[m] \notin Signed
        /\ Daily[m] \notin {"level", "state_of_health", "min_soc", "max_soc"}
    BY DEF Daily, Wide, Signed
  <1>4. /\ Total[m] \in Wide /\ Total[m] \notin Signed
        /\ Total[m] \notin {"level", "state_of_health", "min_soc", "max_soc"}
    BY DEF Daily, Total, Wide, Signed
  <1>5. v <= c => v <= 65535
    BY <1>1, SMT
  <1>6. v <= 65535 + c => v <= 4294967295
    BY <1>1, SMT
  <1>7. v <= c => Fits(Daily[m], v)
    BY <1>3, <1>5, SMT DEF Fits, InRegister
  <1>8. v <= 65535 + c => Fits(Total[m], v)
    BY <1>4, <1>6, SMT DEF Fits, InRegister
  <1>9. QED
    BY <1>7, <1>8

LEMMA FlowIsSound ==
    ASSUME TelemetryInv, NEW source \in Sources, NEW sink \in Sinks \cup {"household"},
           Flow(source, sink)
    PROVE  HouseIsSound
  <1> DEFINE meters == {source, sink} \cap DOMAIN Daily
             counters == {Daily[m] : m \in meters} \cup {Total[m] : m \in meters}
  <1>1. /\ house' = [n \in Attributes |-> IF n \in counters THEN house[n] + 1 ELSE house[n]]
        /\ consumed' = IF sink = "household"
                       THEN [daily |-> consumed.daily + 1, total |-> consumed.total + 1]
                       ELSE consumed
        /\ Change
    BY DEF Flow
  <1>2. /\ changes \in Nat /\ changes' = changes + 1 /\ changes + 1 <= MaxChanges
        /\ MaxChanges \in Nat /\ consumed \in [daily : Int, total : Int]
    BY <1>1, HouseAssumption DEF Change, TelemetryInv, Types
  <1>3. HouseFits /\ CountersAreSlow /\ Balanced
    BY DEF TelemetryInv
  <1>4. \A m \in DOMAIN Daily : /\ Daily[m] \in counters <=> m \in {source, sink}
                                /\ Total[m] \in counters <=> m \in {source, sink}
    <2>1. \A m, k \in DOMAIN Daily : /\ Daily[m] = Daily[k] => m = k
                                     /\ Total[m] = Total[k] => m = k
                                     /\ Daily[m] # Total[k]
      BY DEF Daily, Total
    <2>2. \A m \in DOMAIN Daily : m \in meters <=> m \in {source, sink}
      OBVIOUS
    <2>3. meters \subseteq DOMAIN Daily
      OBVIOUS
    <2> HIDE DEF meters
    <2>4. QED
      BY <2>1, <2>2, <2>3
  <1>5. counters \subseteq Energy
    BY DEF Energy, Daily, Total
  <1>6. \A n \in Attributes : n \notin Energy => house'[n] = house[n]
    BY <1>1, <1>5
  <1>7. \A m \in DOMAIN Daily :
            /\ house'[Daily[m]] = IF m \in {source, sink} THEN house[Daily[m]] + 1
                                                          ELSE house[Daily[m]]
            /\ house'[Total[m]] = IF m \in {source, sink} THEN house[Total[m]] + 1
                                                          ELSE house[Total[m]]
    <2>1. \A m \in DOMAIN Daily : Daily[m] \in Attributes /\ Total[m] \in Attributes
      BY DEF Daily, Total, Attributes, Input
    <2>2. QED
      BY <1>1, <1>4, <2>1
  <1>8. \A m \in DOMAIN Daily : /\ house[Daily[m]] \in Int /\ house[Total[m]] \in Int
                                /\ 0 <= house[Daily[m]] /\ 0 <= house[Total[m]]
    <2>1. \A m \in DOMAIN Daily : Daily[m] \in Energy /\ Total[m] \in Energy
      BY DEF Energy, Daily, Total
    <2>2. QED
      BY <1>3, <2>1, CounterFacts
  <1> HIDE DEF counters, meters
  <1>9. CountersAreSlow'
    <2>1. ASSUME NEW m \in DOMAIN Daily
          PROVE  house'[Daily[m]] <= changes + 1 /\ house'[Total[m]] <= 65535 + (changes + 1)
      <3>1. house[Daily[m]] <= changes /\ house[Total[m]] <= 65535 + changes
        BY <1>3 DEF CountersAreSlow
      <3>2. /\ house'[Daily[m]] <= house[Daily[m]] + 1
            /\ house'[Total[m]] <= house[Total[m]] + 1
        BY <1>7, <1>8
      <3>3. house'[Daily[m]] \in Int /\ house'[Total[m]] \in Int
        BY <1>7, <1>8
      <3>4. house[Daily[m]] \in Int /\ house[Total[m]] \in Int /\ changes \in Int
        BY <1>2, <1>8
      <3>5. QED
        BY <3>1, <3>2, <3>3, <3>4, SMT
    <2>2. QED
      BY <1>2, <2>1 DEF CountersAreSlow
  <1>10. HouseFits'
    <2>1. ASSUME NEW n \in Attributes, n \notin Energy
          PROVE  Fits(n, house'[n])
      BY <1>3, <1>6, <2>1 DEF HouseFits
    <2>2. ASSUME NEW m \in DOMAIN Daily
          PROVE  Fits(Daily[m], house'[Daily[m]]) /\ Fits(Total[m], house'[Total[m]])
      <3>1. /\ house'[Daily[m]] \in Int /\ 0 <= house'[Daily[m]]
            /\ house'[Total[m]] \in Int /\ 0 <= house'[Total[m]]
        BY <1>7, <1>8
      <3>2. house'[Daily[m]] <= changes' /\ house'[Total[m]] <= 65535 + changes'
        BY <1>9 DEF CountersAreSlow
      <3>3. changes' \in Nat /\ changes' <= MaxChanges
        BY <1>2
      <3>4. QED
        BY <3>1, <3>2, <3>3, CounterFits
    <2>3. DOMAIN Total = DOMAIN Daily
      BY DEF Daily, Total
    <2>4. ASSUME NEW n \in Energy
          PROVE  Fits(n, house'[n])
      BY <2>2, <2>3 DEF Energy
    <2>5. QED
      BY <2>1, <2>4 DEF HouseFits
  <1>11. /\ consumed' \in [daily : Int, total : Int]
         /\ consumed'.daily = IF sink = "household" THEN consumed.daily + 1 ELSE consumed.daily
         /\ consumed'.total = IF sink = "household" THEN consumed.total + 1 ELSE consumed.total
    BY <1>1, <1>2
  <1>12. Balanced'
    <2> DEFINE Step(m, v) == IF m \in {source, sink} THEN v + 1 ELSE v
    <2>1. /\ house'["daily_pv_generation"] = Step("pv_generation", house["daily_pv_generation"])
          /\ house'["daily_exported_energy"] = Step("exported_energy", house["daily_exported_energy"])
          /\ house'["daily_imported_energy"] = Step("imported_energy", house["daily_imported_energy"])
          /\ house'["daily_battery_charge"] = Step("battery_charge", house["daily_battery_charge"])
          /\ house'["daily_battery_discharge"]
               = Step("battery_discharge", house["daily_battery_discharge"])
      BY <1>7 DEF Daily
    <2>2. /\ house'["total_pv_generation"] = Step("pv_generation", house["total_pv_generation"])
          /\ house'["total_exported_energy"] = Step("exported_energy", house["total_exported_energy"])
          /\ house'["total_imported_energy"] = Step("imported_energy", house["total_imported_energy"])
          /\ house'["total_battery_charge"] = Step("battery_charge", house["total_battery_charge"])
          /\ house'["total_battery_discharge"]
               = Step("battery_discharge", house["total_battery_discharge"])
      BY <1>7 DEF Daily, Total
    <2>3. /\ house["daily_pv_generation"] \in Int /\ house["daily_exported_energy"] \in Int
          /\ house["daily_imported_energy"] \in Int /\ house["daily_battery_charge"] \in Int
          /\ house["daily_battery_discharge"] \in Int
      BY <1>8 DEF Daily
    <2>4. /\ house["total_pv_generation"] \in Int /\ house["total_exported_energy"] \in Int
          /\ house["total_imported_energy"] \in Int /\ house["total_battery_charge"] \in Int
          /\ house["total_battery_discharge"] \in Int
      BY <1>8 DEF Daily, Total
    <2>5. /\ consumed.daily \in Int /\ consumed.total \in Int
      BY <1>2
    <2>6. /\ source \in {"pv_generation", "imported_energy", "battery_discharge"}
          /\ sink \in {"exported_energy", "battery_charge", "household"}
      BY DEF Sources, Sinks
    <2>7. consumed'.daily =
             house'["daily_pv_generation"] - house'["daily_exported_energy"]
             + house'["daily_imported_energy"] - house'["daily_battery_charge"]
             + house'["daily_battery_discharge"]
      BY <1>3, <1>11, <2>1, <2>3, <2>5, <2>6, SMT DEF Balanced
    <2>8. consumed'.total =
             house'["total_pv_generation"] - house'["total_exported_energy"]
             + house'["total_imported_energy"] - house'["total_battery_charge"]
             + house'["total_battery_discharge"]
      BY <1>3, <1>11, <2>2, <2>4, <2>5, <2>6, SMT DEF Balanced
    <2>9. QED
      BY <2>7, <2>8 DEF Balanced
  <1>13. house' = [n \in Attributes |-> house'[n]]
    BY <1>1
  <1>14. QED
    BY <1>1, <1>9, <1>10, <1>11, <1>12, <1>13 DEF HouseIsSound

LEMMA MidnightIsSound ==
    ASSUME TelemetryInv, Midnight
    PROVE  HouseIsSound
  <1>1. /\ house' = [n \in Attributes |-> IF \E m \in DOMAIN Daily : n = Daily[m]
                                          THEN 0 ELSE house[n]]
        /\ consumed' = [consumed EXCEPT !.daily = 0]
        /\ Change
    BY DEF Midnight
  <1>2. /\ changes \in Nat /\ changes' = changes + 1 /\ changes + 1 <= MaxChanges
        /\ MaxChanges \in Nat /\ consumed \in [daily : Int, total : Int]
    BY <1>1, HouseAssumption DEF Change, TelemetryInv, Types
  <1>3. HouseFits /\ CountersAreSlow /\ Balanced
    BY DEF TelemetryInv
  <1>4. /\ consumed' \in [daily : Int, total : Int]
        /\ consumed'.daily = 0 /\ consumed'.total = consumed.total
    BY <1>1, <1>2
  <1>5. \A m \in DOMAIN Daily : /\ Daily[m] \in Energy /\ Total[m] \in Energy
                                /\ Daily[m] \in Attributes /\ Total[m] \in Attributes
    BY EnergyNames DEF Energy, Daily, Total
  <1>6. \A m, k \in DOMAIN Daily : Total[m] # Daily[k]
    BY DEF Daily, Total
  <1>7. \A m \in DOMAIN Daily : house'[Daily[m]] = 0 /\ house'[Total[m]] = house[Total[m]]
    BY <1>1, <1>5, <1>6
  <1>8. \A m \in DOMAIN Daily : house[Total[m]] \in Int
    BY <1>3, <1>5, CounterFacts
  <1>9. CountersAreSlow'
    <2>1. ASSUME NEW m \in DOMAIN Daily
          PROVE  house'[Daily[m]] <= changes + 1 /\ house'[Total[m]] <= 65535 + (changes + 1)
      BY <1>2, <1>3, <1>7, <1>8, SMT DEF CountersAreSlow
    <2>2. QED
      BY <1>2, <2>1 DEF CountersAreSlow
  <1>10. HouseFits'
    <2>1. ASSUME NEW n \in Attributes
          PROVE  Fits(n, house'[n])
      <3>1. CASE \E m \in DOMAIN Daily : n = Daily[m]
        <4>1. house'[n] = 0
          BY <1>1, <3>1
        <4>2. PICK m \in DOMAIN Daily : n = Daily[m]
          BY <3>1
        <4>3. Fits(Daily[m], 0)
          BY <1>2, CounterFits
        <4>4. QED
          BY <4>1, <4>2, <4>3
      <3>2. CASE ~\E m \in DOMAIN Daily : n = Daily[m]
        BY <1>1, <1>3, <3>2 DEF HouseFits
      <3>3. QED
        BY <3>1, <3>2
    <2>2. QED
      BY <2>1 DEF HouseFits
  <1>11. Balanced'
    <2>1. /\ house'["daily_pv_generation"] = 0 /\ house'["daily_exported_energy"] = 0
          /\ house'["daily_imported_energy"] = 0 /\ house'["daily_battery_charge"] = 0
          /\ house'["daily_battery_discharge"] = 0
      BY <1>7 DEF Daily
    <2>2. /\ house'["total_pv_generation"] = house["total_pv_generation"]
          /\ house'["total_exported_energy"] = house["total_exported_energy"]
          /\ house'["total_imported_energy"] = house["total_imported_energy"]
          /\ house'["total_battery_charge"] = house["total_battery_charge"]
          /\ house'["total_battery_discharge"] = house["total_battery_discharge"]
      BY <1>7 DEF Daily, Total
    <2>3. QED
      BY <1>3, <1>4, <2>1, <2>2 DEF Balanced
  <1>12. house' = [n \in Attributes |-> house'[n]]
    BY <1>1
  <1>13. QED
    BY <1>1, <1>4, <1>9, <1>10, <1>11, <1>12 DEF HouseIsSound

LEMMA SetIsSound ==
    ASSUME TelemetryInv, NEW values, Set(values), DOMAIN values \cap Energy = {},
           \A n \in DOMAIN values : Fits(n, values[n])
    PROVE  HouseIsSound
  <1>1. /\ house' = [n \in Attributes |-> IF n \in DOMAIN values THEN values[n] ELSE house[n]]
        /\ consumed' = consumed
        /\ Change
    BY DEF Set
  <1>2. /\ changes \in Nat /\ changes' = changes + 1 /\ consumed \in [daily : Int, total : Int]
    BY <1>1 DEF Change, TelemetryInv, Types
  <1>3. HouseFits /\ CountersAreSlow /\ Balanced
    BY DEF TelemetryInv
  <1>4. \A n \in Energy : house'[n] = house[n]
    BY <1>1, EnergyNames
  <1>5. \A m \in DOMAIN Daily : Daily[m] \in Energy /\ Total[m] \in Energy
    BY DEF Energy, Daily, Total
  <1>6. CountersAreSlow'
    <2>1. ASSUME NEW m \in DOMAIN Daily
          PROVE  house'[Daily[m]] <= changes' /\ house'[Total[m]] <= 65535 + changes'
      <3>1. house[Daily[m]] \in Int /\ house[Total[m]] \in Int
        BY <1>3, <1>5, CounterFacts
      <3>2. house[Daily[m]] <= changes /\ house[Total[m]] <= 65535 + changes
        BY <1>3 DEF CountersAreSlow
      <3>3. house'[Daily[m]] = house[Daily[m]] /\ house'[Total[m]] = house[Total[m]]
        BY <1>4, <1>5
      <3>4. QED
        BY <1>2, <3>1, <3>2, <3>3, SMT
    <2>2. QED
      BY <2>1 DEF CountersAreSlow
  <1>7. HouseFits'
    BY <1>1, <1>3 DEF HouseFits
  <1>8. Balanced'
    BY <1>1, <1>3, <1>4, EnergyNames DEF Balanced
  <1>9. house' = [n \in Attributes |-> house'[n]]
    BY <1>1
  <1>10. QED
    BY <1>1, <1>2, <1>6, <1>7, <1>8, <1>9 DEF HouseIsSound

LEMMA HouseStepIsSound ==
    ASSUME TelemetryInv, House
    PROVE  HouseIsSound
  <1>1. CASE \E source \in Sources : Flow(source, "household")
    BY <1>1, FlowIsSound
  <1>2. CASE \E sink \in Sinks : Flow("pv_generation", sink)
    BY <1>2, FlowIsSound DEF Sources
  <1>3. CASE Flow("imported_energy", "battery_charge")
    BY <1>3, FlowIsSound DEF Sources, Sinks
  <1>4. CASE Flow("battery_discharge", "exported_energy")
    BY <1>4, FlowIsSound DEF Sources, Sinks
  <1>5. CASE Midnight
    BY <1>5, MidnightIsSound
  <1>6. CASE Weather
    <2>1. PICK v \in {0, 3500, 3601} :
              Set([mppt1_voltage |-> v, mppt1_current |-> v \div 40,
                   total_dc_power |-> Round(v * (v \div 40), 100)])
      BY <1>6 DEF Weather
    <2> DEFINE values == [mppt1_voltage |-> v, mppt1_current |-> v \div 40,
                          total_dc_power |-> Round(v * (v \div 40), 100)]
    <2>2. DOMAIN values = Strings
      BY DEF Strings
    <2>3. DOMAIN values \cap Energy = {}
      BY <2>2, EnergyNames DEF Strings
    <2>4. Fits("mppt1_voltage", v) /\ Fits("mppt1_current", v \div 40)
      BY SMT DEF Fits, InRegister, Wide, Signed
    <2>5. Fits("total_dc_power", Round(v * (v \div 40), 100))
      <3>1. v \div 40 \in {0, 87, 90}
        BY SMT
      <3>2. v * (v \div 40) \in Int /\ 0 <= v * (v \div 40) /\ v * (v \div 40) <= 400000
        BY <3>1, SMT
      <3> DEFINE p == v * (v \div 40)
      <3>3. Round(p, 100) \in Int /\ 0 <= Round(p, 100) /\ Round(p, 100) <= 400000
        <4> HIDE DEF p
        <4>1. p \in Int /\ 0 <= p /\ p <= 400000
          BY <3>2 DEF p
        <4>2. QED
          BY <4>1, SMT DEF Round
      <3> HIDE DEF p
      <3>4. Fits("total_dc_power", Round(p, 100))
        BY <3>3, SMT DEF Fits, InRegister, Wide, Signed
      <3>5. QED
        BY <3>4 DEF p
    <2>6. \A n \in DOMAIN values : Fits(n, values[n])
      BY <2>2, <2>4, <2>5 DEF Strings
    <2> HIDE DEF values
    <2>7. QED
      BY <2>1, <2>3, <2>6, SetIsSound DEF values
  <1>7. CASE Phase
    <2>1. ASSUME NEW v \in {2300, 2415}, Set([phase_a_voltage |-> v])
          PROVE  HouseIsSound
      <3>1. Fits("phase_a_voltage", v)
        BY SMT DEF Fits, InRegister, Wide, Signed
      <3>2. "phase_a_voltage" \notin Energy
        BY EnergyNames
      <3>3. QED
        BY <2>1, <3>1, <3>2, SetIsSound
    <2>2. ASSUME NEW c \in {60, 0 - 60}, Set([phase_a_current |-> c])
          PROVE  HouseIsSound
      <3>1. Fits("phase_a_current", c)
        BY SMT DEF Fits, InRegister, Wide, Signed
      <3>2. "phase_a_current" \notin Energy
        BY EnergyNames
      <3>3. QED
        BY <2>2, <3>1, <3>2, SetIsSound
    <2>3. QED
      BY <1>7, <2>1, <2>2 DEF Phase
  <1>8. CASE Battery
    <2>1. ASSUME NEW p \in Powers, Set([power |-> p])
          PROVE  HouseIsSound
      <3>1. p \in Int /\ 0 - 2147483647 <= p /\ p <= 2147483647
        BY HouseAssumption
      <3>2. Fits("power", p)
        BY <3>1, SMT DEF Fits, InRegister, Wide, Signed
      <3>3. "power" \notin Energy
        BY EnergyNames
      <3>4. QED
        BY <2>1, <3>2, <3>3, SetIsSound
    <2>2. ASSUME NEW l \in {0, 333, 1000}, Set([level |-> l])
          PROVE  HouseIsSound
      <3>1. Fits("level", l)
        BY SMT DEF Fits, InRegister, Wide, Signed
      <3>2. "level" \notin Energy
        BY EnergyNames
      <3>3. QED
        BY <2>2, <3>1, <3>2, SetIsSound
    <2>3. (\E p \in Powers : Set([power |-> p])) \/ (\E l \in {0, 333, 1000} : Set([level |-> l]))
      BY <1>8, Zenon DEF Battery
    <2>4. CASE \E p \in Powers : Set([power |-> p])
      BY <2>1, <2>4
    <2>5. CASE \E l \in {0, 333, 1000} : Set([level |-> l])
      BY <2>2, <2>5
    <2>6. QED
      BY <2>3, <2>4, <2>5
  <1>9. CASE Grid
    <2>1. PICK p \in Powers \cup {Nan["export_power_raw"]} : Set([export_power_raw |-> p])
      BY <1>9 DEF Grid
    <2>2. Nan["export_power_raw"] = 2147483647
      BY DEF Nan, Signed
    <2>3. p \in Int /\ 0 - 2147483647 <= p /\ p <= 2147483647
      BY <2>2, HouseAssumption, SMT
    <2>4. Fits("export_power_raw", p)
      BY <2>3, SMT DEF Fits, InRegister, Wide, Signed
    <2>5. "export_power_raw" \notin Energy
      BY EnergyNames
    <2>6. QED
      BY <2>1, <2>4, <2>5, SetIsSound
  <1>10. CASE SettingsChange
    <2>1. ASSUME NEW v \in {500, 900, 1000}, Set([max_soc |-> v])
          PROVE  HouseIsSound
      <3>1. Fits("max_soc", v)
        BY SMT DEF Fits, InRegister, Wide, Signed
      <3>2. "max_soc" \notin Energy
        BY EnergyNames
      <3>3. QED
        BY <2>1, <3>1, <3>2, SetIsSound
    <2>2. ASSUME NEW v \in {0, 50, 500}, Set([min_soc |-> v])
          PROVE  HouseIsSound
      <3>1. Fits("min_soc", v)
        BY SMT DEF Fits, InRegister, Wide, Signed
      <3>2. "min_soc" \notin Energy
        BY EnergyNames
      <3>3. QED
        BY <2>2, <3>1, <3>2, SetIsSound
    <2>3. QED
      BY <1>10, <2>1, <2>2 DEF SettingsChange
  <1>11. QED
    BY <1>1, <1>2, <1>3, <1>4, <1>5, <1>6, <1>7, <1>8, <1>9, <1>10 DEF House

(* The house leaves the update as it is, and only adds a moment to it. *)
LEMMA HouseKeeps ==
    ASSUME TelemetryInv, House
    PROVE  TelemetryInv'
  <1>1. HouseIsSound
    BY HouseStepIsSound
  <1>2. /\ changes < MaxChanges /\ changes' = changes + 1
        /\ during' = during \cup {Snapshot'}
        /\ resolved' = resolved /\ phase' = phase /\ next' = next
        /\ attr' = attr /\ faults' = faults
    BY <1>1 DEF HouseIsSound, Change
  <1>3. Types'
    <2>1. Types /\ MaxChanges \in Nat
      BY HouseAssumption DEF TelemetryInv
    <2>2. changes' \in Nat /\ changes' <= MaxChanges
      BY <1>2, <2>1 DEF Types
    <2>3. IsFiniteSet(during')
      BY <1>2, <2>1, FS_AddElement DEF Types
    <2>4. /\ house' = [n \in Attributes |-> house'[n]]
          /\ consumed' \in [daily : Int, total : Int]
      BY <1>1 DEF HouseIsSound
    <2>5. QED
      BY <1>2, <2>1, <2>2, <2>3, <2>4 DEF Types
  <1>4. HouseFits' /\ CountersAreSlow' /\ Balanced'
    BY <1>1 DEF HouseIsSound
  <1>5. AttrFits' /\ UnpolledIsUnknown'
    BY <1>2 DEF TelemetryInv, AttrFits, UnpolledIsUnknown
  <1>6. Left(resolved, next)' = Left(resolved, next)
    BY <1>2 DEF Left
  <1>7. PlanIsKept'
    BY <1>2, <1>6 DEF TelemetryInv, PlanIsKept, Ordered, Whole, Left
  <1>8. Snapshot' \in during'
    BY <1>2
  <1>9. ASSUME phase' \in {"reading", "updated"}
        PROVE  ReadIsTrue'
    <2>1. ReadIsTrue
      BY <1>2, <1>9 DEF TelemetryInv
    <2>2. \A n : Read(n)' <=> Read(n)
      BY <1>2, <1>6 DEF Read
    <2>3. \A s : /\ (EnergyAt(s)' <=> EnergyAt(s)) /\ (StringsAt(s)' <=> StringsAt(s))
                 /\ (BandAt(s)' <=> BandAt(s))
      BY <1>2 DEF EnergyAt, StringsAt, BandAt, daily_consumed_energy, total_consumed_energy,
                  mppt1_power
    <2>4. during \subseteq during'
      BY <1>2
    <2>5. (\E n \in Energy : Read(n)') => \E s \in during' : EnergyAt(s)'
      BY <2>1, <2>2, <2>3, <2>4 DEF ReadIsTrue
    <2>6. (\E n \in Strings : Read(n)') => \E s \in during' : StringsAt(s)'
      BY <2>1, <2>2, <2>3, <2>4 DEF ReadIsTrue
    <2>7. (\E n \in Limits : Read(n)') => \E s \in during' : BandAt(s)'
      BY <2>1, <2>2, <2>3, <2>4 DEF ReadIsTrue
    <2>8. \A n \in DOMAIN Moment :
            Read(n)' /\ attr'[n] # None => \E s \in during' : attr'[n] = s[Moment[n]]
      <3>1. ASSUME NEW n \in DOMAIN Moment, Read(n), attr[n] # None
            PROVE  \E s \in during : attr[n] = s[Moment[n]]
        BY <2>1, <3>1 DEF ReadIsTrue
      <3>2. QED
        BY <1>2, <2>2, <2>4, <3>1
    <2>9. QED
      BY <2>5, <2>6, <2>7, <2>8 DEF ReadIsTrue
  <1>10. QED
    BY <1>3, <1>4, <1>5, <1>7, <1>8, <1>9 DEF TelemetryInv

-----------------------------------------------------------------------------
(* The update *)

LEMMA InvariantAtFirst ==
    ASSUME Init
    PROVE  TelemetryInv
  <1>1. /\ resolved \in Resolutions /\ phase = "idle" /\ next = 1
        /\ house = [n \in Attributes |-> IF n \in DOMAIN Start THEN Start[n] ELSE 0]
        /\ attr = [n \in Attributes |-> None]
        /\ consumed = [daily |-> 0, total |-> 131070]
        /\ during = {Snapshot}
        /\ changes = 0 /\ faults = 0
    BY DEF Init
  <1>2. Left(resolved, next) = resolved
    BY <1>1 DEF Left
  <1>3. Types
    <2>1. IsFiniteSet(during)
      <3>1. during = {Snapshot}
        BY <1>1
      <3>2. QED
        BY <3>1, FS_Singleton
    <2>2. Len(Plans[resolved]) \in Nat /\ MaxChanges \in Nat /\ MaxFaults \in Nat
      BY <1>1, PlansAssumption, HouseAssumption
    <2>3. next \in Nat /\ 1 <= next /\ next <= Len(Plans[resolved]) + 1
      BY <1>1, <2>2
    <2>4. consumed \in [daily : Int, total : Int]
      BY <1>1, SMT
    <2>5. house = [n \in Attributes |-> house[n]] /\ attr = [n \in Attributes |-> attr[n]]
      BY <1>1
    <2>6. QED
      BY <1>1, <2>1, <2>2, <2>3, <2>4, <2>5 DEF Types
  <1>4. HouseFits
    <2>1. ASSUME NEW n \in Attributes
          PROVE  Fits(n, house[n])
      <3>1. /\ Fits("level", 550) /\ Fits("state_of_health", 993) /\ Fits("max_soc", 900)
            /\ Fits("capacity_high_precision", 960) /\ Fits("phase_a_voltage", 2300)
        BY SMT DEF Fits, InRegister, Wide, Signed
      <3>2. Fits("total_pv_generation", 65535) /\ Fits("total_imported_energy", 65535)
        BY SMT DEF Fits, InRegister, Wide, Signed
      <3>3. n # "max_soc" => Fits(n, 0)
        BY SMT DEF Fits, InRegister
      <3>4. CASE n \in DOMAIN Start
        <4>1. house[n] = Start[n]
          BY <1>1, <3>4
        <4>2. Fits(n, Start[n])
          BY <3>1, <3>2, <3>4 DEF Start
        <4>3. QED
          BY <4>1, <4>2
      <3>5. CASE n \notin DOMAIN Start
        <4>1. n # "max_soc"
          BY <3>5 DEF Start
        <4>2. house[n] = 0
          BY <1>1, <3>5
        <4>3. QED
          BY <3>3, <4>1, <4>2
      <3>6. QED
        BY <3>4, <3>5
    <2>2. QED
      BY <2>1 DEF HouseFits
  <1>5. CountersAreSlow /\ Balanced
    <2>1. \A n \in Energy : house[n] =
              IF n \in {"total_pv_generation", "total_imported_energy"} THEN 65535 ELSE 0
      BY <1>1, EnergyNames DEF Start
    <2>2. CountersAreSlow
      <3>1. \A m \in DOMAIN Daily :
                /\ Daily[m] \in Energy /\ Total[m] \in Energy
                /\ Daily[m] \notin {"total_pv_generation", "total_imported_energy"}
        BY DEF Energy, Daily, Total
      <3>2. \A m \in DOMAIN Daily : house[Daily[m]] = 0 /\ house[Total[m]] \in {0, 65535}
        BY <2>1, <3>1
      <3>3. QED
        BY <1>1, <3>2, SMT DEF CountersAreSlow
    <2>3. Balanced
      BY <1>1, <2>1, EnergyNames, SMT DEF Balanced
    <2>4. QED
      BY <2>2, <2>3
  <1>6. AttrFits /\ UnpolledIsUnknown
    BY <1>1 DEF AttrFits, UnpolledIsUnknown
  <1>7. PlanIsKept
    BY <1>1, <1>2 DEF PlanIsKept, Ordered, Whole
  <1>8. QED
    BY <1>1, <1>3, <1>4, <1>5, <1>6, <1>7 DEF TelemetryInv

LEMMA StartKeeps ==
    ASSUME TelemetryInv, StartUpdate
    PROVE  TelemetryInv'
  <1>1. /\ phase' = "reading" /\ next' = 1 /\ during' = {Snapshot}
        /\ resolved' = resolved /\ house' = house /\ consumed' = consumed
        /\ attr' = attr /\ changes' = changes /\ faults' = faults
    BY DEF StartUpdate
  <1>2. Left(resolved, next)' = resolved
    BY <1>1 DEF Left
  <1>3. Types'
    <2>1. IsFiniteSet(during')
      BY <1>1, FS_Singleton
    <2>2. Types /\ Len(Plans[resolved]) \in Nat
      BY PlansAssumption DEF TelemetryInv, Types
    <2>3. next' \in Nat /\ 1 <= next' /\ next' <= Len(Plans[resolved']) + 1
      BY <1>1, <2>2
    <2>4. QED
      BY <1>1, <2>1, <2>2, <2>3 DEF Types
  <1>4. HouseFits' /\ CountersAreSlow' /\ Balanced' /\ AttrFits' /\ UnpolledIsUnknown'
    BY <1>1 DEF TelemetryInv, HouseFits, CountersAreSlow, Balanced, AttrFits, UnpolledIsUnknown
  <1>5. PlanIsKept'
    <2>1. Left(resolved', next') = resolved'
      BY <1>1, <1>2
    <2>2. QED
      BY <1>1, <2>1 DEF PlanIsKept, Ordered, Whole
  <1>6. Snapshot' \in during'
    BY <1>1 DEF Snapshot
  <1>7. ReadIsTrue'
    <2>1. \A n : ~Read(n)'
      BY <1>1, <1>2 DEF Read
    <2>2. QED
      BY <2>1 DEF ReadIsTrue
  <1>8. QED
    BY <1>3, <1>4, <1>5, <1>6, <1>7 DEF TelemetryInv

(* The next block brings all fields of a window that are polled, or none. *)
LEMMA WindowIsRead ==
    ASSUME TelemetryInv, ReadBlockOfPlan,
           NEW G, NEW space, NEW low, NEW high, Window(G, space, low, high), Whole(resolved, next, G)
    PROVE  \/ \A n \in G : attr'[n] # None => attr'[n] = house[n]
           \/ \A n \in G : attr'[n] = attr[n] /\ (Read(n)' <=> Read(n))
  <1> DEFINE Now(n) == FieldOf[n] \in resolved /\ Covers(Plans[resolved][next], FieldOf[n])
  <1>1. /\ next <= Len(Plans[resolved]) /\ next' = next + 1 /\ resolved' = resolved
        /\ attr' = [n \in Attributes |-> IF Now(n) THEN Decode(n, Words(n, house[n])) ELSE attr[n]]
    BY DEF ReadBlockOfPlan
  <1>2. /\ resolved \in Resolutions /\ next \in Nat /\ 1 <= next
        /\ Ordered(resolved, next) /\ HouseFits /\ UnpolledIsUnknown
    BY DEF TelemetryInv, Types, PlanIsKept
  <1>3. \A f \in resolved : Covers(Plans[resolved][next], f) => f \in Left(resolved, next)
    BY <1>1, <1>2, OrderGoesOn
  <1>4. \A n \in G : n \in Attributes
    BY DEF Window
  <1>5. CASE \E n \in G : Now(n)
    <2>1. PICK n \in G : Now(n)
      BY <1>5
    <2>2. FieldOf[n] \in Left(resolved, next) /\ Covers(Plans[resolved][next], FieldOf[n])
      BY <1>3, <2>1
    <2>3. \A m \in G : FieldOf[m] \in resolved => Covers(Plans[resolved][next], FieldOf[m])
      BY <1>1, <1>2, <2>2, WindowGoesOn
    <2>4. ASSUME NEW m \in G, attr'[m] # None
          PROVE  attr'[m] = house[m]
      <3>1. CASE FieldOf[m] \in resolved
        <4>1. attr'[m] = Decode(m, Words(m, house[m]))
          BY <1>1, <1>4, <2>3, <3>1
        <4>2. InRegister(m, house[m])
          BY <1>2, <1>4 DEF HouseFits, Fits
        <4>3. QED
          BY <1>4, <2>4, <4>1, <4>2, DecodeGivesTheValue
      <3>2. CASE FieldOf[m] \notin resolved
        BY <1>1, <1>2, <1>4, <2>4, <3>2 DEF UnpolledIsUnknown
      <3>3. QED
        BY <3>1, <3>2
    <2>5. QED
      BY <2>4
  <1>6. CASE ~\E n \in G : Now(n)
    <2>1. \A n \in G : attr'[n] = attr[n]
      BY <1>1, <1>4, <1>6
    <2>2. Left(resolved, next + 1) =
            {f \in Left(resolved, next) : ~Covers(Plans[resolved][next], f)}
      BY <1>1, <1>2, BlockOfStep
    <2>3. \A n \in G : FieldOf[n] \in resolved =>
              (FieldOf[n] \in Left(resolved, next + 1) <=> FieldOf[n] \in Left(resolved, next))
      BY <1>6, <2>2
    <2>4. \A n : Read(n)' <=> FieldOf[n] \in resolved \ Left(resolved, next + 1)
      BY <1>1 DEF Read, Left
    <2>5. \A n \in G : Read(n)' <=> Read(n)
      BY <2>3, <2>4 DEF Read
    <2>6. QED
      BY <2>1, <2>5
  <1>7. QED
    BY <1>5, <1>6

LEMMA ReadBlockKeeps ==
    ASSUME TelemetryInv, ReadBlockOfPlan
    PROVE  TelemetryInv'
  <1> DEFINE Now(n) == FieldOf[n] \in resolved /\ Covers(Plans[resolved][next], FieldOf[n])
  <1>1. /\ phase = "reading" /\ next <= Len(Plans[resolved]) /\ next' = next + 1
        /\ attr' = [n \in Attributes |-> IF Now(n) THEN Decode(n, Words(n, house[n])) ELSE attr[n]]
        /\ resolved' = resolved /\ phase' = phase /\ house' = house /\ consumed' = consumed
        /\ during' = during /\ changes' = changes /\ faults' = faults
    BY DEF ReadBlockOfPlan
  <1>2. /\ Types /\ HouseFits /\ AttrFits /\ CountersAreSlow /\ Balanced
        /\ PlanIsKept /\ UnpolledIsUnknown /\ Snapshot \in during /\ ReadIsTrue
    BY <1>1 DEF TelemetryInv
  <1>3. resolved \in Resolutions /\ next \in Nat /\ 1 <= next /\ Len(Plans[resolved]) \in Nat
    BY <1>2, PlansAssumption DEF Types
  <1>4. Left(resolved, next)' = Left(resolved, next + 1)
    BY <1>1 DEF Left
  <1>5. /\ Ordered(resolved, next) /\ Whole(resolved, next, Energy) /\ Whole(resolved, next, Strings)
        /\ Whole(resolved, next, Limits)
    BY <1>2 DEF PlanIsKept
  <1>6. Types'
    <2>1. next' \in Nat /\ 1 <= next' /\ next' <= Len(Plans[resolved]) + 1
      BY <1>1, <1>3
    <2>2. attr' = [n \in Attributes |-> attr'[n]]
      BY <1>1
    <2>3. QED
      BY <1>1, <1>2, <2>1, <2>2 DEF Types
  <1>7. HouseFits' /\ CountersAreSlow' /\ Balanced' /\ Snapshot' \in during'
    BY <1>1, <1>2 DEF HouseFits, CountersAreSlow, Balanced, Snapshot
  <1>8. ASSUME NEW n \in Attributes, Now(n), attr'[n] # None
        PROVE  attr'[n] = house[n]
    <2>1. attr'[n] = Decode(n, Words(n, house[n]))
      BY <1>1, <1>8
    <2>2. InRegister(n, house[n])
      BY <1>2 DEF HouseFits, Fits
    <2>3. QED
      BY <1>8, <2>1, <2>2, DecodeGivesTheValue
  <1>9. \A n \in Attributes : ~Now(n) => attr'[n] = attr[n]
    BY <1>1
  <1>10. AttrFits'
    <2>1. ASSUME NEW n \in Attributes, attr'[n] # None
          PROVE  Fits(n, attr'[n])
      <3>1. CASE Now(n)
        BY <1>2, <1>8, <2>1, <3>1 DEF HouseFits
      <3>2. CASE ~Now(n)
        BY <1>2, <1>9, <2>1, <3>2 DEF AttrFits
      <3>3. QED
        BY <3>1, <3>2
    <2>2. QED
      BY <2>1 DEF AttrFits
  <1>11. UnpolledIsUnknown'
    BY <1>1, <1>2, <1>9 DEF UnpolledIsUnknown
  <1>12. PlanIsKept'
    <2>1. Ordered(resolved, next + 1)
      BY <1>1, <1>3, <1>5, OrderGoesOn
    <2>2. /\ Whole(resolved, next + 1, Energy) /\ Whole(resolved, next + 1, Strings)
          /\ Whole(resolved, next + 1, Limits)
      BY <1>1, <1>3, <1>5, Windows, WindowGoesOn
    <2>3. Ordered(resolved', next') /\ Whole(resolved', next', Energy)
             /\ Whole(resolved', next', Strings) /\ Whole(resolved', next', Limits)
      BY <1>1, <2>1, <2>2
    <2>4. phase' # "updated"
      BY <1>1
    <2>5. QED
      BY <2>3, <2>4 DEF PlanIsKept, Ordered, Whole
  <1>13. ReadIsTrue'
    <2>1. (\E n \in Energy : Read(n)') => \E s \in during' : EnergyAt(s)'
      <3>1. \/ \A n \in Energy : attr'[n] # None => attr'[n] = house[n]
            \/ \A n \in Energy : attr'[n] = attr[n] /\ (Read(n)' <=> Read(n))
        BY <1>5, Windows, WindowIsRead
      <3>2. CASE \A n \in Energy : attr'[n] # None => attr'[n] = house[n]
        <4>1. Snapshot.daily = consumed.daily /\ Snapshot.total = consumed.total
          BY DEF Snapshot
        <4>2. daily_consumed_energy' # None => daily_consumed_energy' = consumed.daily
          BY <1>2, <3>2, EnergyNames DEF daily_consumed_energy, ConsumedEnergy, Known, Balanced
        <4>3. total_consumed_energy' # None => total_consumed_energy' = consumed.total
          BY <1>2, <3>2, EnergyNames DEF total_consumed_energy, ConsumedEnergy, Known, Balanced
        <4>4. EnergyAt(Snapshot)'
          BY <1>1, <4>1, <4>2, <4>3 DEF EnergyAt, Snapshot
        <4>5. QED
          BY <1>7, <4>4
      <3>3. CASE \A n \in Energy : attr'[n] = attr[n] /\ (Read(n)' <=> Read(n))
        <4>1. daily_consumed_energy' = daily_consumed_energy
          BY <3>3, EnergyNames DEF daily_consumed_energy
        <4>2. total_consumed_energy' = total_consumed_energy
          BY <3>3, EnergyNames DEF total_consumed_energy
        <4>3. \A s : EnergyAt(s)' <=> EnergyAt(s)
          BY <4>1, <4>2 DEF EnergyAt
        <4>4. QED
          BY <1>1, <1>2, <3>3, <4>3 DEF ReadIsTrue
      <3>4. QED
        BY <3>1, <3>2, <3>3
    <2>2. (\E n \in Strings : Read(n)') => \E s \in during' : StringsAt(s)'
      <3>1. \/ \A n \in Strings : attr'[n] # None => attr'[n] = house[n]
            \/ \A n \in Strings : attr'[n] = attr[n] /\ (Read(n)' <=> Read(n))
        BY <1>5, Windows, WindowIsRead
      <3>2. CASE \A n \in Strings : attr'[n] # None => attr'[n] = house[n]
        <4>1. /\ Snapshot.string = Round(house["mppt1_voltage"] * house["mppt1_current"], 100)
              /\ Snapshot.dc = house["total_dc_power"]
          BY DEF Snapshot
        <4>2. mppt1_power' # None => mppt1_power' = Snapshot.string
          BY <3>2, <4>1 DEF mppt1_power, StringPower, Known, Strings
        <4>3. attr'["total_dc_power"] # None => attr'["total_dc_power"] = Snapshot.dc
          BY <3>2, <4>1 DEF Strings
        <4>4. Snapshot' = Snapshot
          BY <1>1 DEF Snapshot
        <4>5. StringsAt(Snapshot)'
          BY <4>2, <4>3, <4>4 DEF StringsAt
        <4>6. QED
          BY <1>7, <4>5
      <3>3. CASE \A n \in Strings : attr'[n] = attr[n] /\ (Read(n)' <=> Read(n))
        <4>1. /\ mppt1_power' = mppt1_power
              /\ attr'["total_dc_power"] = attr["total_dc_power"]
          BY <3>3 DEF mppt1_power, Strings
        <4>2. \A s : StringsAt(s)' <=> StringsAt(s)
          BY <4>1 DEF StringsAt
        <4>3. QED
          BY <1>1, <1>2, <3>3, <4>2 DEF ReadIsTrue
      <3>4. QED
        BY <3>1, <3>2, <3>3
    <2>3. (\E n \in Limits : Read(n)') => \E s \in during' : BandAt(s)'
      <3>1. \/ \A n \in Limits : attr'[n] # None => attr'[n] = house[n]
            \/ \A n \in Limits : attr'[n] = attr[n] /\ (Read(n)' <=> Read(n))
        BY <1>5, Windows, WindowIsRead
      <3>2. CASE \A n \in Limits : attr'[n] # None => attr'[n] = house[n]
        <4>1. Snapshot.band = <<house["min_soc"], house["max_soc"]>>
          BY DEF Snapshot
        <4>2. Snapshot' = Snapshot
          BY <1>1 DEF Snapshot
        <4>3. BandAt(Snapshot)'
          BY <3>2, <4>1, <4>2 DEF BandAt, Limits
        <4>4. QED
          BY <1>7, <4>3
      <3>3. CASE \A n \in Limits : attr'[n] = attr[n] /\ (Read(n)' <=> Read(n))
        <4>1. \A s : BandAt(s)' <=> BandAt(s)
          BY <3>3 DEF BandAt, Limits
        <4>2. QED
          BY <1>1, <1>2, <3>3, <4>1 DEF ReadIsTrue
      <3>4. QED
        BY <3>1, <3>2, <3>3
    <2>4. ASSUME NEW n \in DOMAIN Moment, Read(n)', attr'[n] # None
          PROVE  \E s \in during' : attr'[n] = s[Moment[n]]
      <3>1. n \in Attributes
        BY DEF Moment, Attributes, Input
      <3>2. CASE Now(n)
        <4>1. attr'[n] = house[n]
          BY <1>8, <2>4, <3>1, <3>2
        <4>2. Snapshot[Moment[n]] = house[n]
          BY DEF Snapshot, Moment
        <4>3. QED
          BY <1>1, <1>2, <4>1, <4>2
      <3>3. CASE ~Now(n)
        <4>1. attr'[n] = attr[n]
          BY <1>9, <3>1, <3>3
        <4>2. FieldOf[n] \in resolved /\ FieldOf[n] \notin Left(resolved, next + 1)
          BY <1>1, <1>4, <2>4 DEF Read
        <4>3. Left(resolved, next + 1) =
                {f \in Left(resolved, next) : ~Covers(Plans[resolved][next], f)}
          BY <1>1, <1>3, BlockOfStep
        <4>4. Read(n)
          BY <3>3, <4>2, <4>3 DEF Read
        <4>5. QED
          BY <1>1, <1>2, <2>4, <4>1, <4>4 DEF ReadIsTrue
      <3>4. QED
        BY <3>2, <3>3
    <2>5. QED
      BY <2>1, <2>2, <2>3, <2>4 DEF ReadIsTrue
  <1>14. QED
    BY <1>6, <1>7, <1>10, <1>11, <1>12, <1>13 DEF TelemetryInv

(* A step that leaves the plan and the values as they are. *)
LEMMA QuietKeeps ==
    ASSUME TelemetryInv,
           UNCHANGED <<resolved, next, house, consumed, attr, during, changes>>,
           phase' \in {"idle", "reading", "updated", "failed"},
           phase' \in {"reading", "updated"} => phase \in {"reading", "updated"},
           phase' = "updated" => phase = "updated" \/ Left(resolved, next) = {},
           faults' \in Nat, faults' <= MaxFaults
    PROVE  TelemetryInv'
  <1>1. /\ resolved' = resolved /\ next' = next /\ house' = house /\ consumed' = consumed
        /\ attr' = attr /\ during' = during /\ changes' = changes
    OBVIOUS
  <1>2. /\ Types /\ HouseFits /\ AttrFits /\ CountersAreSlow /\ Balanced
        /\ PlanIsKept /\ UnpolledIsUnknown /\ Snapshot \in during
    BY DEF TelemetryInv
  <1>3. Types'
    BY <1>1, <1>2 DEF Types
  <1>4. HouseFits' /\ CountersAreSlow' /\ Balanced' /\ AttrFits' /\ UnpolledIsUnknown'
    BY <1>1, <1>2 DEF HouseFits, CountersAreSlow, Balanced, AttrFits, UnpolledIsUnknown
  <1>5. Left(resolved, next)' = Left(resolved, next)
    BY <1>1 DEF Left
  <1>6. PlanIsKept'
    BY <1>1, <1>2, <1>5 DEF PlanIsKept, Ordered, Whole, Left
  <1>7. Snapshot' \in during'
    BY <1>1, <1>2 DEF Snapshot
  <1>8. ASSUME phase' \in {"reading", "updated"}
        PROVE  ReadIsTrue'
    <2>1. ReadIsTrue
      BY <1>8 DEF TelemetryInv
    <2>2. \A n : Read(n)' <=> Read(n)
      BY <1>1, <1>5 DEF Read
    <2>3. \A s : /\ (EnergyAt(s)' <=> EnergyAt(s)) /\ (StringsAt(s)' <=> StringsAt(s))
                 /\ (BandAt(s)' <=> BandAt(s))
      BY <1>1 DEF EnergyAt, StringsAt, BandAt, daily_consumed_energy, total_consumed_energy,
                  mppt1_power
    <2>4. QED
      BY <1>1, <2>1, <2>2, <2>3 DEF ReadIsTrue
  <1>9. QED
    BY <1>3, <1>4, <1>6, <1>7, <1>8 DEF TelemetryInv

LEMMA InvariantIsKept == TelemetryInv /\ [Next]_vars => TelemetryInv'
  <1> SUFFICES ASSUME TelemetryInv, [Next]_vars PROVE TelemetryInv'
    OBVIOUS
  <1>1. CASE House
    BY <1>1, HouseKeeps
  <1>2. CASE StartUpdate
    BY <1>2, StartKeeps
  <1>3. CASE ReadBlockOfPlan
    BY <1>3, ReadBlockKeeps
  <1>4. CASE FinishUpdate
    <2>1. /\ next > Len(Plans[resolved]) /\ next \in Nat /\ next <= Len(Plans[resolved]) + 1
          /\ Len(Plans[resolved]) \in Nat /\ resolved \in Resolutions
      BY <1>4, PlansAssumption DEF FinishUpdate, TelemetryInv, Types
    <2>2. next = Len(Plans[resolved]) + 1
      BY <2>1
    <2>3. Left(resolved, next) = {}
      BY <2>1, <2>2, PlansAssumption
    <2>4. QED
      BY <1>4, <2>3, QuietKeeps DEF FinishUpdate, TelemetryInv, Types
  <1>5. CASE LinkError
    <2>1. faults' \in Nat /\ faults' <= MaxFaults
      BY <1>5, HouseAssumption DEF LinkError, TelemetryInv, Types
    <2>2. QED
      BY <1>5, <2>1, QuietKeeps DEF LinkError
  <1>6. CASE UNCHANGED vars
    BY <1>6, QuietKeeps DEF vars, TelemetryInv, Types
  <1>7. QED
    BY <1>1, <1>2, <1>3, <1>4, <1>5, <1>6 DEF Next

LEMMA InvariantHolds == Spec => []TelemetryInv
  <1>1. Init => TelemetryInv
    BY InvariantAtFirst
  <1>2. QED
    BY <1>1, InvariantIsKept, PTL DEF Spec

-----------------------------------------------------------------------------
(* The properties *)

(* Type correctness: every register holds words, and every decoded value is  *)
(* one that its registers give back.                                         *)
THEOREM TelemetryTypeCorrect == Spec => []TelemetryTypeOK
  <1>1. ASSUME TelemetryInv PROVE TelemetryTypeOK
    <2>1. Types /\ HouseFits /\ AttrFits
      BY <1>1 DEF TelemetryInv
    <2>2. /\ resolved \in Resolutions
          /\ phase \in {"idle", "reading", "updated", "failed"}
      BY <2>1 DEF Types
    <2>3. next \in 1..(Len(Plans[resolved]) + 1)
      BY <2>1, PlansAssumption DEF Types
    <2>4. ASSUME NEW n \in Attributes
          PROVE  /\ \A i \in DOMAIN Words(n, house[n]) : Words(n, house[n])[i] \in 0..(Word - 1)
                 /\ attr[n] # None => attr[n] = Number(n, Words(n, attr[n]))
      <3>1. house[n] \in Int
        BY <2>1 DEF HouseFits, Fits, InRegister
      <3>2. attr[n] # None => InRegister(n, attr[n])
        BY <2>1 DEF AttrFits, Fits
      <3>3. QED
        BY <3>1, <3>2, WordsAreWords, WordsKeepTheValue
    <2>5. changes \in 0..MaxChanges /\ faults \in 0..MaxFaults
      BY <2>1, HouseAssumption DEF Types
    <2>6. QED
      BY <2>2, <2>3, <2>4, <2>5 DEF TelemetryTypeOK
  <1>2. QED
    BY <1>1, InvariantHolds, PTL

(* After an update, all that is known has been read by it. *)
LEMMA KnownIsRead ==
    ASSUME TelemetryInv, phase = "updated"
    PROVE  ReadIsTrue /\ \A n \in Attributes : attr[n] # None => Read(n)
  <1>1. UnpolledIsUnknown /\ Left(resolved, next) = {} /\ ReadIsTrue
    BY DEF TelemetryInv, PlanIsKept
  <1>2. QED
    BY <1>1 DEF UnpolledIsUnknown, Read

(* The computed consumption is what the household had consumed at one moment *)
(* of the update: the five counters come with one read, and balance there.   *)
THEOREM ConsumptionStaysTrue == Spec => []ConsumptionIsTrue
  <1>1. ASSUME TelemetryInv, phase = "updated"
        PROVE  /\ daily_consumed_energy # None
                    => \E s \in during : daily_consumed_energy = s.daily
               /\ total_consumed_energy # None
                    => \E s \in during : total_consumed_energy = s.total
    <2>1. ReadIsTrue /\ \A n \in Attributes : attr[n] # None => Read(n)
      BY <1>1, KnownIsRead
    <2>2. daily_consumed_energy # None => attr["daily_pv_generation"] # None
      BY DEF daily_consumed_energy, ConsumedEnergy, Known
    <2>3. total_consumed_energy # None => attr["total_pv_generation"] # None
      BY DEF total_consumed_energy, ConsumedEnergy, Known
    <2>4. \A n \in Energy : attr[n] # None => \E s \in during : EnergyAt(s)
      BY <2>1, EnergyNames DEF ReadIsTrue
    <2>5. "daily_pv_generation" \in Energy /\ "total_pv_generation" \in Energy
      BY EnergyNames
    <2>6. QED
      BY <2>2, <2>3, <2>4, <2>5 DEF EnergyAt
  <1>2. TelemetryInv => ConsumptionIsTrue
    BY <1>1 DEF ConsumptionIsTrue
  <1>3. QED
    BY <1>2, InvariantHolds, PTL

(* The power of a string is of one moment of the update, and so is the flag  *)
(* of the total power: their three fields come with one read.                *)
THEOREM StringPowerStaysTrue == Spec => []StringPowerIsTrue
  <1>1. ASSUME TelemetryInv, phase = "updated", mppt1_power # None
        PROVE  \E s \in during : /\ mppt1_power = s.string
                                 /\ is_pv_generating # None => is_pv_generating = (s.dc > 0)
    <2>1. ReadIsTrue /\ \A n \in Attributes : attr[n] # None => Read(n)
      BY <1>1, KnownIsRead
    <2>2. attr["mppt1_voltage"] # None
      BY <1>1 DEF mppt1_power, StringPower, Known
    <2>3. "mppt1_voltage" \in Strings /\ "mppt1_voltage" \in Attributes
      BY EnergyNames DEF Strings
    <2>4. PICK s \in during : StringsAt(s)
      BY <2>1, <2>2, <2>3 DEF ReadIsTrue
    <2>5. mppt1_power = s.string
      BY <1>1, <2>4 DEF StringsAt
    <2>6. CASE attr["total_dc_power"] = None
      BY <2>5, <2>6 DEF is_pv_generating, IsPositive
    <2>7. CASE attr["total_dc_power"] # None
      <3>1. attr["total_dc_power"] = s.dc
        BY <2>4, <2>7 DEF StringsAt
      <3>2. is_pv_generating = (s.dc > 0)
        BY <2>7, <3>1 DEF is_pv_generating, IsPositive
      <3>3. QED
        BY <2>5, <3>2
    <2>8. QED
      BY <2>6, <2>7
  <1>2. TelemetryInv => StringPowerIsTrue
    BY <1>1 DEF StringPowerIsTrue
  <1>3. QED
    BY <1>2, InvariantHolds, PTL

(* An attribute of its own is of one moment of the update. *)
LEMMA KnownIsOfAMoment ==
    ASSUME TelemetryInv, phase = "updated", NEW n \in DOMAIN Moment, attr[n] # None
    PROVE  attr[n] \in Int /\ \E s \in during : attr[n] = s[Moment[n]]
  <1>1. n \in Attributes
    BY DEF Moment, Attributes, Input
  <1>2. attr[n] \in Int
    BY <1>1 DEF TelemetryInv, AttrFits, Fits, InRegister
  <1>3. ReadIsTrue /\ Read(n)
    BY <1>1, KnownIsRead
  <1>4. QED
    BY <1>2, <1>3 DEF ReadIsTrue

(* Voltage and current of a phase come with different reads: the power is of *)
(* one moment of the update when one of them did not change meanwhile, and   *)
(* otherwise of a voltage and of a current that were there during it.        *)
THEOREM PhasePowerStaysBounded == Spec => []PhasePowerIsBounded
  <1>1. ASSUME TelemetryInv PROVE PhasePowerIsBounded
    <2> DEFINE Voltages == {s.voltage : s \in during}
               Currents == {s.current : s \in during}
               PowerOf(v, c) == Round(v * c, 100)
    <2> SUFFICES ASSUME phase = "updated", phase_a_power # None
                 PROVE  IF Cardinality(Voltages) = 1 \/ Cardinality(Currents) = 1
                        THEN \E s \in during : phase_a_power = PowerOf(s.voltage, s.current)
                        ELSE \E v \in Voltages, c \in Currents : phase_a_power = PowerOf(v, c)
      BY DEF PhasePowerIsBounded
    <2>1. /\ attr["phase_a_voltage"] # None /\ attr["phase_a_current"] # None
          /\ phase_a_power = PowerOf(attr["phase_a_voltage"], attr["phase_a_current"])
      BY DEF phase_a_power, StringPower, Known
    <2>2. PICK s \in during : attr["phase_a_voltage"] = s.voltage
      <3>1. "phase_a_voltage" \in DOMAIN Moment /\ Moment["phase_a_voltage"] = "voltage"
        BY DEF Moment
      <3>2. \E s \in during : attr["phase_a_voltage"] = s["voltage"]
        BY <1>1, <2>1, <3>1, KnownIsOfAMoment
      <3>3. QED
        BY <3>2
    <2>3. PICK t \in during : attr["phase_a_current"] = t.current
      <3>1. "phase_a_current" \in DOMAIN Moment /\ Moment["phase_a_current"] = "current"
        BY DEF Moment
      <3>2. \E t \in during : attr["phase_a_current"] = t["current"]
        BY <1>1, <2>1, <3>1, KnownIsOfAMoment
      <3>3. QED
        BY <3>2
    <2>4. phase_a_power = PowerOf(s.voltage, t.current)
      BY <2>1, <2>2, <2>3
    <2> HIDE DEF PowerOf
    <2>5. IsFiniteSet(Voltages) /\ IsFiniteSet(Currents)
      <3>1. IsFiniteSet(during)
        BY <1>1 DEF TelemetryInv, Types
      <3>2. [m \in during |-> m.voltage] \in Surjection(during, Voltages)
        BY DEF Surjection
      <3>3. [m \in during |-> m.current] \in Surjection(during, Currents)
        BY DEF Surjection
      <3>4. QED
        BY <3>1, <3>2, <3>3, FS_Surjection
    <2>6. CASE Cardinality(Voltages) = 1
      <3>1. PICK v : Voltages = {v}
        BY <2>5, <2>6, FS_Singleton
      <3>2. s.voltage = t.voltage
        BY <3>1
      <3>3. QED
        BY <2>4, <2>6, <3>2
    <2>7. CASE Cardinality(Currents) = 1
      <3>1. PICK c : Currents = {c}
        BY <2>5, <2>7, FS_Singleton
      <3>2. s.current = t.current
        BY <3>1
      <3>3. QED
        BY <2>4, <2>7, <3>2
    <2>8. CASE ~(Cardinality(Voltages) = 1 \/ Cardinality(Currents) = 1)
      BY <2>4, <2>8
    <2>9. QED
      BY <2>6, <2>7, <2>8
  <1>2. QED
    BY <1>1, InvariantHolds, PTL

(* The two directions of a power belong to one value of the update, never    *)
(* both differ from zero, and agree with the flags.                          *)
THEOREM DirectionsStayTrue == Spec => []DirectionsAreTrue
  <1>1. ASSUME TelemetryInv, phase = "updated", attr["power"] # None
        PROVE  /\ charging_power = 0 \/ discharging_power = 0
               /\ is_battery_charging = (charging_power > 0)
               /\ is_battery_discharging = (discharging_power > 0)
               /\ \E s \in during : discharging_power - charging_power = s.battery
    <2>1. "power" \in DOMAIN Moment /\ Moment["power"] = "battery"
      BY DEF Moment
    <2>2. attr["power"] \in Int /\ \E s \in during : attr["power"] = s["battery"]
      BY <1>1, <2>1, KnownIsOfAMoment
    <2>3. /\ charging_power = 0 \/ discharging_power = 0
          /\ is_battery_charging = (charging_power > 0)
          /\ is_battery_discharging = (discharging_power > 0)
          /\ discharging_power - charging_power = attr["power"]
      BY <1>1, <2>2 DEF charging_power, discharging_power, is_battery_charging,
           is_battery_discharging, PositivePart, NegativePart, IsPositive, IsNegative
    <2>4. QED
      BY <2>2, <2>3
  <1>2. ASSUME TelemetryInv, phase = "updated", attr["export_power_raw"] # None
        PROVE  /\ import_power = 0 \/ export_power = 0
               /\ is_importing_from_grid = (import_power > 0)
               /\ is_exporting_to_grid = (export_power > 0)
               /\ \E s \in during : export_power - import_power = s.grid
    <2>1. "export_power_raw" \in DOMAIN Moment /\ Moment["export_power_raw"] = "grid"
      BY DEF Moment
    <2>2. /\ attr["export_power_raw"] \in Int
          /\ \E s \in during : attr["export_power_raw"] = s["grid"]
      BY <1>2, <2>1, KnownIsOfAMoment
    <2>3. /\ import_power = 0 \/ export_power = 0
          /\ is_importing_from_grid = (import_power > 0)
          /\ is_exporting_to_grid = (export_power > 0)
          /\ export_power - import_power = attr["export_power_raw"]
      BY <1>2, <2>2 DEF import_power, export_power, is_importing_from_grid,
           is_exporting_to_grid, PositivePart, NegativePart, IsPositive, IsNegative
    <2>4. QED
      BY <2>2, <2>3
  <1>3. TelemetryInv => DirectionsAreTrue
    BY <1>1, <1>2 DEF DirectionsAreTrue
  <1>4. QED
    BY <1>3, InvariantHolds, PTL

(* A part of a thousand, rounded, is within the whole. *)
LEMMA PartIsWithin ==
    ASSUME NEW whole \in Nat, NEW part \in Nat, part <= 1000
    PROVE  whole * part \in Nat /\ whole * part <= 1000 * whole
  OBVIOUS

LEMMA PerMilleIsWithin ==
    ASSUME NEW whole \in Nat, NEW num \in Nat, num <= 1000 * whole
    PROVE  Round(num, 1000) \in 0..whole
  <1>1. Round(num, 1000) \in Int /\ 0 <= Round(num, 1000) /\ Round(num, 1000) <= whole
    BY SMT DEF Round
  <1>2. QED
    BY <1>1

LEMMA PerMillionIsWithin ==
    ASSUME NEW whole \in Nat, NEW num \in Nat, num <= 1000000 * whole
    PROVE  Round(num, 1000000) \in 0..whole
  <1>1. /\ Round(num, 1000000) \in Int
        /\ 0 <= Round(num, 1000000) /\ Round(num, 1000000) <= whole
    BY SMT DEF Round
  <1>2. QED
    BY <1>1, SMT

(* However far apart the moments are at which level, capacity, health and    *)
(* limits were read, each computed charge is within its bounds.              *)
THEOREM ChargeStaysBounded == Spec => []ChargeIsBounded
  <1>1. ASSUME TelemetryInv PROVE ChargeIsBounded
    <2> DEFINE min == attr["min_soc"]
               max == attr["max_soc"]
               level == attr["level"]
               capacity == attr["capacity_high_precision"]
               health == attr["state_of_health"]
    <2>1. \A n \in Attributes : attr[n] # None => Fits(n, attr[n])
      BY <1>1 DEF TelemetryInv, AttrFits
    <2>2. {"min_soc", "max_soc", "level", "capacity_high_precision", "state_of_health"}
             \subseteq Attributes
      BY DEF Attributes, Input, Holding
    <2>3. /\ min # None => min \in Nat /\ min <= 500
          /\ max # None => max \in Nat /\ 500 <= max /\ max <= 1000
          /\ level # None => level \in Nat /\ level <= 1000
          /\ capacity # None => capacity \in Nat
          /\ health # None => health \in Nat /\ health <= 1000
      <3>1. {"min_soc", "max_soc", "level", "capacity_high_precision", "state_of_health"}
              \cap (Wide \cup Signed) = {}
        BY DEF Wide, Signed
      <3>2. ASSUME NEW n \in {"min_soc", "max_soc", "level", "capacity_high_precision",
                              "state_of_health"},
                   attr[n] # None
            PROVE  Fits(n, attr[n]) /\ attr[n] \in Nat
        <4>1. Fits(n, attr[n])
          BY <2>1, <2>2, <3>2
        <4>2. attr[n] \in Int /\ 0 <= attr[n]
          BY <3>1, <4>1 DEF Fits, InRegister
        <4>3. QED
          BY <4>1, <4>2
      <3>3. QED
        BY <3>2 DEF Fits
    <2> HIDE DEF min, max, level, capacity, health
    <2>4. ASSUME battery_level_nominal # None
          PROVE  battery_level_nominal \in min..max
      <3>1. /\ min # None /\ max # None /\ level # None
            /\ battery_level_nominal = min + Round((max - min) * level, 1000)
        BY <2>4 DEF battery_level_nominal, NominalLevel, Known, min, max, level
      <3>2. max - min \in Nat
        BY <2>3, <3>1
      <3>3. Round((max - min) * level, 1000) \in 0..(max - min)
        BY <2>3, <3>1, <3>2, PartIsWithin, PerMilleIsWithin
      <3>4. QED
        BY <2>3, <3>1, <3>2, <3>3
    <2>5. ASSUME battery_usable_charge_kwh # None
          PROVE  battery_usable_charge_kwh \in 0..capacity /\ capacity \in Nat
      <3>1. /\ min # None /\ max # None /\ level # None /\ capacity # None
            /\ battery_usable_charge_kwh = Round(capacity * (max - min) * level, 1000000)
        BY <2>5, SMT DEF battery_usable_charge_kwh, UsableCharge, Known, min, max, level, capacity
      <3>2. max - min \in Nat /\ max - min <= 1000
        BY <2>3, <3>1
      <3>3. capacity * (max - min) \in Nat /\ capacity * (max - min) <= 1000 * capacity
        BY <2>3, <3>1, <3>2, PartIsWithin
      <3>4. /\ capacity * (max - min) * level \in Nat
            /\ capacity * (max - min) * level <= 1000 * (capacity * (max - min))
        BY <2>3, <3>1, <3>3, PartIsWithin
      <3>5. capacity * (max - min) * level <= 1000000 * capacity
        <4> DEFINE p == capacity * (max - min)
                   q == capacity * (max - min) * level
        <4>1. /\ p \in Nat /\ q \in Nat /\ capacity \in Nat
              /\ p <= 1000 * capacity /\ q <= 1000 * p
          BY <2>3, <3>1, <3>3, <3>4
        <4> HIDE DEF p, q
        <4>2. q <= 1000000 * capacity
          BY <4>1, SMT
        <4>3. QED
          BY <4>2, SMT DEF q
      <3>6. QED
        BY <2>3, <3>1, <3>4, <3>5, PerMillionIsWithin, SMT
    <2>6. ASSUME battery_health_rated_charge_kwh # None
          PROVE  battery_health_rated_charge_kwh \in 0..battery_usable_charge_kwh
      <3>1. /\ battery_usable_charge_kwh # None /\ health # None
            /\ battery_health_rated_charge_kwh
                 = Round(battery_usable_charge_kwh * health, 1000)
        BY <2>6 DEF battery_health_rated_charge_kwh, HealthRatedCharge, Known, health
      <3>2. battery_usable_charge_kwh \in Nat
        BY <2>5, <3>1
      <3>3. QED
        BY <2>3, <3>1, <3>2, PartIsWithin, PerMilleIsWithin
    <2>7. QED
      BY <2>4, <2>5, <2>6 DEF ChargeIsBounded, min, max, capacity
  <1>2. QED
    BY <1>1, InvariantHolds, PTL

(* The nominal level is of one moment of the update when the level or the    *)
(* band did not change meanwhile, and otherwise a level of the update within *)
(* a band of the update: both limits come with one read.  (sungrow.py:158)   *)
THEOREM ChargeStaysOfThisUpdate == Spec => []ChargeIsOfThisUpdate
  <1>1. ASSUME TelemetryInv PROVE ChargeIsOfThisUpdate
    <2> DEFINE Levels == {s.level : s \in during}
               Bands == {s.band : s \in during}
               Shown(l, b) == b[1] + Round((b[2] - b[1]) * l, 1000)
    <2> SUFFICES ASSUME phase = "updated", battery_level_nominal # None
                 PROVE  IF Cardinality(Levels) = 1 \/ Cardinality(Bands) = 1
                        THEN \E s \in during : battery_level_nominal = Shown(s.level, s.band)
                        ELSE \E l \in Levels, b \in Bands : battery_level_nominal = Shown(l, b)
      BY DEF ChargeIsOfThisUpdate
    <2>1. /\ attr["level"] # None /\ attr["min_soc"] # None /\ attr["max_soc"] # None
          /\ battery_level_nominal =
               attr["min_soc"] + Round((attr["max_soc"] - attr["min_soc"]) * attr["level"], 1000)
      BY DEF battery_level_nominal, NominalLevel, Known
    <2>2. PICK s \in during : attr["level"] = s.level
      <3>1. "level" \in DOMAIN Moment /\ Moment["level"] = "level"
        BY DEF Moment
      <3>2. \E s \in during : attr["level"] = s["level"]
        BY <1>1, <2>1, <3>1, KnownIsOfAMoment
      <3>3. QED
        BY <3>2
    <2>3. PICK t \in during : attr["min_soc"] = t.band[1] /\ attr["max_soc"] = t.band[2]
      <3>1. ReadIsTrue /\ Read("min_soc")
        BY <1>1, <2>1, KnownIsRead DEF Attributes, Holding
      <3>2. \E t \in during : BandAt(t)
        BY <3>1 DEF ReadIsTrue, Limits
      <3>3. QED
        BY <2>1, <3>2 DEF BandAt
    <2>4. battery_level_nominal = Shown(s.level, t.band)
      BY <2>1, <2>2, <2>3
    <2> HIDE DEF Shown
    <2>5. IsFiniteSet(Levels) /\ IsFiniteSet(Bands)
      <3>1. IsFiniteSet(during)
        BY <1>1 DEF TelemetryInv, Types
      <3>2. [m \in during |-> m.level] \in Surjection(during, Levels)
        BY DEF Surjection
      <3>3. [m \in during |-> m.band] \in Surjection(during, Bands)
        BY DEF Surjection
      <3>4. QED
        BY <3>1, <3>2, <3>3, FS_Surjection
    <2>6. CASE Cardinality(Levels) = 1
      <3>1. PICK l : Levels = {l}
        BY <2>5, <2>6, FS_Singleton
      <3>2. s.level = t.level
        BY <3>1
      <3>3. QED
        BY <2>4, <2>6, <3>2
    <2>7. CASE Cardinality(Bands) = 1
      <3>1. PICK b : Bands = {b}
        BY <2>5, <2>7, FS_Singleton
      <3>2. s.band = t.band
        BY <3>1
      <3>3. QED
        BY <2>4, <2>7, <3>2
    <2>8. CASE ~(Cardinality(Levels) = 1 \/ Cardinality(Bands) = 1)
      BY <2>4, <2>8
    <2>9. QED
      BY <2>6, <2>7, <2>8
  <1>2. QED
    BY <1>1, InvariantHolds, PTL
=============================================================================
