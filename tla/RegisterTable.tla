--------------------------- MODULE RegisterTable ---------------------------
(***************************************************************************)
(* The registers that the library declares, component by component, and    *)
(* the plan its docstring asks for: as few round trips as the register     *)
(* layout allows.                                                          *)
(*                                                                         *)
(* A field is a component position, a first address and a width; the       *)
(* address is unique in its space, so that the name is the component's.    *)
(***************************************************************************)
EXTENDS Registers

(* The components tuple, sungrow.py:64-74. *)
Names == <<"info", "pv", "status", "battery", "battery_settings", "grid",
           "backup", "energy", "controls">>

(* Fields of one component and one width. *)
At(comp, space, count, addresses) ==
    {[comp |-> comp, name |-> Names[comp], space |-> space,
      addr |-> a, count |-> count] : a \in addresses}

DeviceInformation ==
    At(1, "input", 1, {4951, 4999, 5000})
      \cup At(1, "input", 10, {4989})
      \cup At(1, "input", 11, {2581, 2596, 2612, 2628})
      \cup At(1, "input", 15, {4953, 4968, 13249, 13264, 13279})

PVStrings ==
    At(2, "input", 1, 5010..5015 \cup {5114, 5115}) \cup At(2, "input", 2, {5016})

InverterStatus ==
    At(3, "input", 1, {5007, 5018, 5019, 5020, 5034, 12999, 13000, 13030, 13031, 13032})
      \cup At(3, "input", 2, {5032, 13033})

BatteryTelemetry ==
    At(4, "input", 1, {5627, 5630, 5634, 5635, 5638, 13019, 13022, 13023, 13024})
      \cup At(4, "input", 2, {5213})

BatterySettings ==
    At(5, "holding", 1, {13050, 13051, 13057, 13058, 13099,
                         33046, 33047, 33148, 33149})

GridMeter ==
    At(6, "input", 1, {5241, 5621, 5622} \cup 5740..5745)
      \cup At(6, "input", 2, {5600, 5602, 5604, 5606, 13007, 13009})

BackupPower ==
    At(7, "input", 1, {5722, 5723, 5724}) \cup At(7, "input", 2, {5725})

EnergyTotals ==
    At(8, "input", 1, {5002, 13001, 13004, 13011, 13016, 13025, 13035, 13039, 13044})
      \cup At(8, "input", 2, {5003, 13002, 13005, 13012, 13017, 13026, 13036,
                              13040, 13045})

Controls ==
    At(9, "holding", 1, {13001, 13010, 13049, 13073, 13074, 13086, 13088, 13089, 31212})

AllFields ==
    DeviceInformation \cup PVStrings \cup InverterStatus \cup BatteryTelemetry
      \cup BatterySettings \cup GridMeter \cup BackupPower \cup EnergyTotals
      \cup Controls

(* A slip: a span as narrow as for devices that refuse wide reads. *)
max_span_narrow == 20

(* SungrowComponent.max_span *)
max_span == 100

(* No register belongs to two fields, no field is wider than a read, and a   *)
(* component keeps to one register space.                                    *)
ASSUME LayoutAssumption ==
    /\ \A f, g \in AllFields :
          f.space = g.space /\ f.addr <= g.addr /\ g.addr < End(f) => f = g
    /\ \A f \in AllFields : f.count <= max_span
    /\ \A f, g \in AllFields : f.comp = g.comp => f.space = g.space

(* The library declares input and holding registers, and no others. *)
ASSUME SpacesAssumption == Spaces = {"input", "holding"}

-----------------------------------------------------------------------------
(* The plan with the fewest round trips: one space after the other, each     *)
(* block from the first field left to the last one within max_span of it.    *)
NextBlock(S) ==
    LET space == IF \E f \in S : f.space = "input" THEN "input" ELSE "holding"
        mine  == {f \in S : f.space = space}
        first == CHOOSE f \in mine : \A g \in mine : f.addr <= g.addr
        fits  == {g \in mine : End(g) - first.addr <= MaxSpan}
        last  == CHOOSE g \in fits : \A h \in fits : h.addr <= g.addr
    IN  Span(first, last)
=============================================================================
