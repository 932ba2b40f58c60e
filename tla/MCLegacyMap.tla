---------------------------- MODULE MCLegacyMap ----------------------------
(* Two fields at one address in different spaces, of which one changes its  *)
(* state class and the other its address, and one field whose legacy unit   *)
(* is wrong and acknowledged.                                               *)
EXTENDS LegacyMap, TLC

MCField(key, space, addr, kind, unit, soc, daily) ==
    [key |-> key, space |-> space, addr |-> addr, kind |-> kind, unit |-> unit,
     soc |-> soc, daily |-> daily]

MCEntry(section, space, addr, id, unit, class, state) ==
    [section |-> section, space |-> space, addr |-> addr, id |-> id, unit |-> unit,
     class |-> class, state |-> state]

MCDeviceFields ==
    {MCField("energy_exported", "input", 13001, "number", "kWh", FALSE, TRUE),
     MCField("energy_exported", "input", 13001, "number", "kWh", FALSE, FALSE),
     MCField("controls_mode", "holding", 13001, "boolean", "none", FALSE, FALSE),
     MCField("controls_mode", "holding", 13010, "boolean", "none", FALSE, FALSE),
     MCField("battery_soc", "input", 13022, "number", "none", TRUE, FALSE),
     MCField("status_reactive_power", "input", 13032, "number", "var", FALSE, FALSE)}

MCLegacyEntries ==
    {MCEntry("sensors", "input", 13001, "sensor.exported", "kWh", "energy", "total"),
     MCEntry("sensors", "input", 13001, "sensor.exported_2", "kWh", "energy",
             "total_increasing"),
     MCEntry("sensors", "holding", 13001, "sensor.mode_raw", "none", "none", "none"),
     MCEntry("switches", "none", 13010, "switch.mode", "none", "none", "none"),
     MCEntry("sensors", "input", 13022, "sensor.soc", "%", "battery", "none"),
     MCEntry("sensors", "input", 13032, "sensor.reactive", "W", "power", "measurement")}

MCManual ==
    "is_pv_generating" :> {"binary_sensor.pv_generating"}
=============================================================================
