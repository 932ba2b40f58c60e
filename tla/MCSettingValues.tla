-------------------------- MODULE MCSettingValues --------------------------
(* The battery's band, a start power with its marker for no value, a number *)
(* without a maximum and a select.                                          *)
EXTENDS SettingValues

MCSettings == {min_soc, max_soc, 33148, export_power_limit, 13050}

(* Around every end of a range, and between two steps of a register. *)
MCRequests == {0, 49, 50, 100, 499, 500, 501, 1000, 9950, 10000,
               655350, 1000000}
MCPanelWords == {0, 170, 500, 600, 65535}
=============================================================================
