---------------------------- MODULE MCTelemetry ----------------------------
(* A complete inverter, and one that lacks a register above 13043: there all *)
(* input fields of the block 12999-13098 are dropped, component by component.*)
EXTENDS Telemetry

MCNarrowed == {f \in AllFields : f.space = "holding" \/ f.addr \notin 12999..13098}

MCResolutions == {AllFields, MCNarrowed}

(* The plan with the fewest round trips, block by block. *)
PlanFrom[S \in SUBSET AllFields] ==
    IF S = {} THEN <<>>
    ELSE LET b == NextBlock(S) IN <<b>> \o PlanFrom[{f \in S : ~Covers(b, f)}]

MCPlanOf(R) == PlanFrom[R]

(* Charging or importing, discharging or exporting. *)
MCPowers == {0 - 1500, 300}
=============================================================================
