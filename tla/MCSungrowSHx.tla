---------------------------- MODULE MCSungrowSHx ----------------------------
(* A small inverter for TLC: a component of one 16-bit and one 32-bit input  *)
(* field, a second input component behind a gap, and a holding-register      *)
(* component whose addresses coincide with those of the first.               *)
EXTENDS SungrowSHx

F(comp, name, space, addr, count) ==
    [comp |-> comp, name |-> name, space |-> space, addr |-> addr, count |-> count]

MCFields == {F(1, "model", "input", 0, 1), F(1, "power", "input", 1, 2),
             F(2, "meter_a", "input", 4, 1), F(2, "meter_b", "input", 5, 1),
             F(3, "max_soc", "holding", 1, 1)}

(* Any one of these registers may be absent, or two that no read, one read,  *)
(* or only reads of several components cover: 3 is between two fields.       *)
MCRegisters == {"input"} \X {0, 2, 3, 5} \cup {<<"holding", 1>>}
MCVariants == {{}} \cup {{r} : r \in MCRegisters}
                   \cup {{<<"input", 2>>, <<"input", 5>>}, {<<"input", 0>>, <<"holding", 1>>}}
=============================================================================
