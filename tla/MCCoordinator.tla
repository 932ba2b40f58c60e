--------------------------- MODULE MCCoordinator ---------------------------
(* A setting of one component, the running state and a current of another, *)
(* and a register between those two that no field holds.                   *)
EXTENDS Coordinator

MCFields == {[comp |-> 1, name |-> "running_state", space |-> "input", addr |-> 0, count |-> 1],
             [comp |-> 1, name |-> "phase_a_current", space |-> "input", addr |-> 2, count |-> 1],
             [comp |-> 2, name |-> "max_soc", space |-> "holding", addr |-> 1, count |-> 1]}

MCRunningState == CHOOSE f \in MCFields : f.name = "running_state"

(* An inverter that serves everything, or lacks the register of a field. *)
MCVariants == {{}, {<<"input", 0>>}, {<<"holding", 1>>}}

(* Or lacks the one between. *)
MCVariantsGap == MCVariants \cup {{<<"input", 1>>}}

(* One field of each kind. *)
MCFieldsTwo == {f \in MCFields : f.name # "phase_a_current"}
=============================================================================
