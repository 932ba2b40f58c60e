--------------------------- MODULE MCRegisterMap ---------------------------
EXTENDS RegisterMap

(* The registers of the per-phase B and C values of the grid meter. *)
MCPhaseBC == {"input"} \X ({5604, 5605, 5606, 5607} \cup {5741, 5742, 5744, 5745})

MCSinglePhase == {MCPhaseBC}

(* Complete, without one declared register, and with a single-phase meter. *)
MCOneHole ==
    {{}, MCPhaseBC} \cup {{<<f.space, f.addr>>} : f \in AllFields}
      \cup {{<<f.space, End(f) - 1>>} : f \in AllFields}
=============================================================================
