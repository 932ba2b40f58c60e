---------------------------- MODULE RegisterMap ----------------------------
(***************************************************************************)
(* The polling core run over the registers that the library declares.      *)
(***************************************************************************)
EXTENDS SungrowSHx, RegisterTable

VARIABLES
    settled,  \* history: an update of this device has succeeded
    requests  \* history: requests[t]: the reads that t's update has sent so far

plannedVars == <<vars, settled, requests>>

(* One block of that plan: a step of UpdateStep. *)
PlannedRead(t) ==
    /\ todo[t] # {}
    /\ LET b == NextBlock(todo[t])
       IN  ReadServed(t, b) \/ ReadUnsupported(t, b)

PlannedInit == Init /\ settled = FALSE /\ requests = [t \in Tasks |-> 0]

PlannedNext ==
    \E t \in Tasks :
        /\ \/ StartUpdate(t) /\ requests' = [requests EXCEPT ![t] = 0]
           \/ PlannedRead(t) /\ requests' = [requests EXCEPT ![t] = @ + 1]
           \/ FinishUpdate(t) /\ UNCHANGED requests
        /\ settled' = (settled \/ status'[t] = "updated")

PlannedSpec == PlannedInit /\ [][PlannedNext]_plannedVars

-----------------------------------------------------------------------------
(* Properties *)

(* A hole in the input registers, where all meters and batteries are read,   *)
(* never costs a setting or a control, though both spaces use the addresses  *)
(* around 13000.  (sungrow.py:107)                                           *)
SpacesAreIndependent ==
    \A f \in Fields \ resolved : \E r \in missing : r[1] = f.space

(* The drop converges: once an update has succeeded, no field is dropped any *)
(* more, because the same fields are cut into the same blocks in every later *)
(* update, and those were all answered.  (sungrow.py:79-84)                  *)
PlanConverges == [][settled => resolved' = resolved]_plannedVars

(* The while-True loop is bounded: an update sends at most one read per      *)
(* declared field, and as many again for each field that was ever dropped,   *)
(* whatever the inverter refuses.  (sungrow.py:86-93)                        *)
RequestsAreBounded ==
    \A t \in Tasks :
        requests[t] <= Cardinality(Fields) * (Cardinality(Fields \ resolved) + 1)

(* One register that the inverter does not serve costs at most 28 of the 99  *)
(* fields, and fields of at most four of the nine components: the price of   *)
(* dropping per component and per pooled read.  (sungrow.py:101-122)         *)
HoleCostIsBounded ==
    Cardinality(missing) = 1 =>
        /\ Cardinality(Fields \ resolved) <= 28
        /\ Cardinality({f.comp : f \in Fields \ resolved}) <= 4

(* What the docstring of async_update says of a single-phase meter, which    *)
(* has no per-phase B/C block: the fields of the component whose block is    *)
(* unsupported are dropped.  The pooled read that holds the block also holds *)
(* fields of BatteryTelemetry, which comes first and is narrowed first,      *)
(* although the inverter serves all of them.  (sungrow.py:79-84)             *)
OnlyUnansweredComponentsNarrowed ==
    \A f \in Fields \ resolved :
        \E g \in Fields : g.comp = f.comp /\ ~Served(g)
=============================================================================
