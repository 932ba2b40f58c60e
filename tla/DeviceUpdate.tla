---------------------------- MODULE DeviceUpdate ----------------------------
(***************************************************************************)
(* What SungrowSHx.async_update promises its caller, without the blocks:   *)
(* an update either succeeds, and then every field still resolved has been *)
(* answered, or fails; on the way it may narrow one component at a time,   *)
(* and only around a register that the inverter really does not serve.     *)
(***************************************************************************)
EXTENDS Registers

CONSTANT Tasks  \* the tasks that may be awaiting async_update on the device

VARIABLES
    missing,   \* the registers that this inverter does not serve
    resolved,  \* the fields not yet dropped
    phase      \* phase[t]: "idle", "reading", "updated" or "failed"

vars == <<missing, resolved, phase>>

Begin(t) ==
    /\ phase[t] # "reading"
    /\ phase' = [phase EXCEPT ![t] = "reading"]
    /\ UNCHANGED <<missing, resolved>>

(* Fields of one component, all near a missing register, are given up. *)
Narrow(t) ==
    /\ phase[t] = "reading"
    /\ \E c \in Components, dropped \in SUBSET resolved :
          /\ dropped # {}
          /\ \A f \in dropped : f.comp = c /\ \E r \in missing : Near(r, f)
          /\ resolved' = resolved \ dropped
    /\ UNCHANGED <<missing, phase>>

Succeed(t) ==
    /\ phase[t] = "reading"
    /\ \A f \in resolved : ServedBy(missing, f)
    /\ phase' = [phase EXCEPT ![t] = "updated"]
    /\ UNCHANGED <<missing, resolved>>

Fail(t) ==
    /\ phase[t] = "reading"
    /\ phase' = [phase EXCEPT ![t] = "failed"]
    /\ UNCHANGED <<missing, resolved>>

Init ==
    /\ missing \in Variants
    /\ resolved = Fields
    /\ phase = [t \in Tasks |-> "idle"]

Next == \E t \in Tasks : Begin(t) \/ Narrow(t) \/ Succeed(t) \/ Fail(t)

(* The safe part of the promise, and the part that an update ends. *)
Safe == Init /\ [][Next]_vars

Spec == Safe /\ \A t \in Tasks : WF_vars(Succeed(t) \/ Fail(t))
=============================================================================
