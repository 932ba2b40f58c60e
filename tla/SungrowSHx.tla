----------------------------- MODULE SungrowSHx -----------------------------
(***************************************************************************)
(* The polling core of the device library: SungrowSHx.async_update and     *)
(* _drop_fields_in of sungrow_modbus/sungrow.py.                           *)
(*                                                                         *)
(* An inverter owns nine components; each declares fields, and a field is  *)
(* one or more consecutive registers of one register space.  An update     *)
(* reads every resolved field, several at a time, in blocks.  A block that *)
(* the inverter answers with "illegal data address" or "illegal function"  *)
(* narrows the first component that has a resolved field in that block,    *)
(* and the whole read is tried again.                                      *)
(*                                                                         *)
(* How the fields are cut into blocks is decided by ComponentGroup, which  *)
(* is not in this repository.  The module therefore allows every plan that *)
(* respects the declared max_span.                                         *)
(***************************************************************************)
EXTENDS Registers

CONSTANT Tasks  \* the tasks that may be awaiting async_update on the device

VARIABLES
    missing,   \* the registers that this inverter, or its meter, does not serve
    resolved,  \* the fields not yet dropped: resolved_fields of all components
    todo,      \* todo[t]: the fields task t has still to read in this attempt
    status     \* status[t]: where task t's async_update is, or how it ended

vars == <<missing, resolved, todo, status>>

(* How an async_update ends: every block answered; a ModbusError such as a  *)
(* timeout or a busy server; an unsupported answer that no drop could cure; *)
(* an unsupported answer that does not name its block.                      *)
Ended == {"new", "updated", "link_error", "unsupported", "unnamed"}

-----------------------------------------------------------------------------
(* The inverter answers a read of the block. *)
Served(b) == ServedBy(missing, b)

-----------------------------------------------------------------------------
(* SungrowSHx._drop_fields_in *)

(* A slip: the whole component is given up, not its fields in the block. *)
HitComponent(c, b) ==
    {f \in resolved : f.comp = c /\ \E g \in resolved : g.comp = c /\ Overlaps(g, b)}

(* The resolved fields of component c that overlap the block. *)
Hit(c, b) == {f \in resolved : f.comp = c /\ Overlaps(f, b)}

(* c is the first component, in the order of the tuple, with such a field. *)
FirstHit(c, b) ==
    /\ Hit(c, b) # {}
    /\ \A d \in Components : d < c => Hit(d, b) = {}

(* Slips of the action below: the loop goes on without reading again what the *)
(* refused block held, and restrict_fields is without effect.                *)
DropFieldsInGoesOn(t, b) ==
    \E c \in Components :
        /\ FirstHit(c, b)
        /\ resolved' = resolved \ Hit(c, b)
        /\ todo' = [todo EXCEPT ![t] = {f \in @ : ~Overlaps(f, b)}]
        /\ UNCHANGED status

DropFieldsInForgets(t, b) ==
    /\ todo' = [todo EXCEPT ![t] = resolved]
    /\ UNCHANGED <<resolved, status>>

(* restrict_fields narrows that component, and the loop reads again all that *)
(* is left.  Without such a component the error is raised to the caller.     *)
DropFieldsIn(t, b) ==
    \/ \E c \in Components :
          /\ FirstHit(c, b)
          /\ resolved' = resolved \ Hit(c, b)
          /\ todo' = [todo EXCEPT ![t] = resolved \ Hit(c, b)]
          /\ UNCHANGED status
    \/ /\ \A c \in Components : Hit(c, b) = {}
       /\ status' = [status EXCEPT ![t] = "unsupported"]
       /\ UNCHANGED <<resolved, todo>>

-----------------------------------------------------------------------------
(* SungrowSHx.async_update, one step per awaited request *)

StartUpdate(t) ==
    /\ status[t] # "reading"
    /\ status' = [status EXCEPT ![t] = "reading"]
    /\ todo' = [todo EXCEPT ![t] = resolved]
    /\ UNCHANGED <<missing, resolved>>

ReadServed(t, b) ==
    /\ status[t] = "reading"
    /\ Served(b)
    /\ todo' = [todo EXCEPT ![t] = {f \in @ : ~Covers(b, f)}]
    /\ UNCHANGED <<missing, resolved, status>>

ReadUnsupported(t, b) ==
    /\ status[t] = "reading"
    /\ ~Served(b)
    /\ DropFieldsIn(t, b)
    /\ UNCHANGED missing

(* err.block is None: there is nothing to drop, the error is raised. *)
ReadUnnamed(t, b) ==
    /\ status[t] = "reading"
    /\ ~Served(b)
    /\ status' = [status EXCEPT ![t] = "unnamed"]
    /\ UNCHANGED <<missing, resolved, todo>>

(* A slip: the error is caught and leaves the update in limbo. *)
LinkErrorSwallowed(t) ==
    /\ status[t] = "reading"
    /\ todo[t] # {}
    /\ status' = [status EXCEPT ![t] = "retrying"]
    /\ UNCHANGED <<missing, resolved, todo>>

(* Any other ModbusError leaves the loop at once. *)
LinkError(t) ==
    /\ status[t] = "reading"
    /\ todo[t] # {}
    /\ status' = [status EXCEPT ![t] = "link_error"]
    /\ UNCHANGED <<missing, resolved, todo>>

FinishUpdate(t) ==
    /\ status[t] = "reading"
    /\ todo[t] = {}
    /\ status' = [status EXCEPT ![t] = "updated"]
    /\ UNCHANGED <<missing, resolved, todo>>

(* What task t does once it is inside the loop. *)
UpdateStep(t) ==
    \/ \E b \in Blocks(todo[t]) :
          ReadServed(t, b) \/ ReadUnsupported(t, b) \/ ReadUnnamed(t, b)
    \/ LinkError(t)
    \/ FinishUpdate(t)

Init ==
    /\ missing \in Variants
    /\ resolved = Fields
    /\ todo = [t \in Tasks |-> {}]
    /\ status = [t \in Tasks |-> "new"]

Next == \E t \in Tasks : StartUpdate(t) \/ UpdateStep(t)

(* A request that was sent is answered, refused or times out. *)
Fairness == \A t \in Tasks : WF_vars(UpdateStep(t))

Spec == Init /\ [][Next]_vars /\ Fairness

-----------------------------------------------------------------------------
(* Properties *)

(* Type correctness. *)
TypeOK ==
    /\ missing \in Variants
    /\ resolved \in SUBSET Fields
    /\ todo \in [Tasks -> SUBSET Fields]
    /\ status \in [Tasks -> Ended \cup {"reading"}]

(* A field is only ever dropped when a register that the inverter does not   *)
(* serve lies in the same register space and within one pooled read of it: a *)
(* hole in the input registers never costs a holding-register control, and a *)
(* far hole costs nothing.  (sungrow.py:101-121)                             *)
DropsAreJustified ==
    \A f \in Fields \ resolved : \E r \in missing : Near(r, f)

(* Once one update has succeeded, all fields that are left are served, also  *)
(* those that were read before a later block was refused and the plan was    *)
(* cut anew, and those that another task had narrowed.  (sungrow.py:86-93)   *)
UpdatedMeansServed ==
    \A t \in Tasks : status[t] = "updated" => \A f \in resolved : Served(f)

(* A register that the inverter does not serve, if the answer names its      *)
(* block, never fails the update when no other task updates the same device: *)
(* _drop_fields_in always finds a component to narrow.  (sungrow.py:89-91)   *)
MissingNeverFatal ==
    \A t \in Tasks : status[t] # "unsupported"

(* The retry of the loop makes progress: a task only goes back to fields it  *)
(* had already read after the resolved fields have shrunk.                   *)
(* (sungrow.py:95-99)                                                        *)
RetriesNarrow ==
    [][\A t \in Tasks :
          (/\ status[t] = "reading" /\ status'[t] = "reading"
           /\ todo'[t] # todo[t])
             => \/ todo'[t] \subseteq todo[t] /\ resolved' = resolved
                \/ resolved' \subseteq resolved /\ resolved' # resolved]_vars

(* The while-True loop ends: every update that starts is over some day, no   *)
(* matter how many blocks the inverter refuses.  (sungrow.py:86-93)          *)
UpdateEnds ==
    \A t \in Tasks : status[t] = "reading" ~> status[t] # "reading"

(* The detailed update implements the promise of DeviceUpdate: it narrows    *)
(* only around missing registers, one component at a time, it reports        *)
(* success only when all that is left was answered, and it ends.             *)
PhaseOf(s) == IF s = "new" THEN "idle"
              ELSE IF s \in {"reading", "updated"} THEN s ELSE "failed"

Phase == [t \in Tasks |-> PhaseOf(status[t])]

Promise == INSTANCE DeviceUpdate WITH phase <- Phase

PromiseKept == Promise!Spec
=============================================================================
